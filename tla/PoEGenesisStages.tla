-------------------------- MODULE PoEGenesisStages --------------------------
(***************************************************************************)
(* The steps of the bootstrap, for any accounts and any seed genesis files.*)
(* The contracts that are set up before a stage are where the addresses    *)
(* say, refer to the contracts they should and have the configuration of   *)
(* the genesis file.  Each stage adds its contract and keeps the others.   *)
(*                                                                         *)
(* The rounds of the import, for any genesis file: each restores a         *)
(* contract, and keeps those before it and those behind it.                *)
(***************************************************************************)
EXTENDS PoEBootstrap, RecursionProof, TLAPS

(* The prover of every leaf that names no other.                            *)
USE ZenonT(30)

-----------------------------------------------------------------------------
(* The loops of the model are recursive functions, which exist.            *)

(* The messages of a contract, one after the other.                        *)
SudoRounds(f, s, c, types) ==
    /\ f[0] = {s}
    /\ \A i \in 1 .. Len(types) : f[i] = UNION {RequestPrivilege(r, c, types[i]) : r \in f[i - 1]}
    /\ Sudo(s, c, types) = f[Len(types)]

LEMMA SudoLoop == ASSUME NEW s, NEW c, NEW types, Len(types) \in Nat PROVE \E f : SudoRounds(f, s, c, types)
<1> DEFINE n == Len(types)
           Round(i, v) == UNION {RequestPrivilege(r, c, types[i]) : r \in v}
           Is(f, k) == f[0] = {s} /\ \A i \in 1 .. k : f[i] = Round(i, f[i - 1])
           Rec(f) == f = [i \in 0 .. n |-> IF i = 0 THEN {s} ELSE Round(i, f[i - 1])]
           H == {k \in 0 .. n : \E f : Is(f, k)}
<1> Sudo(s, c, types) = (CHOOSE f : Rec(f))[n] /\ n \in Nat
  BY DEF Sudo, Then
<1> HIDE DEF n, Round
<1> 0 \in 0 .. n /\ n \in 0 .. n /\ \A i \in 1 .. n : i \in 0 .. n /\ i # 0 /\ i - 1 \in 0 .. n
  BY SMTT(30)
<1>3. 0 \in H
  <2>1. Is([i \in {0} |-> {s}], 0)
    BY SMTT(30)
  <2> QED BY <2>1
<1> ASSUME NEW k \in 1 .. n, k - 1 \in H PROVE k \in H
  <2> PICK f : Is(f, k - 1)
    OBVIOUS
  <2> k \in Nat /\ k \in 0 .. n /\ 0 \in 0 .. k - 1
    BY SMTT(30)
  <2> PICK h : Extends(h, k, f, Round(k, f[k - 1]))
    BY Extended
  <2>4. ASSUME NEW i \in 1 .. k PROVE h[i] = Round(i, h[i - 1])
    <3>1. i - 1 \in 0 .. k - 1 /\ (i # k => i \in 1 .. k - 1 /\ i \in 0 .. k - 1)
      BY SMTT(30)
    <3> QED BY <3>1 DEF Extends
  <2>5. Is(h, k)
    BY <2>4 DEF Extends
  <2> QED BY <2>5
<1>5. PICK f : Is(f, n)
  <2>1. \A k \in 0 .. n : k \in H
    <3> HIDE DEF H
    <3> QED BY <1>3, UpToInduction
  <2> QED BY <2>1
<1> DEFINE h == [i \in 0 .. n |-> f[i]]
<1>6. Rec(h)
  <2> h = [i \in 0 .. n |-> h[i]] /\ \A i \in 0 .. n : h[i] = f[i]
    OBVIOUS
  <2> HIDE DEF h
  <2>2. \A i \in 0 .. n : i # 0 => i \in 1 .. n
    BY SMTT(30)
  <2>3. \A i \in 0 .. n : h[i] = IF i = 0 THEN {s} ELSE Round(i, h[i - 1])
    BY <1>5, <2>2
  <2> QED BY <2>3
<1> HIDE DEF h
<1> DEFINE F == CHOOSE x : Rec(x)
<1>7. Rec(F)
  BY <1>6
<1> HIDE DEF F
<1>8. F[0] = {s} /\ \A i \in 1 .. n : F[i] = Round(i, F[i - 1])
  BY <1>7
<1>9. SudoRounds(F, s, c, types)
  BY <1>8 DEF n, Round, F, SudoRounds
<1> QED BY <1>9

(* The contracts that the genesis file wants privileged.                   *)
PromoteRounds(f, stores, addresses) ==
    /\ f[0] = stores
    /\ \A i \in 1 .. Len(addresses) : f[i] = UNION {SetPrivileged(r, addresses[i]) : r \in f[i - 1]}
    /\ SetAllPrivileged(stores, addresses) = f[Len(addresses)]

LEMMA PromoteLoop == ASSUME NEW stores, NEW addresses, Len(addresses) \in Nat PROVE \E f : PromoteRounds(f, stores, addresses)
<1> DEFINE n == Len(addresses)
           Round(i, v) == UNION {SetPrivileged(r, addresses[i]) : r \in v}
           Is(f, k) == f[0] = stores /\ \A i \in 1 .. k : f[i] = Round(i, f[i - 1])
           Rec(f) == f = [i \in 0 .. n |-> IF i = 0 THEN stores ELSE Round(i, f[i - 1])]
           H == {k \in 0 .. n : \E f : Is(f, k)}
<1> SetAllPrivileged(stores, addresses) = (CHOOSE f : Rec(f))[n] /\ n \in Nat
  BY DEF SetAllPrivileged, Then
<1> HIDE DEF n, Round
<1> 0 \in 0 .. n /\ n \in 0 .. n /\ \A i \in 1 .. n : i \in 0 .. n /\ i # 0 /\ i - 1 \in 0 .. n
  BY SMTT(30)
<1>3. 0 \in H
  <2>1. Is([i \in {0} |-> stores], 0)
    BY SMTT(30)
  <2> QED BY <2>1
<1> ASSUME NEW k \in 1 .. n, k - 1 \in H PROVE k \in H
  <2> PICK f : Is(f, k - 1)
    OBVIOUS
  <2> k \in Nat /\ k \in 0 .. n /\ 0 \in 0 .. k - 1
    BY SMTT(30)
  <2> PICK h : Extends(h, k, f, Round(k, f[k - 1]))
    BY Extended
  <2>4. ASSUME NEW i \in 1 .. k PROVE h[i] = Round(i, h[i - 1])
    <3>1. i - 1 \in 0 .. k - 1 /\ (i # k => i \in 1 .. k - 1 /\ i \in 0 .. k - 1)
      BY SMTT(30)
    <3> QED BY <3>1 DEF Extends
  <2>5. Is(h, k)
    BY <2>4 DEF Extends
  <2> QED BY <2>5
<1>5. PICK f : Is(f, n)
  <2>1. \A k \in 0 .. n : k \in H
    <3> HIDE DEF H
    <3> QED BY <1>3, UpToInduction
  <2> QED BY <2>1
<1> DEFINE h == [i \in 0 .. n |-> f[i]]
<1>6. Rec(h)
  <2> h = [i \in 0 .. n |-> h[i]] /\ \A i \in 0 .. n : h[i] = f[i]
    OBVIOUS
  <2> HIDE DEF h
  <2>2. \A i \in 0 .. n : i # 0 => i \in 1 .. n
    BY SMTT(30)
  <2>3. \A i \in 0 .. n : h[i] = IF i = 0 THEN stores ELSE Round(i, h[i - 1])
    BY <1>5, <2>2
  <2> QED BY <2>3
<1> HIDE DEF h
<1> DEFINE F == CHOOSE x : Rec(x)
<1>7. Rec(F)
  BY <1>6
<1> HIDE DEF F
<1>8. F[0] = stores /\ \A i \in 1 .. n : F[i] = Round(i, F[i - 1])
  BY <1>7
<1>9. PromoteRounds(F, stores, addresses)
  BY <1>8 DEF n, Round, F, PromoteRounds
<1> QED BY <1>9

(* The contracts of the genesis file.                                      *)
ImportRounds(f, s, d) ==
    /\ f[0] = {s}
    /\ \A i \in 1 .. Len(d.contracts) : f[i] = UNION {ImportContract(r, d, i) : r \in f[i - 1]}
    /\ ImportAll(s, d) = f[Len(d.contracts)]

LEMMA ImportLoop == ASSUME NEW s, NEW d, Len(d.contracts) \in Nat PROVE \E f : ImportRounds(f, s, d)
<1> DEFINE n == Len(d.contracts)
           Round(i, v) == UNION {ImportContract(r, d, i) : r \in v}
           Is(f, k) == f[0] = {s} /\ \A i \in 1 .. k : f[i] = Round(i, f[i - 1])
           Rec(f) == f = [i \in 0 .. n |-> IF i = 0 THEN {s} ELSE Round(i, f[i - 1])]
           H == {k \in 0 .. n : \E f : Is(f, k)}
<1> ImportAll(s, d) = (CHOOSE f : Rec(f))[n] /\ n \in Nat
  BY DEF ImportAll, Then
<1> HIDE DEF n, Round
<1> 0 \in 0 .. n /\ n \in 0 .. n /\ \A i \in 1 .. n : i \in 0 .. n /\ i # 0 /\ i - 1 \in 0 .. n
  BY SMTT(30)
<1>3. 0 \in H
  <2>1. Is([i \in {0} |-> {s}], 0)
    BY SMTT(30)
  <2> QED BY <2>1
<1> ASSUME NEW k \in 1 .. n, k - 1 \in H PROVE k \in H
  <2> PICK f : Is(f, k - 1)
    OBVIOUS
  <2> k \in Nat /\ k \in 0 .. n /\ 0 \in 0 .. k - 1
    BY SMTT(30)
  <2> PICK h : Extends(h, k, f, Round(k, f[k - 1]))
    BY Extended
  <2>4. ASSUME NEW i \in 1 .. k PROVE h[i] = Round(i, h[i - 1])
    <3>1. i - 1 \in 0 .. k - 1 /\ (i # k => i \in 1 .. k - 1 /\ i \in 0 .. k - 1)
      BY SMTT(30)
    <3> QED BY <3>1 DEF Extends
  <2>5. Is(h, k)
    BY <2>4 DEF Extends
  <2> QED BY <2>5
<1>5. PICK f : Is(f, n)
  <2>1. \A k \in 0 .. n : k \in H
    <3> HIDE DEF H
    <3> QED BY <1>3, UpToInduction
  <2> QED BY <2>1
<1> DEFINE h == [i \in 0 .. n |-> f[i]]
<1>6. Rec(h)
  <2> h = [i \in 0 .. n |-> h[i]] /\ \A i \in 0 .. n : h[i] = f[i]
    OBVIOUS
  <2> HIDE DEF h
  <2>2. \A i \in 0 .. n : i # 0 => i \in 1 .. n
    BY SMTT(30)
  <2>3. \A i \in 0 .. n : h[i] = IF i = 0 THEN {s} ELSE Round(i, h[i - 1])
    BY <1>5, <2>2
  <2> QED BY <2>3
<1> HIDE DEF h
<1> DEFINE F == CHOOSE x : Rec(x)
<1>7. Rec(F)
  BY <1>6
<1> HIDE DEF F
<1>8. F[0] = {s} /\ \A i \in 1 .. n : F[i] = Round(i, F[i - 1])
  BY <1>7
<1>9. ImportRounds(F, s, d)
  BY <1>8 DEF n, Round, F, ImportRounds
<1> QED BY <1>9

(* The addresses of a dump.                                                *)
AddressRounds(f, s, contracts) ==
    /\ f[0] = s
    /\ \A i \in 1 .. Len(contracts) : f[i] = SetPoEContractAddress(f[i - 1], contracts[i].type, contracts[i].address)
    /\ SetDumpedAddresses(s, contracts) = f[Len(contracts)]

LEMMA AddressLoop == ASSUME NEW s, NEW contracts, Len(contracts) \in Nat PROVE \E f : AddressRounds(f, s, contracts)
<1> DEFINE n == Len(contracts)
           Round(i, v) == SetPoEContractAddress(v, contracts[i].type, contracts[i].address)
           Is(f, k) == f[0] = s /\ \A i \in 1 .. k : f[i] = Round(i, f[i - 1])
           Rec(f) == f = [i \in 0 .. n |-> IF i = 0 THEN s ELSE Round(i, f[i - 1])]
           H == {k \in 0 .. n : \E f : Is(f, k)}
<1> SetDumpedAddresses(s, contracts) = (CHOOSE f : Rec(f))[n] /\ n \in Nat
  BY DEF SetDumpedAddresses
<1> HIDE DEF n, Round
<1> 0 \in 0 .. n /\ n \in 0 .. n /\ \A i \in 1 .. n : i \in 0 .. n /\ i # 0 /\ i - 1 \in 0 .. n
  BY SMTT(30)
<1>3. 0 \in H
  <2>1. Is([i \in {0} |-> s], 0)
    BY SMTT(30)
  <2> QED BY <2>1
<1> ASSUME NEW k \in 1 .. n, k - 1 \in H PROVE k \in H
  <2> PICK f : Is(f, k - 1)
    OBVIOUS
  <2> k \in Nat /\ k \in 0 .. n /\ 0 \in 0 .. k - 1
    BY SMTT(30)
  <2> PICK h : Extends(h, k, f, Round(k, f[k - 1]))
    BY Extended
  <2>4. ASSUME NEW i \in 1 .. k PROVE h[i] = Round(i, h[i - 1])
    <3>1. i - 1 \in 0 .. k - 1 /\ (i # k => i \in 1 .. k - 1 /\ i \in 0 .. k - 1)
      BY SMTT(30)
    <3> QED BY <3>1 DEF Extends
  <2>5. Is(h, k)
    BY <2>4 DEF Extends
  <2> QED BY <2>5
<1>5. PICK f : Is(f, n)
  <2>1. \A k \in 0 .. n : k \in H
    <3> HIDE DEF H
    <3> QED BY <1>3, UpToInduction
  <2> QED BY <2>1
<1> DEFINE h == [i \in 0 .. n |-> f[i]]
<1>6. Rec(h)
  <2> h = [i \in 0 .. n |-> h[i]] /\ \A i \in 0 .. n : h[i] = f[i]
    OBVIOUS
  <2> HIDE DEF h
  <2>2. \A i \in 0 .. n : i # 0 => i \in 1 .. n
    BY SMTT(30)
  <2>3. \A i \in 0 .. n : h[i] = IF i = 0 THEN s ELSE Round(i, h[i - 1])
    BY <1>5, <2>2
  <2> QED BY <2>3
<1> HIDE DEF h
<1> DEFINE F == CHOOSE x : Rec(x)
<1>7. Rec(F)
  BY <1>6
<1> HIDE DEF F
<1>8. F[0] = s /\ \A i \in 1 .. n : F[i] = Round(i, F[i - 1])
  BY <1>7
<1>9. AddressRounds(F, s, contracts)
  BY <1>8 DEF n, Round, F, AddressRounds
<1> QED BY <1>9

(* The members behind the first.                                           *)
PaidRounds(f, s, t, cfg) ==
    /\ f[0] = {s}
    /\ \A i \in 1 .. Len(cfg.members) - 1 : f[i] = UNION {DepositEscrow(r, t, cfg, cfg.members[i + 1]) : r \in f[i - 1]}
    /\ addToTrustedCircle(s, t, cfg) = f[Len(cfg.members) - 1]

LEMMA PaidLoop == ASSUME NEW s, NEW t, NEW cfg, Len(cfg.members) - 1 \in Nat PROVE \E f : PaidRounds(f, s, t, cfg)
<1> DEFINE n == Len(cfg.members) - 1
           Round(i, v) == UNION {DepositEscrow(r, t, cfg, cfg.members[i + 1]) : r \in v}
           Is(f, k) == f[0] = {s} /\ \A i \in 1 .. k : f[i] = Round(i, f[i - 1])
           Rec(f) == f = [i \in 0 .. n |-> IF i = 0 THEN {s} ELSE Round(i, f[i - 1])]
           H == {k \in 0 .. n : \E f : Is(f, k)}
<1> addToTrustedCircle(s, t, cfg) = (CHOOSE f : Rec(f))[n] /\ n \in Nat
  BY DEF addToTrustedCircle, Then
<1> HIDE DEF n, Round
<1> 0 \in 0 .. n /\ n \in 0 .. n /\ \A i \in 1 .. n : i \in 0 .. n /\ i # 0 /\ i - 1 \in 0 .. n
  BY SMTT(30)
<1>3. 0 \in H
  <2>1. Is([i \in {0} |-> {s}], 0)
    BY SMTT(30)
  <2> QED BY <2>1
<1> ASSUME NEW k \in 1 .. n, k - 1 \in H PROVE k \in H
  <2> PICK f : Is(f, k - 1)
    OBVIOUS
  <2> k \in Nat /\ k \in 0 .. n /\ 0 \in 0 .. k - 1
    BY SMTT(30)
  <2> PICK h : Extends(h, k, f, Round(k, f[k - 1]))
    BY Extended
  <2>4. ASSUME NEW i \in 1 .. k PROVE h[i] = Round(i, h[i - 1])
    <3>1. i - 1 \in 0 .. k - 1 /\ (i # k => i \in 1 .. k - 1 /\ i \in 0 .. k - 1)
      BY SMTT(30)
    <3> QED BY <3>1 DEF Extends
  <2>5. Is(h, k)
    BY <2>4 DEF Extends
  <2> QED BY <2>5
<1>5. PICK f : Is(f, n)
  <2>1. \A k \in 0 .. n : k \in H
    <3> HIDE DEF H
    <3> QED BY <1>3, UpToInduction
  <2> QED BY <2>1
<1> DEFINE h == [i \in 0 .. n |-> f[i]]
<1>6. Rec(h)
  <2> h = [i \in 0 .. n |-> h[i]] /\ \A i \in 0 .. n : h[i] = f[i]
    OBVIOUS
  <2> HIDE DEF h
  <2>2. \A i \in 0 .. n : i # 0 => i \in 1 .. n
    BY SMTT(30)
  <2>3. \A i \in 0 .. n : h[i] = IF i = 0 THEN {s} ELSE Round(i, h[i - 1])
    BY <1>5, <2>2
  <2> QED BY <2>3
<1> HIDE DEF h
<1> DEFINE F == CHOOSE x : Rec(x)
<1>7. Rec(F)
  BY <1>6
<1> HIDE DEF F
<1>8. F[0] = {s} /\ \A i \in 1 .. n : F[i] = Round(i, F[i - 1])
  BY <1>7
<1>9. PaidRounds(F, s, t, cfg)
  BY <1>8 DEF n, Round, F, PaidRounds
<1> QED BY <1>9

(* The migration admins of all contracts.                                  *)
MigratorRounds(f, s) ==
    /\ f[0] = {s}
    /\ \A i \in 1 .. Len(PoEContractTypeList) : f[i] = UNION {UpdateContractAdmin(r, PoEContractTypeList[i], Bootstrap,
                                  GetPoEContractAddress(s, "VALIDATOR_VOTING")) : r \in f[i - 1]}
    /\ setAllPoEContractsInstanceMigrators(s) = f[Len(PoEContractTypeList)]

LEMMA MigratorLoop == ASSUME NEW s, Len(PoEContractTypeList) \in Nat PROVE \E f : MigratorRounds(f, s)
<1> DEFINE n == Len(PoEContractTypeList)
           Round(i, v) == UNION {UpdateContractAdmin(r, PoEContractTypeList[i], Bootstrap,
                                  GetPoEContractAddress(s, "VALIDATOR_VOTING")) : r \in v}
           Is(f, k) == f[0] = {s} /\ \A i \in 1 .. k : f[i] = Round(i, f[i - 1])
           Rec(f) == f = [i \in 0 .. n |-> IF i = 0 THEN {s} ELSE Round(i, f[i - 1])]
           H == {k \in 0 .. n : \E f : Is(f, k)}
<1> setAllPoEContractsInstanceMigrators(s) = (CHOOSE f : Rec(f))[n] /\ n \in Nat
  BY DEF setAllPoEContractsInstanceMigrators, Then
<1> HIDE DEF n, Round
<1> 0 \in 0 .. n /\ n \in 0 .. n /\ \A i \in 1 .. n : i \in 0 .. n /\ i # 0 /\ i - 1 \in 0 .. n
  BY SMTT(30)
<1>3. 0 \in H
  <2>1. Is([i \in {0} |-> {s}], 0)
    BY SMTT(30)
  <2> QED BY <2>1
<1> ASSUME NEW k \in 1 .. n, k - 1 \in H PROVE k \in H
  <2>1. PICK f : Is(f, k - 1)
    OBVIOUS
  <2> k \in Nat /\ k \in 0 .. n /\ 0 \in 0 .. k - 1
    BY SMTT(30)
  <2> PICK h : Extends(h, k, f, Round(k, f[k - 1]))
    BY Extended
  <2>4. ASSUME NEW i \in 1 .. k PROVE h[i] = Round(i, h[i - 1])
    <3>1. i - 1 \in 0 .. k - 1 /\ (i # k => i \in 1 .. k - 1 /\ i \in 0 .. k - 1)
      BY SMTT(30)
    <3> QED BY <2>1, <3>1 DEF Extends
  <2>5. Is(h, k)
    BY <2>1, <2>4 DEF Extends
  <2> QED BY <2>5
<1>5. PICK f : Is(f, n)
  <2>1. \A k \in 0 .. n : k \in H
    <3> HIDE DEF H
    <3> QED BY <1>3, UpToInduction
  <2> QED BY <2>1
<1> DEFINE h == [i \in 0 .. n |-> f[i]]
<1>6. Rec(h)
  <2> h = [i \in 0 .. n |-> h[i]] /\ \A i \in 0 .. n : h[i] = f[i]
    OBVIOUS
  <2> HIDE DEF h
  <2>2. \A i \in 0 .. n : i # 0 => i \in 1 .. n
    BY SMTT(30)
  <2>3. \A i \in 0 .. n : h[i] = IF i = 0 THEN {s} ELSE Round(i, h[i - 1])
    BY <1>5, <2>2
  <2> QED BY <2>3
<1> HIDE DEF h
<1> DEFINE F == CHOOSE x : Rec(x)
<1>7. Rec(F)
  BY <1>6
<1> HIDE DEF F
<1>8. F[0] = {s} /\ \A i \in 1 .. n : F[i] = Round(i, F[i - 1])
  BY <1>7
<1>9. MigratorRounds(F, s)
  BY <1>8 DEF n, Round, F, MigratorRounds
<1> QED BY <1>9

(* The genesis transactions.                                               *)
GenTxRounds(f, s, g) ==
    /\ f[0] = {s}
    /\ \A i \in 1 .. Len(g.gentxs) : f[i] = UNION {IF FeeIsEnough(r) THEN CreateValidator(r, g, g.gentxs[i]) ELSE {} : r \in f[i - 1]}
    /\ DeliverGenTxs(s, g) = f[Len(g.gentxs)]

LEMMA GenTxLoop == ASSUME NEW s, NEW g, Len(g.gentxs) \in Nat PROVE \E f : GenTxRounds(f, s, g)
<1> DEFINE n == Len(g.gentxs)
           Round(i, v) == UNION {IF FeeIsEnough(r) THEN CreateValidator(r, g, g.gentxs[i]) ELSE {} : r \in v}
           Is(f, k) == f[0] = {s} /\ \A i \in 1 .. k : f[i] = Round(i, f[i - 1])
           Rec(f) == f = [i \in 0 .. n |-> IF i = 0 THEN {s} ELSE Round(i, f[i - 1])]
           H == {k \in 0 .. n : \E f : Is(f, k)}
<1> DeliverGenTxs(s, g) = (CHOOSE f : Rec(f))[n] /\ n \in Nat
  BY DEF DeliverGenTxs, Then
<1> HIDE DEF n, Round
<1>2. 0 \in 0 .. n /\ n \in 0 .. n /\ \A i \in 1 .. n : i \in 0 .. n /\ i # 0 /\ i - 1 \in 0 .. n
  BY SMTT(30)
<1>3. 0 \in H
  <2>1. Is([i \in {0} |-> {s}], 0)
    BY SMTT(30)
  <2> QED BY <1>2, <2>1
<1> ASSUME NEW k \in 1 .. n, k - 1 \in H PROVE k \in H
  <2> PICK f : Is(f, k - 1)
    OBVIOUS
  <2> k \in Nat /\ k \in 0 .. n /\ 0 \in 0 .. k - 1
    BY SMTT(30)
  <2> PICK h : Extends(h, k, f, Round(k, f[k - 1]))
    BY Extended
  <2>4. ASSUME NEW i \in 1 .. k PROVE h[i] = Round(i, h[i - 1])
    <3>1. i - 1 \in 0 .. k - 1 /\ (i # k => i \in 1 .. k - 1 /\ i \in 0 .. k - 1)
      BY SMTT(30)
    <3> QED BY <3>1 DEF Extends
  <2>5. Is(h, k)
    BY <2>4 DEF Extends
  <2> QED BY <2>5
<1>5. PICK f : Is(f, n)
  <2>1. \A k \in 0 .. n : k \in H
    <3> HIDE DEF H
    <3> QED BY <1>3, UpToInduction
  <2> QED BY <1>2, <2>1
<1> DEFINE h == [i \in 0 .. n |-> f[i]]
<1>6. Rec(h)
  <2> h = [i \in 0 .. n |-> h[i]] /\ \A i \in 0 .. n : h[i] = f[i]
    OBVIOUS
  <2> HIDE DEF h
  <2>2. \A i \in 0 .. n : i # 0 => i \in 1 .. n
    BY SMTT(30)
  <2>3. \A i \in 0 .. n : h[i] = IF i = 0 THEN {s} ELSE Round(i, h[i - 1])
    BY <1>5, <1>2, <2>2
  <2> QED BY <2>3
<1> HIDE DEF h
<1> DEFINE F == CHOOSE x : Rec(x)
<1>7. Rec(F)
  BY <1>6
<1> HIDE DEF F
<1>8. F[0] = {s} /\ \A i \in 1 .. n : F[i] = Round(i, F[i - 1])
  BY <1>7, <1>2
<1>9. GenTxRounds(F, s, g)
  BY <1>8 DEF n, Round, F, GenTxRounds
<1> QED BY <1>9

(* The contracts of an export.                                             *)
DumpRounds(f, s) ==
    /\ f[0] = <<>>
    /\ \A i \in 1 .. Len(PoEContractTypeList) : f[i] = IF s.addr[PoEContractTypeList[i]] = 0 THEN f[i - 1]
                         ELSE Append(f[i - 1], [type |-> PoEContractTypeList[i],
                                         address |-> s.addr[PoEContractTypeList[i]]])
    /\ DumpedContracts(s) = f[Len(PoEContractTypeList)]

LEMMA DumpLoop == ASSUME NEW s, Len(PoEContractTypeList) \in Nat PROVE \E f : DumpRounds(f, s)
<1> DEFINE n == Len(PoEContractTypeList)
           Round(i, v) == IF s.addr[PoEContractTypeList[i]] = 0 THEN v
                         ELSE Append(v, [type |-> PoEContractTypeList[i],
                                         address |-> s.addr[PoEContractTypeList[i]]])
           Is(f, k) == f[0] = <<>> /\ \A i \in 1 .. k : f[i] = Round(i, f[i - 1])
           Rec(f) == f = [i \in 0 .. n |-> IF i = 0 THEN <<>> ELSE Round(i, f[i - 1])]
           H == {k \in 0 .. n : \E f : Is(f, k)}
<1> DumpedContracts(s) = (CHOOSE f : Rec(f))[n] /\ n \in Nat
  BY DEF DumpedContracts
<1> HIDE DEF n, Round
<1> 0 \in 0 .. n /\ n \in 0 .. n /\ \A i \in 1 .. n : i \in 0 .. n /\ i # 0 /\ i - 1 \in 0 .. n
  BY SMTT(30)
<1>3. 0 \in H
  <2>1. Is([i \in {0} |-> <<>>], 0)
    BY SMTT(30)
  <2> QED BY <2>1
<1> ASSUME NEW k \in 1 .. n, k - 1 \in H PROVE k \in H
  <2> PICK f : Is(f, k - 1)
    OBVIOUS
  <2> k \in Nat /\ k \in 0 .. n /\ 0 \in 0 .. k - 1
    BY SMTT(30)
  <2> PICK h : Extends(h, k, f, Round(k, f[k - 1]))
    BY Extended
  <2>4. ASSUME NEW i \in 1 .. k PROVE h[i] = Round(i, h[i - 1])
    <3>1. i - 1 \in 0 .. k - 1 /\ (i # k => i \in 1 .. k - 1 /\ i \in 0 .. k - 1)
      BY SMTT(30)
    <3> QED BY <3>1 DEF Extends
  <2>5. Is(h, k)
    BY <2>4 DEF Extends
  <2> QED BY <2>5
<1>5. PICK f : Is(f, n)
  <2>1. \A k \in 0 .. n : k \in H
    <3> HIDE DEF H
    <3> QED BY <1>3, UpToInduction
  <2> QED BY <2>1
<1> DEFINE h == [i \in 0 .. n |-> f[i]]
<1>6. Rec(h)
  <2> h = [i \in 0 .. n |-> h[i]] /\ \A i \in 0 .. n : h[i] = f[i]
    OBVIOUS
  <2> HIDE DEF h
  <2>2. \A i \in 0 .. n : i # 0 => i \in 1 .. n
    BY SMTT(30)
  <2>3. \A i \in 0 .. n : h[i] = IF i = 0 THEN <<>> ELSE Round(i, h[i - 1])
    BY <1>5, <2>2
  <2> QED BY <2>3
<1> HIDE DEF h
<1> DEFINE F == CHOOSE x : Rec(x)
<1>7. Rec(F)
  BY <1>6
<1> HIDE DEF F
<1>8. F[0] = <<>> /\ \A i \in 1 .. n : F[i] = Round(i, F[i - 1])
  BY <1>7
<1>9. DumpRounds(F, s)
  BY <1>8 DEF n, Round, F, DumpRounds
<1> QED BY <1>9

-----------------------------------------------------------------------------
(* The inductive invariant.                                                *)

Fields == {"codes", "infos", "pinned", "privileged", "index", "addr", "bal", "funds",
           "minGasPrices", "height", "cache", "embedded"}
InfoFields == {"code", "admin", "details", "data"}

(* What the state of a contract consists of.                               *)
DataFields(t) ==
    CASE t = "ENGAGEMENT" -> {"label", "owner", "points", "halflife"}
      [] t \in {"OVERSIGHT_COMMUNITY", "ARBITER_POOL"} -> {"label", "members", "escrow", "rules"}
      [] t = "STAKING" -> {"label", "owner", "minBond", "unbondingPeriod", "staked"}
      [] t = "MIXER" -> {"label", "leftGroup", "rightGroup"}
      [] t = "COMMUNITY_POOL" -> {"label", "rules", "groupAddress"}
      [] t = "VALSET" -> {"label", "owner", "membership", "distribution", "maxValidators",
                          "epochLength", "offlineJailDuration", "keys", "active"}
      [] t = "DISTRIBUTION" -> {"label"}
      [] t = "OVERSIGHT_COMMUNITY_PROPOSALS" -> {"label", "rules", "group", "engagement", "valset"}
      [] t = "VALIDATOR_VOTING" -> {"label", "rules", "group"}
      [] t = "ARBITER_POOL_VOTING" -> {"label", "rules", "group", "waitingPeriod"}

(* Every contract has a code, and what the code asks for is known.         *)
CodesOk(codes, infos) ==
    /\ codes \in Seq(DOMAIN PromoteRequests)
    /\ \A c \in DOMAIN infos : infos[c].code \in DOMAIN codes

(* A contract has its privileges in the order in which it got them.        *)
InfoOk(x) == DOMAIN x = InfoFields /\ x.details \in Seq(Entry)

(* A store of the node.                                                    *)
Shape(s) ==
    /\ DOMAIN s = Fields
    /\ DOMAIN s.addr = PoEContractTypes
    /\ DOMAIN s.cache = PoEContractTypes
    /\ s.infos \in Seq(Range(s.infos))
    /\ \A c \in DOMAIN s.infos : InfoOk(s.infos[c])
    /\ CodesOk(s.codes, s.infos)

(* The state d of a contract of type t refers to the contracts at the      *)
(* addresses a of their types.                                             *)
Linked(t, a, d) ==
    /\ DOMAIN d = DataFields(t)
    /\ d.label = t
    /\ t = "MIXER" => d.leftGroup = a["ENGAGEMENT"] /\ d.rightGroup = a["STAKING"]
    /\ t = "COMMUNITY_POOL" => d.groupAddress = a["ENGAGEMENT"]
    /\ t = "VALSET" =>
          /\ d.membership = a["MIXER"]
          /\ {x.address : x \in d.distribution} = {a["ENGAGEMENT"], a["COMMUNITY_POOL"]}
    /\ t = "VALIDATOR_VOTING" => d.group = a["DISTRIBUTION"]
    /\ t = "ARBITER_POOL_VOTING" => d.group = a["ARBITER_POOL"]
    /\ t = "OVERSIGHT_COMMUNITY_PROPOSALS" => d.group = a["OVERSIGHT_COMMUNITY"]

(* It has the configuration of the genesis file.                           *)
Configured(t, a, d, g) ==
    /\ t = "ENGAGEMENT" => d.halflife = Seconds(g.halflife)
    /\ t = "STAKING" => d.unbondingPeriod = Seconds(g.stake.unbondingPeriod)
    /\ t = "VALSET" =>
          /\ d.epochLength = Seconds(g.valset.epochLength)
          /\ d.offlineJailDuration = Seconds(g.valset.offlineJailDuration)
          /\ d.distribution = {[address |-> a["ENGAGEMENT"],
                                ratio   |-> g.valset.engagementRewardRatio],
                               [address |-> a["COMMUNITY_POOL"],
                                ratio   |-> g.valset.communityPoolRewardRatio]}
    /\ t = "ARBITER_POOL_VOTING" => d.waitingPeriod = Seconds(g.ap.waitingPeriod)

(* The contract of type t is set up.                                       *)
Built(s, t) ==
    /\ s.addr[t] \in DOMAIN s.infos
    /\ s.cache[t] = s.addr[t]
    /\ Linked(t, s.addr, s.infos[s.addr[t]].data)

(* By a bootstrap: configured and with its code pinned.                    *)
BuiltFrom(s, t, g) ==
    /\ Built(s, t)
    /\ Configured(t, s.addr, s.infos[s.addr[t]].data, g)
    /\ s.infos[s.addr[t]].code \in s.pinned

Owned(s, t, owner) == s.infos[s.addr[t]].data.owner = owner

(* All contracts are set up and handed over.                               *)
Complete(s, g) ==
    /\ Shape(s)
    /\ \A t \in PoEContractTypes : Built(s, t)
    /\ g.mode = "seed" =>
          \A t \in PoEContractTypes : Configured(t, s.addr, s.infos[s.addr[t]].data, g)
    /\ \A t \in {"ENGAGEMENT", "VALSET"} : Owned(s, t, s.addr["OVERSIGHT_COMMUNITY_PROPOSALS"])

AllPinned(s) == \A t \in PoEContractTypes : s.infos[s.addr[t]].code \in s.pinned
AllHandedOver(s) ==
    AllPinned(s) /\ \A t \in PoEContractTypes : s.infos[s.addr[t]].admin = s.addr["VALIDATOR_VOTING"]

(* The genesis file of an export: the same of what it contains.            *)
DumpAddr(d) ==
    [t \in PoEContractTypes |->
        d.contracts[CHOOSE i \in DOMAIN PoEContractTypeList : PoEContractTypeList[i] = t].address]
DumpData(d, t) == d.twasm.contracts[DumpAddr(d)[t]].model.data

Dump(d) ==
    /\ d.mode = "dump"
    /\ Len(d.contracts) = Len(PoEContractTypeList) /\ DOMAIN d.contracts = DOMAIN PoEContractTypeList
    /\ \A i \in DOMAIN PoEContractTypeList : d.contracts[i].type = PoEContractTypeList[i]
    /\ d.twasm.codes \in Seq(DOMAIN PromoteRequests)
    /\ d.twasm.contracts \in Seq(Range(d.twasm.contracts))
    /\ \A c \in DOMAIN d.twasm.contracts :
          /\ InfoOk(d.twasm.contracts[c].info)
          /\ d.twasm.contracts[c].info.code \in DOMAIN d.twasm.codes
          /\ d.twasm.contracts[c].model.asks \in Seq(PrivilegeTypes)
          /\ d.twasm.contracts[c].model.kind
                = IF HasRegisteredPrivilege(d.twasm.contracts[c].info.details, Exporter)
                  THEN "custom" ELSE "kv"
    /\ d.twasm.privilegedContractAddresses = <<>> /\ d.twasm.pinnedCodeIDs = <<>>
    /\ \A t \in PoEContractTypes : /\ DumpAddr(d)[t] \in DOMAIN d.twasm.contracts
                                   /\ Linked(t, DumpAddr(d), DumpData(d, t))
    /\ \A t \in {"ENGAGEMENT", "VALSET"} :
          DumpData(d, t).owner = DumpAddr(d)["OVERSIGHT_COMMUNITY_PROPOSALS"]

(* What the wasm and twasm modules import.                                 *)
Imported(s, d) ==
    \A c \in DOMAIN d.twasm.contracts :
        c \in DOMAIN s.infos /\ s.infos[c].data = d.twasm.contracts[c].model.data

(* The contracts that are set up before a stage.                           *)
Before(stage) ==
    CASE stage = "engagement" -> {}
      [] stage = "oversight" -> {"ENGAGEMENT"}
      [] stage = "stake" -> {"ENGAGEMENT", "OVERSIGHT_COMMUNITY"}
      [] stage = "mixer" -> {"ENGAGEMENT", "OVERSIGHT_COMMUNITY", "STAKING"}
      [] stage = "pool" -> {"ENGAGEMENT", "OVERSIGHT_COMMUNITY", "STAKING", "MIXER"}
      [] stage = "valset" -> {"ENGAGEMENT", "OVERSIGHT_COMMUNITY", "STAKING", "MIXER",
                              "COMMUNITY_POOL"}
      [] stage = "proposals" -> {"ENGAGEMENT", "OVERSIGHT_COMMUNITY", "STAKING", "MIXER",
                                 "COMMUNITY_POOL", "VALSET", "DISTRIBUTION"}
      [] stage \in {"handover", "voting"} -> PoEContractTypes
              \ {"VALIDATOR_VOTING", "ARBITER_POOL", "ARBITER_POOL_VOTING"}
      [] stage = "arbiter" -> PoEContractTypes \ {"ARBITER_POOL", "ARBITER_POOL_VOTING"}
      [] stage = "arbiterVoting" -> PoEContractTypes \ {"ARBITER_POOL_VOTING"}
      [] OTHER -> PoEContractTypes

BootStages == {"engagement", "oversight", "stake", "mixer", "pool", "valset", "proposals",
               "handover", "voting", "arbiter", "arbiterVoting", "migrators", "gentx"}
HandedOver == {"voting", "arbiter", "arbiterVoting", "migrators", "gentx"}

Progress(s, g, stage) ==
    /\ Shape(s)
    /\ \A t \in Before(stage) : BuiltFrom(s, t, g)
    /\ \A t \in {"ENGAGEMENT", "VALSET"} \cap Before(stage) :
          Owned(s, t, IF stage \in HandedOver THEN s.addr["OVERSIGHT_COMMUNITY_PROPOSALS"]
                      ELSE Bootstrap)

-----------------------------------------------------------------------------
(* What the steps leave alone.                                             *)

(* Fields of contracts that genesis transactions, deposits and updates of  *)
(* the active validators change.                                           *)
Moving == {"members", "keys", "staked", "points", "active"}
Same(d, e) == DOMAIN e = DOMAIN d /\ \A x \in DOMAIN d \ Moving : e[x] = d[x]

(* The contracts of s are in r, at the same places and of the same codes.  *)
Frame(s, r) ==
    /\ Shape(r)
    /\ r.height = s.height
    /\ Len(r.infos) >= Len(s.infos)
    /\ \A c \in 1 .. Len(s.infos) : r.infos[c].code = s.infos[c].code

(* Nothing but the addresses of some types, and moving fields, changes.    *)
Keeps(s, r, types) ==
    /\ Frame(s, r)
    /\ \A t \in PoEContractTypes \ types : r.addr[t] = s.addr[t] /\ r.cache[t] = s.cache[t]
    /\ \A c \in 1 .. Len(s.infos) : Same(s.infos[c].data, r.infos[c].data)
    /\ s.pinned \subseteq r.pinned

(* The state of no contract changes.                                       *)
KeepsData(s, r) ==
    /\ Frame(s, r)
    /\ r.addr = s.addr /\ r.cache = s.cache
    /\ \A c \in 1 .. Len(s.infos) : r.infos[c].data = s.infos[c].data

LEMMA ShapeInfos ==
    ASSUME NEW s, Shape(s)
    PROVE  /\ Len(s.infos) \in Nat
           /\ DOMAIN s.infos = 1 .. Len(s.infos)
           /\ s.infos = [c \in 1 .. Len(s.infos) |-> s.infos[c]]
BY SMTT(30) DEF Shape

(* A store with the given infos.                                           *)
LEMMA ShapeFrom ==
    ASSUME NEW s, NEW n \in Nat, s.infos = [c \in 1 .. n |-> s.infos[c]],
           DOMAIN s = Fields, DOMAIN s.addr = PoEContractTypes, DOMAIN s.cache = PoEContractTypes,
           \A c \in 1 .. n : InfoOk(s.infos[c]),
           CodesOk(s.codes, s.infos)
    PROVE  Shape(s) /\ Len(s.infos) = n
<1> DEFINE f == s.infos
<1>1. f = [c \in 1 .. n |-> f[c]]
  OBVIOUS
<1> HIDE DEF f
<1>2. DOMAIN f = 1 .. n
  BY <1>1
<1>3. \A c \in 1 .. n : f[c] \in Range(f)
  BY <1>2 DEF Range
<1>4. f \in [1 .. n -> Range(f)]
  BY <1>1, <1>3
<1>5. f \in Seq(Range(f)) /\ Len(f) = n
  BY <1>4, SMTT(30)
<1> QED BY <1>2, <1>5 DEF f, Shape

LEMMA SameRefl == \A d : Same(d, d)
BY DEF Same

LEMMA SameTrans ==
    ASSUME NEW d, NEW e, NEW f, Same(d, e), Same(e, f) PROVE Same(d, f)
BY DEF Same

LEMMA KeepsRefl ==
    ASSUME NEW s, Shape(s) PROVE Keeps(s, s, {}) /\ KeepsData(s, s)
BY ShapeInfos, SameRefl, SMTT(30) DEF Keeps, KeepsData, Frame

LEMMA KeepsTrans ==
    ASSUME NEW s, NEW r, NEW q, NEW A, NEW B, Shape(s), Keeps(s, r, A), Keeps(r, q, B)
    PROVE  Keeps(s, q, A \cup B)
<1>1. Len(s.infos) \in Nat /\ Len(r.infos) \in Nat /\ Len(q.infos) \in Nat
  BY ShapeInfos DEF Keeps, Frame
<1>2. \A c \in 1 .. Len(s.infos) : c \in 1 .. Len(r.infos)
  BY <1>1, SMTT(30) DEF Keeps, Frame
<1>3. Frame(s, q)
  BY <1>1, <1>2, SMTT(30) DEF Keeps, Frame
<1>4. \A c \in 1 .. Len(s.infos) : Same(s.infos[c].data, q.infos[c].data)
  BY <1>2, SameTrans DEF Keeps
<1>5. \A t \in PoEContractTypes \ (A \cup B) : q.addr[t] = s.addr[t] /\ q.cache[t] = s.cache[t]
  BY DEF Keeps
<1>6. s.pinned \subseteq q.pinned
  BY DEF Keeps
<1> QED BY <1>3, <1>4, <1>5, <1>6 DEF Keeps

LEMMA KeepsDataTrans ==
    ASSUME NEW s, NEW r, NEW q, Shape(s), KeepsData(s, r), KeepsData(r, q)
    PROVE  KeepsData(s, q)
<1>1. Len(s.infos) \in Nat /\ Len(r.infos) \in Nat /\ Len(q.infos) \in Nat
  BY ShapeInfos DEF KeepsData, Frame
<1>2. \A c \in 1 .. Len(s.infos) : c \in 1 .. Len(r.infos)
  BY <1>1, SMTT(30) DEF KeepsData, Frame
<1> QED BY <1>1, <1>2, SMTT(30) DEF KeepsData, Frame

LEMMA KeepsFromData ==
    ASSUME NEW s, NEW r, Shape(s), KeepsData(s, r), s.pinned \subseteq r.pinned
    PROVE  Keeps(s, r, {})
BY SameRefl DEF Keeps, KeepsData

(* Steps that do not touch the contracts.                                  *)
LEMMA Untouched ==
    ASSUME NEW s, Shape(s), NEW r, DOMAIN r = Fields,
           r.infos = s.infos, r.addr = s.addr, r.cache = s.cache, r.height = s.height,
           CodesOk(r.codes, s.infos)
    PROVE  KeepsData(s, r)
<1>1. Shape(r)
  BY DEF Shape
<1> QED BY <1>1, ShapeInfos, SMTT(30) DEF KeepsData, Frame

(* Steps that change one contract.                                         *)
InfoSet(s, r, c, x) ==
    /\ DOMAIN r = Fields
    /\ r.addr = s.addr /\ r.cache = s.cache /\ r.height = s.height /\ r.codes = s.codes
    /\ r.infos = [s.infos EXCEPT ![c] = x]
    /\ c \in DOMAIN s.infos => InfoOk(x) /\ x.code = s.infos[c].code

LEMMA InfoChange ==
    ASSUME NEW s, Shape(s), NEW r, NEW c, NEW x, InfoSet(s, r, c, x)
    PROVE  /\ Frame(s, r)
           /\ Len(r.infos) = Len(s.infos)
           /\ \A d \in 1 .. Len(s.infos) : r.infos[d] = IF d = c THEN x ELSE s.infos[d]
<1> DEFINE f == s.infos
           h == r.infos
           n == Len(f)
<1>1. n \in Nat /\ DOMAIN f = 1 .. n /\ f = [d \in 1 .. n |-> f[d]]
      /\ \A d \in 1 .. n : InfoOk(f[d])
  BY ShapeInfos DEF Shape
<1>2. h = [f EXCEPT ![c] = x]
  BY DEF InfoSet
<1> HIDE DEF f, h, n
<1>3. h = [d \in 1 .. n |-> h[d]] /\ \A d \in 1 .. n : h[d] = IF d = c THEN x ELSE f[d]
  BY <1>1, <1>2
<1>4. \A d \in 1 .. n : InfoOk(h[d]) /\ h[d].code = f[d].code
  BY <1>1, <1>3 DEF f, InfoSet
<1>5. Shape(r) /\ Len(h) = n
  <2>1. r.infos = [d \in 1 .. n |-> r.infos[d]] /\ \A d \in 1 .. n : InfoOk(r.infos[d])
    BY <1>3, <1>4 DEF h
  <2>2. DOMAIN r.addr = PoEContractTypes /\ DOMAIN r.cache = PoEContractTypes
    BY DEF Shape, InfoSet
  <2>3. CodesOk(s.codes, s.infos) /\ r.codes = s.codes
    BY DEF Shape, InfoSet
  <2>4. DOMAIN f = 1 .. n /\ DOMAIN h = 1 .. n
    BY <1>1, <1>3
  <2>5. CodesOk(r.codes, r.infos)
    BY <1>4, <2>3, <2>4 DEF CodesOk, f, h
  <2> QED BY <1>1, <2>1, <2>2, <2>5, ShapeFrom DEF h, InfoSet
<1>6. Frame(s, r)
  BY <1>1, <1>4, <1>5, SMTT(30) DEF Frame, f, h, n, InfoSet
<1> QED BY <1>3, <1>5, <1>6 DEF f, h, n

(* The data of one contract changes, in a moving field or not at all.      *)
DataSet(s, r, c, d) ==
    /\ DOMAIN r = Fields
    /\ r.addr = s.addr /\ r.cache = s.cache /\ r.height = s.height /\ r.codes = s.codes
    /\ r.infos = [s.infos EXCEPT ![c] = [s.infos[c] EXCEPT !.data = d]]

LEMMA DataChange ==
    ASSUME NEW s, Shape(s), NEW r, NEW c, NEW d, DataSet(s, r, c, d)
    PROVE  /\ Frame(s, r)
           /\ Len(r.infos) = Len(s.infos)
           /\ \A e \in 1 .. Len(s.infos) : r.infos[e].data = IF e = c THEN d ELSE s.infos[e].data
           /\ c \in DOMAIN s.infos /\ Same(s.infos[c].data, d) /\ s.pinned \subseteq r.pinned =>
                 Keeps(s, r, {})
           /\ c \notin DOMAIN s.infos => KeepsData(s, r)
<1> DEFINE x == [s.infos[c] EXCEPT !.data = d]
<1>1. c \in DOMAIN s.infos => InfoOk(x) /\ x.code = s.infos[c].code /\ x.data = d
  BY DEF Shape, InfoOk, InfoFields
<1>2. InfoSet(s, r, c, x)
  BY <1>1 DEF DataSet, InfoSet
<1> HIDE DEF x
<1>3. /\ Frame(s, r) /\ Len(r.infos) = Len(s.infos)
      /\ \A e \in 1 .. Len(s.infos) : r.infos[e] = IF e = c THEN x ELSE s.infos[e]
  BY <1>1, <1>2, InfoChange, SMTT(30)
<1>4. DOMAIN s.infos = 1 .. Len(s.infos)
  BY ShapeInfos
<1>5. \A e \in 1 .. Len(s.infos) : r.infos[e].data = IF e = c THEN d ELSE s.infos[e].data
  BY <1>1, <1>3, <1>4
<1>6. c \in DOMAIN s.infos /\ Same(s.infos[c].data, d) /\ s.pinned \subseteq r.pinned => Keeps(s, r, {})
  BY <1>3, <1>5, SameRefl DEF Keeps, DataSet
<1>7. c \notin DOMAIN s.infos => KeepsData(s, r)
  BY <1>3, <1>4, <1>5 DEF KeepsData, DataSet
<1> QED BY <1>3, <1>5, <1>6, <1>7

LEMMA PinKeeps ==
    ASSUME NEW s, Shape(s), NEW code
    PROVE  /\ KeepsData(s, PinCode(s, code))
           /\ Keeps(s, PinCode(s, code), {})
           /\ PinCode(s, code).infos = s.infos
           /\ PinCode(s, code).pinned = s.pinned \cup {code}
           /\ PinCode(s, code).codes = s.codes
<1> DEFINE r == PinCode(s, code)
<1>1. /\ DOMAIN r = Fields /\ r.infos = s.infos /\ r.addr = s.addr /\ r.cache = s.cache
      /\ r.height = s.height /\ r.pinned = s.pinned \cup {code} /\ r.codes = s.codes
  BY DEF PinCode, Shape, Fields
<1> HIDE DEF r
<1>2. KeepsData(s, r)
  BY <1>1, Untouched DEF Shape
<1>3. Keeps(s, r, {})
  BY <1>1, <1>2, KeepsFromData
<1> QED BY <1>1, <1>2, <1>3 DEF r

LEMMA CreateKeeps ==
    ASSUME NEW s, Shape(s), NEW wasm \in WasmFiles, NEW r \in Create(s, wasm)
    PROVE  Keeps(s, r, {}) /\ r.infos = s.infos /\ Len(r.codes) \in DOMAIN r.codes
<1>1. r = [s EXCEPT !.codes = Append(s.codes, wasm)]
  BY DEF Create
<1>2. /\ DOMAIN r = Fields /\ r.infos = s.infos /\ r.addr = s.addr /\ r.cache = s.cache
      /\ r.height = s.height /\ r.pinned = s.pinned /\ r.codes = Append(s.codes, wasm)
  BY <1>1 DEF Shape, Fields
<1> DEFINE p == s.codes
           q == r.codes
<1>3. /\ p \in Seq(DOMAIN PromoteRequests) /\ wasm \in DOMAIN PromoteRequests
      /\ q = Append(p, wasm) /\ \A c \in DOMAIN s.infos : s.infos[c].code \in DOMAIN p
  BY <1>2, WasmAssumption DEF Shape, CodesOk
<1> HIDE DEF p, q
<1>4. q \in Seq(DOMAIN PromoteRequests) /\ Len(q) \in DOMAIN q /\ DOMAIN p \subseteq DOMAIN q
  BY <1>3, SMTT(30)
<1>5. CodesOk(q, s.infos)
  BY <1>3, <1>4 DEF CodesOk
<1>6. KeepsData(s, r)
  BY <1>2, <1>5, Untouched DEF q
<1> QED BY <1>2, <1>4, <1>6, KeepsFromData DEF q

LEMMA PayKeeps ==
    ASSUME NEW s, Shape(s), NEW from, NEW c, NEW n, NEW denom, NEW r \in Pay(s, from, c, n, denom)
    PROVE  Keeps(s, r, {}) /\ r.infos = s.infos /\ r.codes = s.codes
<1>1. r = [s EXCEPT !.bal[from] = @ - n, !.funds[c] = @ + n]
  BY DEF Pay
<1>2. /\ DOMAIN r = Fields /\ r.infos = s.infos /\ r.addr = s.addr /\ r.cache = s.cache
      /\ r.height = s.height /\ r.pinned = s.pinned /\ r.codes = s.codes
  BY <1>1 DEF Shape, Fields
<1>3. KeepsData(s, r)
  BY <1>2, Untouched DEF Shape
<1> QED BY <1>2, <1>3, KeepsFromData

LEMMA NewContractKeeps ==
    ASSUME NEW s, Shape(s), NEW code \in DOMAIN s.codes, NEW data
    PROVE  LET r == NewContract(s, code, data) IN
           /\ Keeps(s, r, {})
           /\ r.addr = s.addr /\ r.cache = s.cache /\ r.pinned = s.pinned /\ r.codes = s.codes
           /\ Len(r.infos) = Len(s.infos) + 1
           /\ r.infos[Len(s.infos) + 1].data = data
           /\ r.infos[Len(s.infos) + 1].code = code
<1> DEFINE r == NewContract(s, code, data)
           x == [code |-> code, admin |-> Bootstrap, details |-> <<>>, data |-> data]
           f == s.infos
           h == r.infos
           n == Len(f)
           S == Range(f) \cup {x}
<1>1. /\ DOMAIN r = Fields /\ r.addr = s.addr /\ r.cache = s.cache /\ r.pinned = s.pinned
      /\ r.codes = s.codes /\ r.height = s.height /\ h = Append(f, x)
  BY DEF NewContract, Shape, Fields
<1>2. n \in Nat /\ f \in Seq(S) /\ x \in S /\ \A c \in 1 .. n : InfoOk(f[c])
  BY ShapeInfos, SMTT(30) DEF Shape
<1>3. InfoOk(x) /\ x.data = data /\ x.code = code
  <2>1. <<>> \in Seq(Entry)
    BY SMTT(30)
  <2> QED BY <2>1 DEF InfoOk, InfoFields
<1> HIDE DEF r, x, f, h, S, n
<1>4. Append(f, x) \in Seq(S) /\ Len(Append(f, x)) = Len(f) + 1
      /\ (\A i \in 1 .. Len(f) : Append(f, x)[i] = f[i]) /\ Append(f, x)[Len(f) + 1] = x
  BY <1>2, SMTT(30)
<1>5. Len(h) = n + 1 /\ (\A i \in 1 .. n : h[i] = f[i]) /\ h[n + 1] = x
      /\ h = [i \in 1 .. n + 1 |-> h[i]]
  <2>1. h \in Seq(S) /\ Len(h) = n + 1 /\ (\A i \in 1 .. n : h[i] = f[i]) /\ h[n + 1] = x
    BY <1>1, <1>4 DEF n
  <2>2. h = [i \in 1 .. n + 1 |-> h[i]]
    BY <2>1, SMTT(30)
  <2> QED BY <2>1, <2>2
<1>6. \A i \in 1 .. n + 1 : InfoOk(h[i])
  <2> TAKE i \in 1 .. n + 1
  <2>1. i \in 1 .. n \/ i = n + 1
    BY <1>2, SMTT(30)
  <2> QED BY <1>2, <1>3, <1>5, <2>1
<1>7. Shape(r)
  <2>1. DOMAIN r.addr = PoEContractTypes /\ DOMAIN r.cache = PoEContractTypes
    BY <1>1 DEF Shape
  <2> DEFINE m == n + 1
  <2>2. m \in Nat
    BY <1>2, SMTT(30)
  <2>3. r.infos = [i \in 1 .. m |-> r.infos[i]] /\ \A i \in 1 .. m : InfoOk(r.infos[i])
    BY <1>5, <1>6 DEF h
  <2> HIDE DEF m
  <2>4. CodesOk(r.codes, r.infos)
    <3>1. CodesOk(s.codes, f) /\ DOMAIN f = 1 .. n
      BY ShapeInfos DEF Shape, f, n
    <3>2. ASSUME NEW c \in DOMAIN h PROVE h[c].code \in DOMAIN s.codes
      <4>1. c \in 1 .. n \/ c = n + 1
        BY <1>2, <1>5, SMTT(30)
      <4> QED BY <1>3, <1>5, <3>1, <4>1 DEF CodesOk
    <3> QED BY <1>1, <3>1, <3>2 DEF CodesOk, h
  <2> QED BY <1>1, <2>1, <2>2, <2>3, <2>4, ShapeFrom
<1>8. Keeps(s, r, {})
  <2>1. Frame(s, r)
    BY <1>1, <1>2, <1>5, <1>7, SMTT(30) DEF Frame, f, h, n
  <2>2. \A c \in 1 .. Len(s.infos) : Same(s.infos[c].data, r.infos[c].data)
    BY <1>5, SameRefl DEF f, h, n
  <2> QED BY <1>1, <2>1, <2>2 DEF Keeps
<1> QED BY <1>1, <1>3, <1>5, <1>8 DEF r, f, h, n

LEMMA SetAddressKeeps ==
    ASSUME NEW s, Shape(s), NEW t \in PoEContractTypes, NEW c
    PROVE  LET r == SetPoEContractAddress(s, t, c) IN
           /\ Keeps(s, r, {t})
           /\ r.addr[t] = c /\ r.cache[t] = c
           /\ r.infos = s.infos /\ r.pinned = s.pinned /\ r.codes = s.codes
           /\ r.index = s.index /\ r.privileged = s.privileged
<1> DEFINE r == SetPoEContractAddress(s, t, c)
<1>1. /\ DOMAIN r = Fields /\ r.infos = s.infos /\ r.pinned = s.pinned /\ r.codes = s.codes
      /\ r.height = s.height /\ r.index = s.index /\ r.privileged = s.privileged
      /\ DOMAIN r.addr = PoEContractTypes /\ DOMAIN r.cache = PoEContractTypes
      /\ r.addr[t] = c /\ r.cache[t] = c
      /\ \A u \in PoEContractTypes \ {t} : r.addr[u] = s.addr[u] /\ r.cache[u] = s.cache[u]
  BY DEF SetPoEContractAddress, Shape, Fields
<1> HIDE DEF r
<1>2. Shape(r)
  BY <1>1 DEF Shape
<1>3. Frame(s, r)
  BY <1>1, <1>2, ShapeInfos, SMTT(30) DEF Frame
<1>4. Keeps(s, r, {t})
  BY <1>1, <1>3, SameRefl DEF Keeps
<1> QED BY <1>1, <1>4 DEF r

(* A contract of type t is new, at the address after all others.           *)
Fresh(s, r, code, t, data) ==
    /\ Keeps(s, r, {t})
    /\ r.addr[t] \in DOMAIN r.infos
    /\ r.cache[t] = r.addr[t]
    /\ r.infos[r.addr[t]].data = data
    /\ r.infos[r.addr[t]].code = code
    /\ Len(r.infos) = Len(s.infos) + 1

LEMMA InstantiateFresh ==
    ASSUME NEW s, Shape(s), NEW code \in DOMAIN s.codes, NEW t \in PoEContractTypes, NEW data
    PROVE  /\ Fresh(s, Instantiate(s, code, t, data), code, t, data)
           /\ Instantiate(s, code, t, data).codes = s.codes
<1> DEFINE q == NewContract(s, code, data)
           r == SetPoEContractAddress(q, t, Len(q.infos))
<1>1. r = Instantiate(s, code, t, data)
  BY DEF Instantiate
<1>2. /\ Keeps(s, q, {})
      /\ q.addr = s.addr /\ q.cache = s.cache /\ q.pinned = s.pinned /\ q.codes = s.codes
      /\ Len(q.infos) = Len(s.infos) + 1
      /\ q.infos[Len(s.infos) + 1].data = data
      /\ q.infos[Len(s.infos) + 1].code = code
  BY NewContractKeeps, SMTT(30)
<1> HIDE DEF q
<1>3. Shape(q)
  BY <1>2 DEF Keeps, Frame
<1>4. /\ Keeps(q, r, {t})
      /\ r.addr[t] = Len(q.infos) /\ r.cache[t] = Len(q.infos)
      /\ r.infos = q.infos /\ r.pinned = q.pinned /\ r.codes = q.codes
  <2> DEFINE n == Len(q.infos)
  <2>1. r = SetPoEContractAddress(q, t, n)
    OBVIOUS
  <2> HIDE DEF n, r
  <2>2. /\ Keeps(q, r, {t}) /\ r.addr[t] = n /\ r.cache[t] = n
        /\ r.infos = q.infos /\ r.pinned = q.pinned /\ r.codes = q.codes
    BY <1>3, <2>1, SetAddressKeeps, SMTT(30)
  <2> QED BY <2>2 DEF n
<1> HIDE DEF r
<1>5. Keeps(s, r, {t})
  BY <1>2, <1>4, KeepsTrans, SMTT(30)
<1>6. Len(s.infos) + 1 \in DOMAIN r.infos
  BY <1>2, <1>3, <1>4, ShapeInfos, SMTT(30)
<1> QED BY <1>1, <1>2, <1>4, <1>5, <1>6 DEF Fresh

(* Members, keys, stakes, points and active validators move.               *)
LEMMA SameMoved ==
    ASSUME NEW d, NEW e, DOMAIN e = DOMAIN d, NEW f \in Moving,
           \A x \in DOMAIN d : x # f => e[x] = d[x]
    PROVE  Same(d, e)
BY DEF Same

LEMMA DepositKeeps ==
    ASSUME NEW s, Shape(s), NEW t, NEW cfg, NEW m, NEW r \in DepositEscrow(s, t, cfg, m)
    PROVE  Keeps(s, r, {}) /\ r.codes = s.codes
<1> DEFINE c == GetPoEContractAddress(s, t)
           d == [s.infos[c].data EXCEPT !.members = @ \cup {m}]
           q == [s EXCEPT !.infos[c].data.members = @ \cup {m}]
<1>1. r \in Pay(q, m, c, cfg.escrow, cfg.denom)
  BY DEF DepositEscrow
<1> HIDE DEF c
<1>2. DataSet(s, q, c, d) /\ q.pinned = s.pinned
  BY DEF DataSet, Shape, Fields
<1>3. Same(s.infos[c].data, d)
  BY SameMoved, SMTT(30) DEF Moving
<1> HIDE DEF d, q
<1>4. Keeps(s, q, {})
  BY <1>2, <1>3, DataChange, KeepsFromData
<1>5. Keeps(q, r, {}) /\ r.codes = q.codes
  BY <1>1, <1>4, PayKeeps, SMTT(30) DEF Keeps, Frame
<1>6. r.codes = s.codes
  BY <1>2, <1>5 DEF DataSet
<1> QED BY <1>4, <1>5, <1>6, KeepsTrans, SMTT(30)

(* A contract's own admin changes, and nothing else.                       *)
Reowned(s, r, t, owner) ==
    /\ Frame(s, r)
    /\ r.addr = s.addr /\ r.cache = s.cache /\ r.pinned = s.pinned
    /\ Len(r.infos) = Len(s.infos)
    /\ \A c \in 1 .. Len(s.infos) :
          r.infos[c].data = IF c = s.addr[t] THEN [s.infos[c].data EXCEPT !.owner = owner]
                            ELSE s.infos[c].data

LEMMA UpdateAdminReowns ==
    ASSUME NEW s, Shape(s), NEW t \in PoEContractTypes, s.addr[t] = s.cache[t],
           NEW owner, NEW sender, NEW r \in UpdateAdmin(s, t, owner, sender)
    PROVE  Reowned(s, r, t, owner)
<1> DEFINE c == s.addr[t]
           d == [s.infos[c].data EXCEPT !.owner = owner]
<1>1. c = GetPoEContractAddress(s, t)
  BY DEF GetPoEContractAddress
<1>2. r = [s EXCEPT !.infos[c].data.owner = owner]
  BY <1>1 DEF UpdateAdmin
<1> HIDE DEF c
<1>3. DataSet(s, r, c, d) /\ r.pinned = s.pinned
  BY <1>2 DEF DataSet, Shape, Fields
<1>4. r.addr = s.addr /\ r.cache = s.cache
  BY <1>3 DEF DataSet
<1> HIDE DEF d
<1>5. /\ Frame(s, r) /\ Len(r.infos) = Len(s.infos)
      /\ \A e \in 1 .. Len(s.infos) : r.infos[e].data = IF e = c THEN d ELSE s.infos[e].data
  BY <1>3, DataChange, SMTT(30)
<1> QED BY <1>3, <1>4, <1>5 DEF Reowned, c, d

LEMMA MigratorKeeps ==
    ASSUME NEW s, Shape(s), NEW t, NEW old, NEW new, NEW r \in UpdateContractAdmin(s, t, old, new)
    PROVE  /\ KeepsData(s, r) /\ r.pinned = s.pinned /\ Len(r.infos) = Len(s.infos)
           /\ \A c \in 1 .. Len(s.infos) :
                 r.infos[c].admin = IF c = GetPoEContractAddress(s, t) THEN new ELSE s.infos[c].admin
<1> DEFINE c == GetPoEContractAddress(s, t)
           x == [s.infos[c] EXCEPT !.admin = new]
<1>1. r = [s EXCEPT !.infos[c].admin = new]
  BY DEF UpdateContractAdmin
<1>x. GetPoEContractAddress(s, t) = c
  OBVIOUS
<1> HIDE DEF c
<1>2. InfoSet(s, r, c, x) /\ r.pinned = s.pinned
  BY <1>1 DEF InfoSet, Shape, Fields, InfoOk, InfoFields
<1>3. c \in DOMAIN s.infos => x.data = s.infos[c].data /\ x.admin = new
  BY DEF Shape, InfoOk, InfoFields
<1> HIDE DEF x
<1>4. /\ Frame(s, r) /\ Len(r.infos) = Len(s.infos)
      /\ \A d \in 1 .. Len(s.infos) : r.infos[d] = IF d = c THEN x ELSE s.infos[d]
  BY <1>2, InfoChange, SMTT(30)
<1>5. DOMAIN s.infos = 1 .. Len(s.infos)
  BY ShapeInfos
<1>6. \A d \in 1 .. Len(s.infos) : /\ r.infos[d].data = s.infos[d].data
                                   /\ r.infos[d].admin = IF d = c THEN new ELSE s.infos[d].admin
  BY <1>3, <1>4, <1>5
<1> QED BY <1>x, <1>2, <1>4, <1>6 DEF KeepsData, InfoSet

(* Contracts become privileged.                                            *)
Grows(s, r) == KeepsData(s, r) /\ s.pinned \subseteq r.pinned

LEMMA GrowsTrans ==
    ASSUME NEW s, NEW r, NEW q, Shape(s), Grows(s, r), Grows(r, q)
    PROVE  Grows(s, q)
BY KeepsDataTrans DEF Grows

(* The position behind the last one of a type is free.                     *)
LEMMA NextPosition ==
    ASSUME NEW s, NEW t, NEW last, last = Max(Registered(s, t) \cup {0}), last # MaxPos
    PROVE  last + 1 \in 1 .. MaxPos /\ s.index[Key(t, last + 1)] = 0
<1> DEFINE S == Registered(s, t) \cup {0}
           Gaps == {m \in Nat : \E x \in S : m = MaxPos - x}
<1>1. S \subseteq 0 .. MaxPos /\ 0 \in S /\ MaxPos \in Nat
  BY GenesisTypesAssumption, SMTT(30) DEF Registered
<1>2. \A p \in 1 .. MaxPos : p \notin S => s.index[Key(t, p)] = 0
  BY DEF Registered
<1>3. last = Max(S)
  OBVIOUS
<1> HIDE DEF S
<1>4. PICK m \in Gaps : \A k \in Gaps : m <= k
  <2>1. MaxPos = MaxPos - 0
    BY <1>1, SMTT(30)
  <2>2. Gaps \subseteq Nat /\ MaxPos \in Gaps
    BY <1>1, <2>1
  <2> HIDE DEF Gaps
  <2> QED BY <2>2, LeastNat
<1>5. \E x \in S : \A y \in S : x >= y
  BY <1>1, <1>4, SMTT(30)
<1>6. last \in S /\ \A y \in S : last >= y
  BY <1>3, <1>5 DEF Max
<1>7. last + 1 \in 1 .. MaxPos /\ last + 1 \notin S
  BY <1>1, <1>6, SMTT(30)
<1> QED BY <1>2, <1>7

(* What a request does that does more than nothing.                        *)
Gets(s, r, c, k) ==
    /\ s.index[k] = 0 /\ c \in s.privileged
    /\ r = [s EXCEPT !.index[k] = c, !.infos[c].details = Append(@, k)]

LEMMA Granted ==
    ASSUME NEW s, NEW c, NEW t \in PrivilegeTypes, NEW r \in RequestPrivilege(s, c, t), r # s
    PROVE  \E k \in Entry : Gets(s, r, c, k)
<1> DEFINE last == Max(Registered(s, t) \cup {0})
           k == Key(t, last + 1)
<1>1. /\ last # MaxPos /\ c \in s.privileged
      /\ r = [s EXCEPT !.index[k] = c, !.infos[c].details = Append(@, k)]
  BY DEF RequestPrivilege
<1>2. last + 1 \in 1 .. MaxPos /\ s.index[k] = 0
  <2> HIDE DEF last
  <2>1. last = Max(Registered(s, t) \cup {0})
    BY DEF last
  <2> QED BY <1>1, <2>1, NextPosition
<1>3. k \in Entry
  <2> HIDE DEF last
  <2> QED BY <1>2 DEF Key, Entry
<1> QED BY <1>1, <1>2, <1>3 DEF Gets

LEMMA RequestGrows ==
    ASSUME NEW s, Shape(s), NEW c, NEW t \in PrivilegeTypes, NEW r \in RequestPrivilege(s, c, t)
    PROVE  Grows(s, r)
<1>1. CASE r = s
  BY <1>1, KeepsRefl DEF Grows
<1>2. CASE r # s
  <2>1. PICK k \in Entry : Gets(s, r, c, k)
    BY <1>2, Granted
  <2> DEFINE x == [s.infos[c] EXCEPT !.details = Append(@, k)]
  <2>2. c \in DOMAIN s.infos => InfoOk(x) /\ x.code = s.infos[c].code /\ x.data = s.infos[c].data
    <3> SUFFICES ASSUME c \in DOMAIN s.infos
                 PROVE  InfoOk(x) /\ x.code = s.infos[c].code /\ x.data = s.infos[c].data
      OBVIOUS
    <3> DEFINE l == s.infos[c].details
    <3>1. DOMAIN s.infos[c] = InfoFields /\ l \in Seq(Entry)
      BY DEF Shape, InfoOk
    <3>2. x.details = Append(l, k) /\ DOMAIN x = InfoFields
      BY <3>1 DEF InfoFields
    <3>3. x.code = s.infos[c].code /\ x.data = s.infos[c].data
      BY <3>1 DEF InfoFields
    <3> HIDE DEF x, l
    <3>4. Append(l, k) \in Seq(Entry)
      BY <3>1, SMTT(30)
    <3> QED BY <3>2, <3>3, <3>4 DEF InfoOk
  <2>3. InfoSet(s, r, c, x) /\ r.pinned = s.pinned
    BY <2>1, <2>2 DEF Gets, InfoSet, Shape, Fields
  <2> HIDE DEF x
  <2>4. Frame(s, r) /\ \A d \in 1 .. Len(s.infos) : r.infos[d] = IF d = c THEN x ELSE s.infos[d]
    BY <2>3, InfoChange, SMTT(30)
  <2>5. \A d \in 1 .. Len(s.infos) : r.infos[d].data = s.infos[d].data
    BY <2>2, <2>4, ShapeInfos
  <2> QED BY <2>3, <2>4, <2>5 DEF KeepsData, Grows, InfoSet
<1> QED BY <1>1, <1>2

(* Steps that each keep the data, one after the other.                     *)
LEMMA GrowsLoop ==
    ASSUME NEW s, Shape(s), NEW n \in Nat, NEW f, \A r \in f[0] : Grows(s, r),
           \A i \in 1 .. n : \A r \in f[i] : \E q \in f[i - 1] : Shape(q) => Grows(q, r)
    PROVE  \A r \in f[n] : Grows(s, r)
<1> DEFINE H == {k \in 0 .. n : \A r \in f[k] : Grows(s, r)}
<1>1. 0 \in H
  BY SMTT(30)
<1>2. ASSUME NEW k \in 1 .. n, k - 1 \in H PROVE k \in H
  <2>1. ASSUME NEW r \in f[k] PROVE Grows(s, r)
    <3>1. PICK q \in f[k - 1] : Shape(q) => Grows(q, r)
      OBVIOUS
    <3>2. Grows(s, q)
      BY <1>2
    <3> QED BY <3>1, <3>2, GrowsTrans, SMTT(30) DEF Grows, KeepsData, Frame
  <2> QED BY <2>1, SMTT(30)
<1>3. \A k \in 0 .. n : k \in H
  <2> HIDE DEF H
  <2> QED BY <1>1, <1>2, UpToInduction
<1>4. n \in 0 .. n
  BY SMTT(30)
<1> QED BY <1>3, <1>4

LEMMA KeepsLoop ==
    ASSUME NEW s, Shape(s), NEW n \in Nat, NEW f, \A r \in f[0] : Keeps(s, r, {}),
           \A i \in 1 .. n : \A r \in f[i] : \E q \in f[i - 1] : Shape(q) => Keeps(q, r, {})
    PROVE  \A r \in f[n] : Keeps(s, r, {})
<1> DEFINE H == {k \in 0 .. n : \A r \in f[k] : Keeps(s, r, {})}
<1>1. 0 \in H
  BY SMTT(30)
<1>2. ASSUME NEW k \in 1 .. n, k - 1 \in H PROVE k \in H
  <2>1. ASSUME NEW r \in f[k] PROVE Keeps(s, r, {})
    <3>1. PICK q \in f[k - 1] : Shape(q) => Keeps(q, r, {})
      OBVIOUS
    <3>2. Keeps(s, q, {})
      BY <1>2
    <3>3. Keeps(q, r, {})
      BY <3>1, <3>2 DEF Keeps, Frame
    <3>4. Keeps(s, r, {} \cup {})
      BY <3>2, <3>3, KeepsTrans
    <3> QED BY <3>4
  <2> QED BY <2>1, SMTT(30)
<1>3. \A k \in 0 .. n : k \in H
  <2> HIDE DEF H
  <2> QED BY <1>1, <1>2, UpToInduction
<1>4. n \in 0 .. n
  BY SMTT(30)
<1> QED BY <1>3, <1>4

LEMMA SudoGrows ==
    ASSUME NEW s, Shape(s), NEW c, NEW types \in Seq(PrivilegeTypes), NEW r \in Sudo(s, c, types)
    PROVE  Grows(s, r)
<1>n. Len(types) \in Nat /\ \A i \in 1 .. Len(types) : types[i] \in PrivilegeTypes
  BY SMTT(30)
<1>1. PICK f : SudoRounds(f, s, c, types)
  BY <1>n, SudoLoop
<1>2. \A q \in f[0] : Grows(s, q)
  BY <1>1, KeepsRefl DEF Grows, SudoRounds
<1>3. \A i \in 1 .. Len(types) : \A p \in f[i] : \E q \in f[i - 1] : Shape(q) => Grows(q, p)
  BY <1>n, <1>1, RequestGrows, SMTT(30) DEF SudoRounds
<1>4. r \in f[Len(types)]
  BY <1>1 DEF SudoRounds
<1> QED BY <1>n, <1>2, <1>3, <1>4, GrowsLoop

LEMMA SetPrivilegedGrows ==
    ASSUME NEW s, Shape(s), NEW c, NEW r \in SetPrivileged(s, c)
    PROVE  Grows(s, r) /\ c \in DOMAIN s.infos /\ s.infos[c].code \in r.pinned
<1> DEFINE code == s.infos[c].code
           p == PinCode(s, code)
           q == [p EXCEPT !.privileged = @ \cup {c}]
           types == PromoteRequests[s.codes[code]]
<1>1. c \in DOMAIN s.infos /\ r \in Sudo(q, c, types)
  BY DEF SetPrivileged
<1>2. s.codes \in Seq(DOMAIN PromoteRequests) /\ code \in DOMAIN s.codes
  BY <1>1 DEF Shape, CodesOk
<1> HIDE DEF code
<1>3. s.codes[code] \in DOMAIN PromoteRequests
  BY <1>2, SMTT(30)
<1>4. types \in Seq(PrivilegeTypes)
  BY <1>3, GenesisTypesAssumption
<1>5. KeepsData(s, p) /\ p.infos = s.infos /\ p.pinned = s.pinned \cup {code} /\ p.codes = s.codes
  BY PinKeeps
<1> HIDE DEF types, p
<1>6. /\ DOMAIN q = Fields /\ q.infos = p.infos /\ q.addr = p.addr /\ q.cache = p.cache
      /\ q.height = p.height /\ q.codes = p.codes /\ q.pinned = p.pinned
  BY <1>5 DEF Shape, Fields, KeepsData, Frame
<1> HIDE DEF q
<1>7. Shape(p)
  BY <1>5 DEF KeepsData, Frame
<1>8. Grows(s, p) /\ Grows(p, q)
  BY <1>5, <1>6, <1>7, Untouched DEF Grows, Shape
<1>9. Grows(s, q) /\ Shape(q)
  BY <1>8, GrowsTrans, SMTT(30) DEF Grows, KeepsData, Frame
<1>10. Grows(q, r)
  BY <1>1, <1>4, <1>9, SudoGrows
<1>11. code \in r.pinned
  BY <1>5, <1>6, <1>10 DEF Grows
<1>12. Grows(s, r)
  BY <1>9, <1>10, GrowsTrans
<1> QED BY <1>1, <1>11, <1>12 DEF code

LEMMA SetAllPrivilegedGrow ==
    ASSUME NEW s, Shape(s), NEW stores, \A r \in stores : Grows(s, r),
           NEW addresses, Len(addresses) \in Nat, NEW r \in SetAllPrivileged(stores, addresses)
    PROVE  Grows(s, r)
<1>1. PICK f : PromoteRounds(f, stores, addresses)
  BY PromoteLoop
<1>2. \A q \in f[0] : Grows(s, q)
  BY <1>1 DEF PromoteRounds
<1>3. \A i \in 1 .. Len(addresses) : \A p \in f[i] : \E q \in f[i - 1] : Shape(q) => Grows(q, p)
  BY <1>1, SetPrivilegedGrows, SMTT(30) DEF PromoteRounds
<1>4. r \in f[Len(addresses)]
  BY <1>1 DEF PromoteRounds
<1> QED BY <1>2, <1>3, <1>4, GrowsLoop

(* The pinned codes become fewer.                                          *)
(* The removal loop leaves a part of the list, and keeps its members.      *)
LEMMA RemovalLeaves ==
    ASSUME NEW details \in Seq(Entry)
    PROVE  SubSeq(RemovalLoop(details).list, 1, RemovalLoop(details).len) \in Seq(Entry)
<1> DEFINE n == Len(details)
           X == [list : [1 .. n -> Entry], len : 0 .. n, gone : SUBSET Entry]
           base == [list |-> details, len |-> n, gone |-> {}]
           Round(i, l) == RemoveRegistered(l, l.list[i])
           step == [i \in 1 .. n |-> [l \in X |-> Round(i, l)]]
           Rec(f) == f = [i \in 0 .. n |-> IF i = 0 THEN base ELSE Round(i, f[i - 1])]
<1>1. n \in Nat /\ details \in [1 .. n -> Entry] /\ n \in 0 .. n
  BY SMTT(30)
<1>2. RemovalLoop(details) = (CHOOSE f : Rec(f))[n]
  BY DEF RemovalLoop
<1> HIDE DEF n
<1>3. base \in X
  BY <1>1
<1>4. ASSUME NEW i \in 1 .. n, NEW l \in X PROVE Round(i, l) \in X
  <2> DEFINE e == l.list[i]
             j == Min({k \in 1 .. l.len : l.list[k] = e})
             list == [k \in DOMAIN l.list |-> IF k >= j /\ k < l.len THEN l.list[k + 1] ELSE l.list[k]]
  <2>1. l.list \in [1 .. n -> Entry] /\ l.len \in 0 .. n /\ l.gone \subseteq Entry /\ e \in Entry
    OBVIOUS
  <2>2. CASE e \notin Range(SubSeq(l.list, 1, l.len))
    BY <2>2 DEF RemoveRegistered
  <2>3. CASE e \in Range(SubSeq(l.list, 1, l.len))
    <3>1. Round(i, l) = [list |-> list, len |-> l.len - 1, gone |-> l.gone \cup {e}]
      BY <2>3 DEF RemoveRegistered
    <3>2. l.len - 1 \in 0 .. n
      <4>1. l.len # 0
        BY <1>1, <2>1, <2>3, SMTT(30) DEF Range
      <4> QED BY <1>1, <2>1, <4>1, SMTT(30)
    <3> HIDE DEF j, e
    <3>3. list \in [1 .. n -> Entry]
      <4>1. \A k \in 1 .. n : k < l.len => k + 1 \in 1 .. n
        BY <1>1, <2>1, SMTT(30)
      <4>2. \A k \in 1 .. n : (IF k >= j /\ k < l.len THEN l.list[k + 1] ELSE l.list[k]) \in Entry
        BY <2>1, <4>1
      <4>3. DOMAIN l.list = 1 .. n
        BY <2>1
      <4> QED BY <4>2, <4>3
    <3>4. l.gone \cup {e} \in SUBSET Entry
      BY <2>1 DEF e
    <3> HIDE DEF list
    <3> QED BY <3>1, <3>2, <3>3, <3>4, SMTT(30)
  <2> QED BY <2>2, <2>3
<1> HIDE DEF X, base
<1>5. PICK f \in [0 .. n -> X] : Iterates(f, base, step, n)
  <2>1. \A i \in 1 .. n : \A l \in X : step[i][l] \in X
    BY <1>4
  <2> HIDE DEF step
  <2> QED BY <1>1, <1>3, <2>1, IterationExists
<1>6. \A i \in 1 .. n : i - 1 \in 0 .. n /\ i \in 0 .. n /\ i # 0
  BY <1>1, SMTT(30)
<1>7. \A i \in 0 .. n : i # 0 => i \in 1 .. n
  BY <1>1, SMTT(30)
<1> HIDE DEF Round
<1>8. Rec(f)
  <2>1. f[0] = base /\ \A i \in 1 .. n : f[i] = Round(i, f[i - 1])
    BY <1>5, <1>6 DEF Iterates
  <2>2. \A i \in 0 .. n : f[i] = IF i = 0 THEN base ELSE Round(i, f[i - 1])
    BY <1>7, <2>1
  <2> QED BY <1>5, <2>2
<1> DEFINE F == CHOOSE g : Rec(g)
           H == {k \in 0 .. n : F[k] \in X}
<1>9. Rec(F)
  BY <1>8
<1> HIDE DEF F
<1>10. 0 \in H
  <2>1. 0 \in 0 .. n
    BY <1>1, SMTT(30)
  <2> QED BY <1>3, <1>9, <2>1
<1>11. ASSUME NEW k \in 1 .. n, k - 1 \in H PROVE k \in H
  <2>1. F[k] = Round(k, F[k - 1])
    BY <1>6, <1>9
  <2> QED BY <1>4, <1>6, <1>11, <2>1
<1>12. F[n] \in X
  <2> HIDE DEF H
  <2>1. \A k \in 0 .. n : k \in H
    BY <1>1, <1>10, <1>11, UpToInduction
  <2> QED BY <1>1, <2>1 DEF H
<1> DEFINE list == F[n].list
           m == F[n].len
<1>13. list \in [1 .. n -> Entry] /\ m \in 0 .. n
  BY <1>12 DEF X
<1>14. RemovalLoop(details).list = list /\ RemovalLoop(details).len = m
  BY <1>2 DEF F
<1> HIDE DEF list, m
<1>15. SubSeq(list, 1, m) \in Seq(Entry)
  BY <1>1, <1>13, SMTT(30)
<1> QED BY <1>14, <1>15

LEMMA UnsetPrivilegedKeeps ==
    ASSUME NEW s, Shape(s), NEW c
    PROVE  KeepsData(s, UnsetPrivileged(s, c))
<1> DEFINE r == UnsetPrivileged(s, c)
           loop == RemovalLoop(s.infos[c].details)
           x == [s.infos[c] EXCEPT !.details = SubSeq(loop.list, 1, loop.len)]
<1>1. InfoSet(s, r, c, x)
  <2> HIDE DEF loop
  <2>1. /\ DOMAIN r = DOMAIN s /\ r.addr = s.addr /\ r.cache = s.cache /\ r.height = s.height
        /\ r.codes = s.codes /\ r.infos = [s.infos EXCEPT ![c] = x]
    BY DEF UnsetPrivileged, Shape, Fields, loop
  <2>2. c \in DOMAIN s.infos => InfoOk(x) /\ x.code = s.infos[c].code
    <3> SUFFICES ASSUME c \in DOMAIN s.infos PROVE InfoOk(x) /\ x.code = s.infos[c].code
      OBVIOUS
    <3>1. DOMAIN s.infos[c] = InfoFields /\ s.infos[c].details \in Seq(Entry)
      BY DEF Shape, InfoOk
    <3>2. SubSeq(loop.list, 1, loop.len) \in Seq(Entry)
      BY <3>1, RemovalLeaves DEF loop
    <3> QED BY <3>1, <3>2 DEF InfoOk, InfoFields
  <2> QED BY <2>1, <2>2 DEF InfoSet, Shape
<1>2. c \in DOMAIN s.infos => x.data = s.infos[c].data
  BY DEF Shape, InfoOk, InfoFields
<1> HIDE DEF x, r
<1>3. Frame(s, r) /\ \A d \in 1 .. Len(s.infos) : r.infos[d] = IF d = c THEN x ELSE s.infos[d]
  BY <1>1, InfoChange, SMTT(30)
<1>4. \A d \in 1 .. Len(s.infos) : r.infos[d].data = s.infos[d].data
  BY <1>2, <1>3, ShapeInfos
<1> QED BY <1>1, <1>3, <1>4 DEF KeepsData, InfoSet, r

(* One of the moving fields of a contract changes.                         *)
LEMMA MoveKeeps ==
    ASSUME NEW s, Shape(s), NEW r, NEW c, NEW d, DataSet(s, r, c, d), Same(s.infos[c].data, d),
           r.pinned = s.pinned
    PROVE  Keeps(s, r, {})
BY DataChange, KeepsFromData

LEMMA CreateValidatorKeeps ==
    ASSUME NEW s, Shape(s), NEW g, NEW tx, NEW r \in CreateValidator(s, g, tx)
    PROVE  Keeps(s, r, {})
<1> DEFINE op     == tx.operator
           valset == GetPoEContractAddress(s, "VALSET")
           stake  == GetPoEContractAddress(s, "STAKING")
           group  == GetPoEContractAddress(s, "ENGAGEMENT")
           bond   == tx.amount + tx.vesting
           more   == bond >= g.minDelegation /\ s.infos[group].data.points[op] < g.initialPoints
           registered == [s EXCEPT !.infos[valset].data.keys[op] = tx.key]
           bonded == [registered EXCEPT !.infos[stake].data.staked[op] = @ + bond]
           engaged == [bonded EXCEPT !.infos[group].data.points[op] =
                                         IF more THEN g.initialPoints ELSE @]
<1>1. r \in Pay(engaged, op, stake, bond, g.bondDenom)
  BY DEF CreateValidator
<1> HIDE DEF op, valset, stake, group, bond, more
<1>2. Keeps(s, registered, {})
  <2> DEFINE d == [s.infos[valset].data EXCEPT !.keys[op] = tx.key]
  <2>1. DataSet(s, registered, valset, d) /\ registered.pinned = s.pinned
    BY DEF DataSet, Shape, Fields
  <2>2. Same(s.infos[valset].data, d)
    BY SameMoved, SMTT(30) DEF Moving
  <2> HIDE DEF registered, d
  <2> QED BY <2>1, <2>2, MoveKeeps
<1> HIDE DEF registered
<1>3. Shape(registered)
  BY <1>2 DEF Keeps, Frame
<1>4. Keeps(registered, bonded, {})
  <2> DEFINE d == [registered.infos[stake].data EXCEPT !.staked[op] = @ + bond]
  <2>1. DataSet(registered, bonded, stake, d) /\ bonded.pinned = registered.pinned
    BY <1>3 DEF DataSet, Shape, Fields
  <2>2. Same(registered.infos[stake].data, d)
    BY SameMoved, SMTT(30) DEF Moving
  <2> HIDE DEF bonded, d
  <2> QED BY <1>3, <2>1, <2>2, MoveKeeps
<1> HIDE DEF bonded
<1>5. Shape(bonded)
  BY <1>4 DEF Keeps, Frame
<1>6. Keeps(bonded, engaged, {})
  <2> DEFINE d == [bonded.infos[group].data EXCEPT !.points[op] = IF more THEN g.initialPoints ELSE @]
  <2>1. DataSet(bonded, engaged, group, d) /\ engaged.pinned = bonded.pinned
    BY <1>5 DEF DataSet, Shape, Fields
  <2>2. Same(bonded.infos[group].data, d)
    BY SameMoved, SMTT(30) DEF Moving
  <2> HIDE DEF engaged, d
  <2> QED BY <1>5, <2>1, <2>2, MoveKeeps
<1> HIDE DEF engaged
<1>7. Shape(engaged)
  BY <1>6 DEF Keeps, Frame
<1>8. Keeps(engaged, r, {})
  BY <1>1, <1>7, PayKeeps
<1>9. Keeps(s, bonded, {} \cup {}) /\ Keeps(bonded, r, {} \cup {})
  BY <1>2, <1>3, <1>4, <1>5, <1>6, <1>8, KeepsTrans
<1> QED BY <1>9, KeepsTrans, SMTT(30)

LEMMA GenTxsKeep ==
    ASSUME NEW s, Shape(s), NEW g, Len(g.gentxs) \in Nat, NEW r \in DeliverGenTxs(s, g)
    PROVE  Keeps(s, r, {})
<1>1. PICK f : GenTxRounds(f, s, g)
  BY GenTxLoop
<1>2. \A q \in f[0] : Keeps(s, q, {})
  BY <1>1, KeepsRefl DEF GenTxRounds
<1>3. \A i \in 1 .. Len(g.gentxs) : \A p \in f[i] : \E q \in f[i - 1] : Shape(q) => Keeps(q, p, {})
  BY <1>1, CreateValidatorKeeps, SMTT(30) DEF GenTxRounds
<1>4. r \in f[Len(g.gentxs)]
  BY <1>1 DEF GenTxRounds
<1> QED BY <1>2, <1>3, <1>4, KeepsLoop

LEMMA TrustedCircleKeeps ==
    ASSUME NEW s, Shape(s), NEW t, NEW cfg, Len(cfg.members) - 1 \in Nat,
           NEW r \in addToTrustedCircle(s, t, cfg)
    PROVE  Keeps(s, r, {})
<1> DEFINE n == Len(cfg.members) - 1
<1>1. PICK f : PaidRounds(f, s, t, cfg)
  BY PaidLoop
<1>2. n \in Nat /\ \A q \in f[0] : Keeps(s, q, {})
  BY <1>1, KeepsRefl DEF PaidRounds
<1>3. \A i \in 1 .. n : \A p \in f[i] : \E q \in f[i - 1] : Shape(q) => Keeps(q, p, {})
  BY <1>1, DepositKeeps, SMTT(30) DEF PaidRounds
<1>4. r \in f[n]
  BY <1>1 DEF PaidRounds
<1> HIDE DEF n
<1> QED BY <1>2, <1>3, <1>4, KeepsLoop

-----------------------------------------------------------------------------
(* A contract that is set up stays so.                                     *)

LEMMA TypesAre ==
    /\ Len(PoEContractTypeList) = 11
    /\ PoEContractTypeList \in Seq(PoEContractTypes)
    /\ PoEContractTypes = {"ARBITER_POOL", "ARBITER_POOL_VOTING", "COMMUNITY_POOL", "DISTRIBUTION",
                           "ENGAGEMENT", "MIXER", "OVERSIGHT_COMMUNITY",
                           "OVERSIGHT_COMMUNITY_PROPOSALS", "STAKING", "VALIDATOR_VOTING", "VALSET"}
<1> DEFINE l == PoEContractTypeList
<1>1. Len(l) = 11 /\ DOMAIN l = 1 .. 11
  BY SMTT(30) DEF PoEContractTypeList
<1>2. /\ l[1] = "ARBITER_POOL" /\ l[2] = "ARBITER_POOL_VOTING" /\ l[3] = "COMMUNITY_POOL"
      /\ l[4] = "DISTRIBUTION" /\ l[5] = "ENGAGEMENT" /\ l[6] = "MIXER"
      /\ l[7] = "OVERSIGHT_COMMUNITY" /\ l[8] = "OVERSIGHT_COMMUNITY_PROPOSALS"
      /\ l[9] = "STAKING" /\ l[10] = "VALIDATOR_VOTING" /\ l[11] = "VALSET"
  BY DEF PoEContractTypeList
<1>3. 1 .. 11 = {1, 2, 3, 4, 5, 6, 7, 8, 9, 10, 11}
  BY SMTT(30)
<1>4. PoEContractTypes = {l[i] : i \in {1, 2, 3, 4, 5, 6, 7, 8, 9, 10, 11}}
  BY <1>1, <1>3 DEF PoEContractTypes, Range
<1>5. l = [i \in 1 .. 11 |-> l[i]] /\ \A i \in 1 .. 11 : l[i] \in PoEContractTypes
  BY <1>1, SMTT(30) DEF PoEContractTypes, Range, PoEContractTypeList
<1> HIDE DEF l
<1>6. l \in Seq(PoEContractTypes)
  BY <1>5, SMTT(30)
<1> QED BY <1>1, <1>2, <1>4, <1>6, SMTT(30) DEF l

(* The contracts that a contract refers to.                                *)
Uses(t) ==
    CASE t = "MIXER" -> {"ENGAGEMENT", "STAKING"}
      [] t = "COMMUNITY_POOL" -> {"ENGAGEMENT"}
      [] t = "VALSET" -> {"MIXER", "ENGAGEMENT", "COMMUNITY_POOL"}
      [] t = "VALIDATOR_VOTING" -> {"DISTRIBUTION"}
      [] t = "ARBITER_POOL_VOTING" -> {"ARBITER_POOL"}
      [] t = "OVERSIGHT_COMMUNITY_PROPOSALS" -> {"OVERSIGHT_COMMUNITY"}
      [] OTHER -> {}

(* Moving fields and the contract's own admin do not matter to it.         *)
Alike(d, e) == DOMAIN e = DOMAIN d /\ \A x \in DOMAIN d \ (Moving \cup {"owner"}) : e[x] = d[x]

LEMMA LinkedKept ==
    ASSUME NEW t \in PoEContractTypes, NEW a, NEW b, NEW d, NEW e, NEW g, Linked(t, a, d),
           Same(d, e) \/ Alike(d, e), \A u \in Uses(t) : b[u] = a[u]
    PROVE  /\ Linked(t, b, e)
           /\ Configured(t, a, d, g) => Configured(t, b, e, g)
<1>1. DOMAIN d = DataFields(t) /\ DOMAIN e = DataFields(t) /\ d.label = t
      /\ \A x \in DataFields(t) \ (Moving \cup {"owner"}) : e[x] = d[x]
  BY DEF Linked, Same, Alike
<1>2. CASE t = "ENGAGEMENT"
  BY <1>1, <1>2 DEF Linked, Configured, DataFields, Moving
<1>3. CASE t \in {"OVERSIGHT_COMMUNITY", "ARBITER_POOL"}
  BY <1>1, <1>3 DEF Linked, Configured, DataFields, Moving
<1>4. CASE t = "STAKING"
  BY <1>1, <1>4 DEF Linked, Configured, DataFields, Moving
<1>5. CASE t = "MIXER"
  BY <1>1, <1>5 DEF Linked, Configured, DataFields, Moving, Uses
<1>6. CASE t = "COMMUNITY_POOL"
  BY <1>1, <1>6 DEF Linked, Configured, DataFields, Moving, Uses
<1>7. CASE t = "VALSET"
  <2>1. /\ e.label = d.label /\ e.membership = d.membership /\ e.distribution = d.distribution
        /\ e.epochLength = d.epochLength /\ e.offlineJailDuration = d.offlineJailDuration
    BY <1>1, <1>7 DEF DataFields, Moving
  <2>2. b["MIXER"] = a["MIXER"] /\ b["ENGAGEMENT"] = a["ENGAGEMENT"]
        /\ b["COMMUNITY_POOL"] = a["COMMUNITY_POOL"]
    BY <1>7 DEF Uses
  <2> QED BY <1>1, <1>7, <2>1, <2>2 DEF Linked, Configured
<1>8. CASE t = "DISTRIBUTION"
  BY <1>1, <1>8 DEF Linked, Configured, DataFields, Moving
<1>9. CASE t = "OVERSIGHT_COMMUNITY_PROPOSALS"
  BY <1>1, <1>9 DEF Linked, Configured, DataFields, Moving, Uses
<1>10. CASE t = "VALIDATOR_VOTING"
  BY <1>1, <1>10 DEF Linked, Configured, DataFields, Moving, Uses
<1>11. CASE t = "ARBITER_POOL_VOTING"
  BY <1>1, <1>11 DEF Linked, Configured, DataFields, Moving, Uses
<1> QED BY <1>2, <1>3, <1>4, <1>5, <1>6, <1>7, <1>8, <1>9, <1>10, <1>11, TypesAre

LEMMA BuiltKept ==
    ASSUME NEW s, Shape(s), NEW r, NEW types, Keeps(s, r, types), NEW g,
           NEW t \in PoEContractTypes \ types, Uses(t) \cap types = {}, Built(s, t)
    PROVE  /\ Built(r, t)
           /\ Configured(t, s.addr, s.infos[s.addr[t]].data, g) =>
                 Configured(t, r.addr, r.infos[r.addr[t]].data, g)
           /\ BuiltFrom(s, t, g) => BuiltFrom(r, t, g)
           /\ r.addr[t] = s.addr[t]
           /\ \A owner : "owner" \in DataFields(t) /\ Owned(s, t, owner) => Owned(r, t, owner)
<1> DEFINE c == s.addr[t]
           d == s.infos[c].data
           e == r.infos[c].data
<1>1. c \in 1 .. Len(s.infos) /\ s.cache[t] = c /\ Linked(t, s.addr, d)
  BY ShapeInfos DEF Built
<1>2. r.addr[t] = c /\ r.cache[t] = c
  BY <1>1 DEF Keeps
<1>3. Same(d, e) /\ r.infos[c].code = s.infos[c].code /\ c \in DOMAIN r.infos
  BY <1>1, ShapeInfos, SMTT(30) DEF Keeps, Frame
<1>4. \A u \in Uses(t) : u \in PoEContractTypes
  BY TypesAre DEF Uses
<1>5. \A u \in Uses(t) : r.addr[u] = s.addr[u]
  BY <1>4 DEF Keeps
<1>6. Linked(t, r.addr, e) /\ (Configured(t, s.addr, d, g) => Configured(t, r.addr, e, g))
  <2> HIDE DEF d, e
  <2> QED BY <1>1, <1>3, <1>5, LinkedKept
<1>7. s.pinned \subseteq r.pinned
  BY DEF Keeps
<1>8. "owner" \in DataFields(t) => e.owner = d.owner
  BY <1>1, <1>3 DEF Same, Linked, Moving
<1> QED BY <1>2, <1>3, <1>6, <1>7, <1>8 DEF Built, BuiltFrom, Owned

(* Contracts are set up after the ones that they refer to.                 *)
LEMMA BeforeClosed ==
    ASSUME NEW stage \in BootStages
    PROVE  /\ Before(stage) \subseteq PoEContractTypes
           /\ \A t \in Before(stage) : Uses(t) \subseteq Before(stage)
<1>1. CASE stage \in {"engagement", "oversight", "stake"}
  BY <1>1, TypesAre DEF Before, Uses
<1>2. CASE stage = "mixer"
  BY <1>2, TypesAre DEF Before, Uses
<1>3. CASE stage = "pool"
  BY <1>3, TypesAre DEF Before, Uses
<1>4. CASE stage = "valset"
  BY <1>4, TypesAre DEF Before, Uses
<1>5. CASE stage = "proposals"
  BY <1>5, TypesAre DEF Before, Uses
<1>6. CASE stage \in {"handover", "voting"}
  BY <1>6, TypesAre, SMTT(30) DEF Before, Uses
<1>7. CASE stage = "arbiter"
  BY <1>7, TypesAre, SMTT(30) DEF Before, Uses
<1>8. CASE stage = "arbiterVoting"
  BY <1>8, TypesAre, SMTT(30) DEF Before, Uses
<1>9. CASE stage \in {"migrators", "gentx"}
  BY <1>9, TypesAre, SMTT(30) DEF Before, Uses
<1> QED BY <1>1, <1>2, <1>3, <1>4, <1>5, <1>6, <1>7, <1>8, <1>9 DEF BootStages

LEMMA StageKept ==
    ASSUME NEW stage \in BootStages, NEW s, NEW g, Progress(s, g, stage), NEW r, NEW new,
           Keeps(s, r, new), new \cap Before(stage) = {}
    PROVE  /\ Shape(r)
           /\ \A t \in Before(stage) : BuiltFrom(r, t, g) /\ r.addr[t] = s.addr[t]
           /\ \A t \in {"ENGAGEMENT", "VALSET"} \cap Before(stage) :
                 \A owner : Owned(s, t, owner) => Owned(r, t, owner)
<1>1. Shape(s) /\ Shape(r)
  BY DEF Progress, Keeps, Frame
<1>2. ASSUME NEW t \in Before(stage)
      PROVE  /\ BuiltFrom(r, t, g) /\ r.addr[t] = s.addr[t]
             /\ t \in {"ENGAGEMENT", "VALSET"} => \A owner : Owned(s, t, owner) => Owned(r, t, owner)
  <2>1. t \in PoEContractTypes \ new /\ Uses(t) \cap new = {}
    BY BeforeClosed
  <2>2. BuiltFrom(s, t, g) /\ Built(s, t)
    BY DEF Progress, BuiltFrom
  <2>3. t \in {"ENGAGEMENT", "VALSET"} => "owner" \in DataFields(t)
    BY DEF DataFields
  <2> QED BY <1>1, <2>1, <2>2, <2>3, BuiltKept, SMTT(30)
<1> QED BY <1>1, <1>2

(* A contract of type t with these data is new.                            *)
Added(s, r, t, data) ==
    /\ Keeps(s, r, {t})
    /\ r.addr[t] \in DOMAIN r.infos
    /\ r.cache[t] = r.addr[t]
    /\ Same(data, r.infos[r.addr[t]].data)

Pinned(s, t) == s.infos[s.addr[t]].code \in s.pinned

(* It stays so in steps that set up nothing.                               *)
LEMMA AddedKept ==
    ASSUME NEW s, Shape(s), NEW r, NEW t \in PoEContractTypes, NEW data, Added(s, r, t, data),
           NEW q, Keeps(r, q, {})
    PROVE  Added(s, q, t, data) /\ (Pinned(r, t) => Pinned(q, t))
<1> DEFINE c == r.addr[t]
<1>1. Shape(r) /\ Shape(q)
  BY DEF Added, Keeps, Frame
<1>2. c \in 1 .. Len(r.infos) /\ c \in DOMAIN q.infos
  BY <1>1, ShapeInfos, SMTT(30) DEF Added, Keeps, Frame
<1>3. q.addr[t] = c /\ q.cache[t] = c
  BY DEF Added, Keeps
<1>4. Same(data, q.infos[c].data)
  BY <1>2, SameTrans DEF Added, Keeps
<1>5. Keeps(s, q, {t} \cup {})
  BY KeepsTrans DEF Added
<1>6. Pinned(r, t) => Pinned(q, t)
  BY <1>2, <1>3 DEF Pinned, Keeps, Frame
<1> QED BY <1>2, <1>3, <1>4, <1>5, <1>6 DEF Added

LEMMA NewAdded ==
    ASSUME NEW s, Shape(s), NEW wasm \in WasmFiles, NEW t \in PoEContractTypes, NEW data,
           NEW q \in InstantiateNew(s, wasm, t, data)
    PROVE  Added(s, q, t, data) /\ q.infos[q.addr[t]].code = Len(q.codes)
<1>1. PICK p \in Create(s, wasm) : q = Instantiate(p, Len(p.codes), t, data)
  BY DEF InstantiateNew
<1>2. Keeps(s, p, {}) /\ Len(p.codes) \in DOMAIN p.codes
  BY CreateKeeps
<1>3. Shape(p)
  BY <1>2 DEF Keeps, Frame
<1>4. Fresh(p, q, Len(p.codes), t, data) /\ q.codes = p.codes
  BY <1>1, <1>2, <1>3, InstantiateFresh
<1>5. Keeps(s, q, {} \cup {t})
  BY <1>2, <1>4, KeepsTrans DEF Fresh
<1> QED BY <1>4, <1>5, SameRefl DEF Fresh, Added

LEMMA PinnedAdded ==
    ASSUME NEW s, Shape(s), NEW t \in PoEContractTypes, NEW data, NEW q, Added(s, q, t, data),
           q.infos[q.addr[t]].code = Len(q.codes)
    PROVE  Added(s, PinLast(q), t, data) /\ Pinned(PinLast(q), t)
<1> DEFINE r == PinLast(q)
<1>1. Shape(q)
  BY DEF Added, Keeps, Frame
<1>2. /\ KeepsData(q, r) /\ Keeps(q, r, {}) /\ r.infos = q.infos
      /\ r.pinned = q.pinned \cup {Len(q.codes)}
  BY <1>1, PinKeeps DEF PinLast
<1> HIDE DEF r
<1>3. Added(s, r, t, data)
  BY <1>2, AddedKept
<1>4. Pinned(r, t)
  BY <1>2 DEF Pinned, KeepsData
<1> QED BY <1>3, <1>4 DEF r

LEMMA PromotedAdded ==
    ASSUME NEW s, Shape(s), NEW t \in PoEContractTypes, NEW data, NEW q, Added(s, q, t, data),
           NEW r \in SetPrivileged(q, GetPoEContractAddress(q, t))
    PROVE  Added(s, r, t, data) /\ Pinned(r, t) /\ Keeps(q, r, {})
<1> DEFINE c == q.addr[t]
<1>1. Shape(q) /\ GetPoEContractAddress(q, t) = c /\ c \in DOMAIN q.infos
  BY DEF Added, Keeps, Frame, GetPoEContractAddress
<1>2. Grows(q, r) /\ q.infos[c].code \in r.pinned
  BY <1>1, SetPrivilegedGrows
<1>3. Keeps(q, r, {})
  BY <1>1, <1>2, KeepsFromData DEF Grows
<1>4. Added(s, r, t, data)
  BY <1>3, AddedKept
<1>5. Pinned(r, t)
  BY <1>1, <1>2, ShapeInfos DEF Pinned, Grows, KeepsData, Frame
<1> QED BY <1>3, <1>4, <1>5

(* A stage that sets up one contract.                                      *)
LEMMA OneMore ==
    ASSUME NEW stage \in BootStages, NEW s, NEW g, Progress(s, g, stage),
           NEW t \in PoEContractTypes, t \notin Before(stage), Uses(t) \subseteq Before(stage),
           NEW r, NEW data, Added(s, r, t, data), Pinned(r, t),
           Linked(t, s.addr, data), Configured(t, s.addr, data, g)
    PROVE  /\ Shape(r)
           /\ \A u \in Before(stage) \cup {t} : BuiltFrom(r, u, g)
           /\ \A u \in Before(stage) : r.addr[u] = s.addr[u]
           /\ \A u \in {"ENGAGEMENT", "VALSET"} \cap Before(stage) :
                 \A owner : Owned(s, u, owner) => Owned(r, u, owner)
           /\ "owner" \in DataFields(t) => Owned(r, t, data.owner)
<1>1. Keeps(s, r, {t})
  BY DEF Added
<1>2. /\ Shape(r)
      /\ \A u \in Before(stage) : BuiltFrom(r, u, g) /\ r.addr[u] = s.addr[u]
      /\ \A u \in {"ENGAGEMENT", "VALSET"} \cap Before(stage) :
            \A owner : Owned(s, u, owner) => Owned(r, u, owner)
  <2>1. {t} \cap Before(stage) = {}
    OBVIOUS
  <2> QED BY <1>1, <2>1, StageKept
<1> DEFINE e == r.infos[r.addr[t]].data
<1>3. Same(data, e)
  BY DEF Added
<1> HIDE DEF e
<1>4. Linked(t, r.addr, e) /\ Configured(t, r.addr, e, g)
  BY <1>2, <1>3, LinkedKept
<1>5. BuiltFrom(r, t, g)
  BY <1>4 DEF Added, Pinned, BuiltFrom, Built, e
<1>6. "owner" \in DataFields(t) => Owned(r, t, data.owner)
  BY <1>3 DEF Owned, Same, Linked, Moving, e
<1> QED BY <1>2, <1>5, <1>6

-----------------------------------------------------------------------------
(* The stages of the bootstrap.                                            *)

LEMMA GetBuilt ==
    ASSUME NEW s, NEW t, Built(s, t) PROVE GetPoEContractAddress(s, t) = s.addr[t]
BY DEF Built, GetPoEContractAddress

LEMMA StageEngagement ==
    ASSUME NEW s, NEW g, Progress(s, g, "engagement"), NEW r \in SetupEngagement(s, g)
    PROVE  Progress(r, g, "oversight")
<1> DEFINE t == "ENGAGEMENT"
           data == newEngagementInitMsg(g)
<1>1. PICK q \in InstantiateNew(s, "pt4_engagement", t, data) : r = PinLast(q)
  BY DEF SetupEngagement
<1>2. Linked(t, s.addr, data) /\ Configured(t, s.addr, data, g) /\ data.owner = Bootstrap
  BY DEF newEngagementInitMsg, Linked, Configured, DataFields
<1>3. /\ Shape(s) /\ t \in PoEContractTypes /\ "pt4_engagement" \in WasmFiles
      /\ "engagement" \in BootStages /\ t \notin Before("engagement") /\ Uses(t) = {}
      /\ Before("oversight") = Before("engagement") \cup {t} /\ "owner" \in DataFields(t)
      /\ "oversight" \notin HandedOver
  BY TypesAre DEF Progress, WasmFiles, BootStages, Before, Uses, DataFields, HandedOver
<1> HIDE DEF data
<1>4. Added(s, r, t, data) /\ Pinned(r, t)
  <2>1. Added(s, q, t, data) /\ q.infos[q.addr[t]].code = Len(q.codes)
    BY <1>1, <1>3, NewAdded
  <2> QED BY <1>1, <1>3, <2>1, PinnedAdded
<1>5. Shape(r) /\ (\A u \in Before("oversight") : BuiltFrom(r, u, g)) /\ Owned(r, t, Bootstrap)
  BY <1>2, <1>3, <1>4, OneMore
<1> QED BY <1>3, <1>5 DEF Progress, Before

LEMMA StageStaking ==
    ASSUME NEW s, NEW g, Progress(s, g, "stake"), NEW r \in SetupStaking(s, g)
    PROVE  Progress(r, g, "mixer")
<1> DEFINE t == "STAKING"
           data == newStakeInitMsg(g)
<1>1. PICK q \in InstantiateNew(s, "pt4_stake", t, data) :
         r \in SetPrivileged(q, GetPoEContractAddress(q, t))
  BY DEF SetupStaking, PromoteLast, Then
<1>2. Linked(t, s.addr, data) /\ Configured(t, s.addr, data, g)
  BY DEF newStakeInitMsg, Linked, Configured, DataFields
<1>3. /\ Shape(s) /\ t \in PoEContractTypes /\ "pt4_stake" \in WasmFiles
      /\ "stake" \in BootStages /\ t \notin Before("stake") /\ Uses(t) = {}
      /\ Before("mixer") = Before("stake") \cup {t}
      /\ "stake" \notin HandedOver /\ "mixer" \notin HandedOver
      /\ {"ENGAGEMENT", "VALSET"} \cap Before("mixer") = {"ENGAGEMENT"}
      /\ {"ENGAGEMENT", "VALSET"} \cap Before("stake") = {"ENGAGEMENT"}
  BY TypesAre DEF Progress, WasmFiles, BootStages, Before, Uses, HandedOver
<1> HIDE DEF data
<1>4. Added(s, r, t, data) /\ Pinned(r, t)
  BY <1>1, <1>3, NewAdded, PromotedAdded
<1>5. /\ Shape(r) /\ (\A u \in Before("mixer") : BuiltFrom(r, u, g))
      /\ Owned(s, "ENGAGEMENT", Bootstrap) => Owned(r, "ENGAGEMENT", Bootstrap)
  BY <1>2, <1>3, <1>4, OneMore
<1> QED BY <1>3, <1>5 DEF Progress

LEMMA StageMixer ==
    ASSUME NEW s, NEW g, Progress(s, g, "mixer"), NEW r \in SetupMixer(s, g)
    PROVE  Progress(r, g, "pool")
<1> DEFINE t == "MIXER"
           data == [label |-> "MIXER", leftGroup |-> GetPoEContractAddress(s, "ENGAGEMENT"),
                                       rightGroup |-> GetPoEContractAddress(s, "STAKING")]
<1>1. PICK q \in InstantiateNew(s, "pt4_mixer", t, data) : r = PinLast(q)
  BY DEF SetupMixer
<1>2. Linked(t, s.addr, data) /\ Configured(t, s.addr, data, g)
  <2>1. Built(s, "ENGAGEMENT") /\ Built(s, "STAKING")
    BY DEF Progress, Before, BuiltFrom
  <2> QED BY <2>1, GetBuilt DEF Linked, Configured, DataFields
<1>3. /\ Shape(s) /\ t \in PoEContractTypes /\ "pt4_mixer" \in WasmFiles
      /\ "mixer" \in BootStages /\ t \notin Before("mixer") /\ Uses(t) \subseteq Before("mixer")
      /\ Before("pool") = Before("mixer") \cup {t}
      /\ "mixer" \notin HandedOver /\ "pool" \notin HandedOver
      /\ {"ENGAGEMENT", "VALSET"} \cap Before("pool") = {"ENGAGEMENT"}
      /\ {"ENGAGEMENT", "VALSET"} \cap Before("mixer") = {"ENGAGEMENT"}
  BY TypesAre DEF Progress, WasmFiles, BootStages, Before, Uses, HandedOver
<1> HIDE DEF data
<1>4. Added(s, r, t, data) /\ Pinned(r, t)
  <2>1. Added(s, q, t, data) /\ q.infos[q.addr[t]].code = Len(q.codes)
    <3>1. Shape(s) /\ t \in PoEContractTypes /\ "pt4_mixer" \in WasmFiles
      BY <1>3
    <3> QED BY <1>1, <3>1, NewAdded
  <2> QED BY <1>1, <1>3, <2>1, PinnedAdded
<1>5. /\ Shape(r) /\ (\A u \in Before("pool") : BuiltFrom(r, u, g))
      /\ Owned(s, "ENGAGEMENT", Bootstrap) => Owned(r, "ENGAGEMENT", Bootstrap)
  BY <1>2, <1>3, <1>4, OneMore
<1> QED BY <1>3, <1>5 DEF Progress

LEMMA StageCommunityPool ==
    ASSUME NEW s, NEW g, Progress(s, g, "pool"), NEW r \in SetupCommunityPool(s, g)
    PROVE  Progress(r, g, "valset")
<1> DEFINE t == "COMMUNITY_POOL"
           Msg(rules) == [label |-> "COMMUNITY_POOL", rules |-> rules,
                          groupAddress |-> GetPoEContractAddress(s, "ENGAGEMENT")]
<1>1. PICK rules \in toContractVotingRules(g.poolRules) :
         \E q \in InstantiateNew(s, "community_pool", t, Msg(rules)) : r = PinLast(q)
  BY DEF SetupCommunityPool, Then
<1> DEFINE data == Msg(rules)
<1>2. Linked(t, s.addr, data) /\ Configured(t, s.addr, data, g)
  <2>1. Built(s, "ENGAGEMENT")
    BY DEF Progress, Before, BuiltFrom
  <2> QED BY <2>1, GetBuilt DEF Linked, Configured, DataFields
<1>3. /\ Shape(s) /\ t \in PoEContractTypes /\ "community_pool" \in WasmFiles
      /\ "pool" \in BootStages /\ t \notin Before("pool") /\ Uses(t) \subseteq Before("pool")
      /\ Before("valset") = Before("pool") \cup {t}
      /\ "pool" \notin HandedOver /\ "valset" \notin HandedOver
      /\ {"ENGAGEMENT", "VALSET"} \cap Before("valset") = {"ENGAGEMENT"}
      /\ {"ENGAGEMENT", "VALSET"} \cap Before("pool") = {"ENGAGEMENT"}
  BY TypesAre DEF Progress, WasmFiles, BootStages, Before, Uses, HandedOver
<1> HIDE DEF Msg
<1>4. Added(s, r, t, data) /\ Pinned(r, t)
  <2>1. PICK q \in InstantiateNew(s, "community_pool", t, data) : r = PinLast(q)
    BY <1>1
  <2>2. Added(s, q, t, data) /\ q.infos[q.addr[t]].code = Len(q.codes)
    <3>1. Shape(s) /\ t \in PoEContractTypes /\ "community_pool" \in WasmFiles
      BY <1>3
    <3> QED BY <2>1, <3>1, NewAdded
  <2> QED BY <1>3, <2>1, <2>2, PinnedAdded
<1>5. /\ Shape(r) /\ (\A u \in Before("valset") : BuiltFrom(r, u, g))
      /\ Owned(s, "ENGAGEMENT", Bootstrap) => Owned(r, "ENGAGEMENT", Bootstrap)
  BY <1>2, <1>3, <1>4, OneMore
<1> QED BY <1>3, <1>5 DEF Progress

(* A trusted circle, with its first member.                                *)
IsCircle(s, r, code, t, data) ==
    /\ Added(s, r, t, data)
    /\ DOMAIN data = DataFields(t) /\ data.label = t
    /\ r.infos[r.addr[t]].code = code /\ r.codes = s.codes

LEMMA CircleAdded ==
    ASSUME NEW s, Shape(s), NEW code \in DOMAIN s.codes, NEW cfg,
           NEW t \in {"OVERSIGHT_COMMUNITY", "ARBITER_POOL"}, NEW r \in TrustedCircle(s, code, t, cfg)
    PROVE  \E data : IsCircle(s, r, code, t, data)
<1> DEFINE Msg(rules) == [label |-> t, members |-> {}, escrow |-> cfg.escrow, rules |-> rules]
<1>1. PICK rules \in toContractVotingRules(cfg.rules) :
         r \in DepositEscrow(Instantiate(s, code, t, Msg(rules)), t, cfg, Head(cfg.members))
  BY DEF TrustedCircle, Then
<1> DEFINE data == Msg(rules)
           q == Instantiate(s, code, t, data)
<1>2. t \in PoEContractTypes /\ DOMAIN data = DataFields(t) /\ data.label = t
  BY TypesAre DEF DataFields
<1> HIDE DEF Msg
<1>3. Fresh(s, q, code, t, data) /\ q.codes = s.codes
  BY <1>2, InstantiateFresh, SMTT(30)
<1> HIDE DEF q
<1>4. Shape(q) /\ Added(s, q, t, data)
  BY <1>3, SameRefl DEF Fresh, Added, Keeps, Frame
<1>5. Keeps(q, r, {}) /\ r.codes = q.codes
  BY <1>1, <1>4, DepositKeeps, SMTT(30) DEF q
<1>6. Added(s, r, t, data)
  BY <1>2, <1>4, <1>5, AddedKept
<1>7. r.infos[r.addr[t]].code = code
  <2>1. q.addr[t] \in DOMAIN q.infos /\ q.infos[q.addr[t]].code = code
    BY <1>3 DEF Fresh
  <2>2. r.addr[t] = q.addr[t] /\ \A c \in 1 .. Len(q.infos) : r.infos[c].code = q.infos[c].code
    BY <1>2, <1>5 DEF Keeps, Frame
  <2> QED BY <1>4, <2>1, <2>2, ShapeInfos
<1> QED BY <1>2, <1>3, <1>5, <1>6, <1>7 DEF IsCircle

LEMMA CircleLinked ==
    ASSUME NEW t \in {"OVERSIGHT_COMMUNITY", "ARBITER_POOL"}, NEW data,
           DOMAIN data = DataFields(t), data.label = t, NEW a, NEW g
    PROVE  Linked(t, a, data) /\ Configured(t, a, data, g)
BY DEF Linked, Configured

LEMMA StageOversight ==
    ASSUME NEW s, NEW g, Progress(s, g, "oversight"), NEW r \in SetupOversight(s, g),
           Len(g.oc.members) - 1 \in Nat
    PROVE  Progress(r, g, "stake")
<1> DEFINE t == "OVERSIGHT_COMMUNITY"
<1>1. PICK p \in Create(s, "trusted_circle") :
         \E q \in TrustedCircle(p, Len(p.codes), t, g.oc) :
            r \in addToTrustedCircle(PinLast(q), t, g.oc)
  BY SMTT(30) DEF SetupOversight, Then
<1>2. PICK q \in TrustedCircle(p, Len(p.codes), t, g.oc) :
         r \in addToTrustedCircle(PinLast(q), t, g.oc)
  BY <1>1
<1>3. /\ Shape(s) /\ t \in PoEContractTypes /\ "trusted_circle" \in WasmFiles
      /\ "oversight" \in BootStages /\ t \notin Before("oversight") /\ Uses(t) = {}
      /\ Before("stake") = Before("oversight") \cup {t}
      /\ "oversight" \notin HandedOver /\ "stake" \notin HandedOver
      /\ {"ENGAGEMENT", "VALSET"} \cap Before("stake") = {"ENGAGEMENT"}
      /\ {"ENGAGEMENT", "VALSET"} \cap Before("oversight") = {"ENGAGEMENT"}
  BY TypesAre DEF Progress, WasmFiles, BootStages, Before, Uses, HandedOver
<1>4. Keeps(s, p, {}) /\ Len(p.codes) \in DOMAIN p.codes /\ Shape(p)
  BY <1>3, CreateKeeps, SMTT(30) DEF Keeps, Frame
<1>5. PICK data : IsCircle(p, q, Len(p.codes), t, data)
  BY <1>4, CircleAdded
<1>6. Keeps(s, q, {} \cup {t})
  BY <1>3, <1>4, <1>5, KeepsTrans DEF Added, IsCircle
<1>7. Added(s, q, t, data)
  BY <1>5, <1>6 DEF Added, IsCircle
<1>8. Added(s, PinLast(q), t, data) /\ Pinned(PinLast(q), t)
  BY <1>3, <1>5, <1>7, PinnedAdded DEF IsCircle
<1>9. Keeps(PinLast(q), r, {})
  BY <1>2, <1>8, TrustedCircleKeeps DEF Added, Keeps, Frame
<1>10. Added(s, r, t, data) /\ Pinned(r, t)
  BY <1>3, <1>8, <1>9, AddedKept
<1>11. Linked(t, s.addr, data) /\ Configured(t, s.addr, data, g)
  BY <1>5, CircleLinked DEF IsCircle
<1>12. /\ Shape(r) /\ (\A u \in Before("stake") : BuiltFrom(r, u, g))
       /\ Owned(s, "ENGAGEMENT", Bootstrap) => Owned(r, "ENGAGEMENT", Bootstrap)
  BY <1>3, <1>10, <1>11, OneMore
<1> QED BY <1>3, <1>12 DEF Progress

(* The valset contract, and the group that it instantiates.                *)
LEMMA StageValset ==
    ASSUME NEW s, NEW g, Progress(s, g, "valset"), NEW r \in SetupValset(s, g)
    PROVE  Progress(r, g, "proposals")
<1> DEFINE t == "VALSET"
           u == "DISTRIBUTION"
           Q(p) == SetPoEContractAddress(DistributionOf(p), u, Len(p.infos) + 1)
           group == [label |-> "DISTRIBUTION"]
<1>0. PICK data \in newValsetInitMsg(s, g) : \E p \in InstantiateNew(s, "valset", t, data) :
         r \in SetPrivileged(Q(p), GetPoEContractAddress(Q(p), t))
  BY DEF SetupValset, PromoteLast, Then
<1>1. PICK p \in InstantiateNew(s, "valset", t, data) :
         r \in SetPrivileged(Q(p), GetPoEContractAddress(Q(p), t))
  BY <1>0
<1>2. Linked(t, s.addr, data) /\ Configured(t, s.addr, data, g) /\ data.owner = Bootstrap
  <2>1. Built(s, "ENGAGEMENT") /\ Built(s, "COMMUNITY_POOL") /\ Built(s, "MIXER")
    BY DEF Progress, Before, BuiltFrom
  <2> DEFINE e == g.valset.engagementRewardRatio
             c == g.valset.communityPoolRewardRatio
             dist == {[address |-> s.addr["ENGAGEMENT"], ratio |-> e],
                      [address |-> s.addr["COMMUNITY_POOL"], ratio |-> c]}
  <2>2. data = [label |-> "VALSET", owner |-> Bootstrap, membership |-> s.addr["MIXER"],
                distribution |-> dist, maxValidators |-> g.valset.maxValidators,
                epochLength |-> Seconds(g.valset.epochLength),
                offlineJailDuration |-> Seconds(g.valset.offlineJailDuration),
                keys |-> [p2 \in People |-> Nobody], active |-> {}]
    BY <2>1, GetBuilt, SMTT(30) DEF newValsetInitMsg, Decimal, DecimalFromPercentage
  <2>3. {x.address : x \in dist} = {s.addr["ENGAGEMENT"], s.addr["COMMUNITY_POOL"]}
    BY SMTT(30)
  <2> HIDE DEF dist
  <2>4. /\ DOMAIN data = DataFields("VALSET") /\ data.label = "VALSET" /\ data.owner = Bootstrap
        /\ data.membership = s.addr["MIXER"] /\ data.distribution = dist
        /\ data.epochLength = Seconds(g.valset.epochLength)
        /\ data.offlineJailDuration = Seconds(g.valset.offlineJailDuration)
    BY <2>2 DEF DataFields
  <2> HIDE DEF e, c
  <2>5. Linked(t, s.addr, data)
    BY <2>3, <2>4 DEF Linked
  <2>6. Configured(t, s.addr, data, g)
    BY <2>4 DEF Configured, dist, e, c
  <2> QED BY <2>4, <2>5, <2>6
<1>3. /\ Shape(s) /\ t \in PoEContractTypes /\ u \in PoEContractTypes /\ "valset" \in WasmFiles
      /\ "valset" \in BootStages /\ t \notin Before("valset") /\ u \notin Before("valset")
      /\ Uses(t) \subseteq Before("valset") /\ Uses(u) = {} /\ t # u /\ "owner" \in DataFields(t)
      /\ Before("proposals") = Before("valset") \cup {t, u}
      /\ "valset" \notin HandedOver /\ "proposals" \notin HandedOver
      /\ {"ENGAGEMENT", "VALSET"} \cap Before("proposals") = {"ENGAGEMENT", "VALSET"}
      /\ {"ENGAGEMENT", "VALSET"} \cap Before("valset") = {"ENGAGEMENT"}
      /\ "ENGAGEMENT" \in Before("valset")
  BY TypesAre DEF Progress, WasmFiles, BootStages, Before, Uses, HandedOver, DataFields
<1>4. Added(s, p, t, data) /\ Shape(p)
  <2>1. Added(s, p, t, data)
    BY <1>1, <1>3, NewAdded
  <2> QED BY <2>1 DEF Added, Keeps, Frame
<1>5. BuiltFrom(p, "ENGAGEMENT", g)
  <2>1. Keeps(s, p, {t}) /\ {t} \cap Before("valset") = {}
    BY <1>3, <1>4 DEF Added
  <2> QED BY <1>3, <2>1, StageKept
<1> DEFINE code == p.infos[p.addr["ENGAGEMENT"]].code
<1>6. /\ DistributionOf(p) = NewContract(p, code, group)
      /\ code \in DOMAIN p.codes /\ code \in p.pinned
  BY <1>4, <1>5, GetBuilt DEF BuiltFrom, Built, DistributionOf, Shape, CodesOk
<1> HIDE DEF code
<1> DEFINE m == NewContract(p, code, group)
           n == Len(p.infos) + 1
           q == SetPoEContractAddress(m, u, n)
<1>7. /\ Keeps(p, m, {}) /\ m.pinned = p.pinned
      /\ Len(m.infos) = n /\ m.infos[n].data = group /\ m.infos[n].code = code /\ Shape(m)
  <2>1. /\ Keeps(p, m, {}) /\ m.pinned = p.pinned
        /\ Len(m.infos) = n /\ m.infos[n].data = group /\ m.infos[n].code = code
    <3>1. Shape(p) /\ code \in DOMAIN p.codes
      BY <1>4, <1>6
    <3> HIDE DEF group
    <3> QED BY <3>1, NewContractKeeps, SMTT(30)
  <2> HIDE DEF m, n
  <2> QED BY <2>1 DEF Keeps, Frame
<1>8. n \in DOMAIN m.infos
  <2>1. Len(p.infos) \in Nat /\ DOMAIN m.infos = 1 .. Len(m.infos)
    BY <1>4, <1>7, ShapeInfos
  <2>2. n \in 1 .. n
    <3> HIDE DEF m
    <3> QED BY <2>1, SMTT(30)
  <2> QED BY <1>7, <2>1, <2>2
<1> HIDE DEF m, n
<1>9. /\ Keeps(m, q, {u}) /\ q.addr[u] = n /\ q.cache[u] = n /\ q.infos = m.infos
      /\ q.pinned = m.pinned
  <2>1. Shape(m) /\ u \in PoEContractTypes
    BY <1>3, <1>7
  <2> QED BY <2>1, SetAddressKeeps, SMTT(30)
<1>10. r \in SetPrivileged(q, GetPoEContractAddress(q, t))
  BY <1>1, <1>6 DEF m, n
<1> HIDE DEF q
<1>11. Keeps(p, q, {} \cup {u})
  BY <1>4, <1>7, <1>9, KeepsTrans
<1>12. Added(p, q, u, group) /\ Pinned(q, u)
  BY <1>6, <1>7, <1>8, <1>9, <1>11, SameRefl DEF Added, Pinned
<1>13. Built(p, t) /\ Configured(t, p.addr, p.infos[p.addr[t]].data, g) /\ Owned(p, t, Bootstrap)
  <2> DEFINE e == p.infos[p.addr[t]].data
  <2>1. Same(data, e) /\ p.addr[t] \in DOMAIN p.infos /\ p.cache[t] = p.addr[t]
    BY <1>4 DEF Added
  <2>2. \A x \in Uses(t) : p.addr[x] = s.addr[x]
    BY <1>3, <1>4, BeforeClosed DEF Added, Keeps
  <2> HIDE DEF e
  <2>3. Linked(t, p.addr, e) /\ Configured(t, p.addr, e, g)
    BY <1>2, <1>3, <2>1, <2>2, LinkedKept
  <2>4. e.owner = Bootstrap
    BY <1>2, <1>3, <2>1 DEF Same, Linked, Moving
  <2> QED BY <2>1, <2>3, <2>4 DEF Built, Owned, e
<1>14. /\ Built(q, t) /\ Configured(t, q.addr, q.infos[q.addr[t]].data, g)
       /\ Owned(q, t, Bootstrap) /\ Shape(q)
  <2>1. Keeps(p, q, {u}) /\ Shape(q)
    BY <1>12 DEF Added, Keeps, Frame
  <2>2. t \in PoEContractTypes \ {u} /\ Uses(t) \cap {u} = {}
    BY <1>3
  <2> QED BY <1>3, <1>4, <1>13, <2>1, <2>2, BuiltKept
<1>15. Keeps(q, r, {}) /\ q.infos[q.addr[t]].code \in r.pinned
  <2>1. GetPoEContractAddress(q, t) = q.addr[t]
    BY <1>14, GetBuilt
  <2>2. Grows(q, r) /\ q.infos[q.addr[t]].code \in r.pinned
    BY <1>10, <1>14, <2>1, SetPrivilegedGrows
  <2> QED BY <1>14, <2>2, KeepsFromData DEF Grows
<1>16. BuiltFrom(r, t, g) /\ Owned(r, t, Bootstrap)
  <2>1. /\ Built(r, t) /\ Configured(t, r.addr, r.infos[r.addr[t]].data, g)
        /\ r.addr[t] = q.addr[t] /\ Owned(r, t, Bootstrap)
    <3>1. t \in PoEContractTypes \ {} /\ Uses(t) \cap {} = {} /\ "owner" \in DataFields(t)
      BY <1>3
    <3>2. Shape(q) /\ Keeps(q, r, {}) /\ Built(q, t)
      BY <1>14, <1>15
    <3>3. /\ Built(r, t) /\ r.addr[t] = q.addr[t]
          /\ Configured(t, q.addr, q.infos[q.addr[t]].data, g) =>
                Configured(t, r.addr, r.infos[r.addr[t]].data, g)
          /\ \A owner : "owner" \in DataFields(t) /\ Owned(q, t, owner) => Owned(r, t, owner)
      BY <3>1, <3>2, BuiltKept, SMTT(30)
    <3> QED BY <1>14, <3>1, <3>3
  <2>2. r.infos[r.addr[t]].code = q.infos[q.addr[t]].code
    BY <1>14, <1>15, <2>1, ShapeInfos DEF Built, Keeps, Frame
  <2> QED BY <1>15, <2>1, <2>2 DEF BuiltFrom
<1>17. BuiltFrom(r, u, g)
  <2>1. Added(p, r, u, group) /\ Pinned(r, u)
    BY <1>3, <1>4, <1>12, <1>15, AddedKept
  <2>2. Linked(u, r.addr, group) /\ Configured(u, r.addr, group, g)
    BY DEF Linked, Configured, DataFields
  <2> HIDE DEF group
  <2> DEFINE e == r.infos[r.addr[u]].data
  <2>3. Same(group, e)
    BY <2>1 DEF Added
  <2> HIDE DEF e
  <2>4. Linked(u, r.addr, e) /\ Configured(u, r.addr, e, g)
    BY <1>3, <2>2, <2>3, LinkedKept
  <2> QED BY <2>1, <2>4 DEF Added, Pinned, BuiltFrom, Built, e
<1>18. /\ Shape(r) /\ \A x \in Before("valset") : BuiltFrom(r, x, g)
       /\ Owned(s, "ENGAGEMENT", Bootstrap) => Owned(r, "ENGAGEMENT", Bootstrap)
  <2>1. Keeps(s, q, {t} \cup ({} \cup {u}))
    BY <1>3, <1>4, <1>11, KeepsTrans DEF Added
  <2>2. Keeps(s, r, {t} \cup ({} \cup {u}) \cup {})
    BY <1>3, <1>15, <2>1, KeepsTrans
  <2> DEFINE new == {t} \cup ({} \cup {u}) \cup {}
  <2>3. new \cap Before("valset") = {}
    BY <1>3
  <2> HIDE DEF new
  <2> QED BY <1>3, <2>2, <2>3, StageKept, SMTT(30) DEF new
<1>19. \A x \in Before("proposals") : BuiltFrom(r, x, g)
  BY <1>3, <1>16, <1>17, <1>18
<1> QED BY <1>3, <1>16, <1>18, <1>19 DEF Progress

LEMMA StageOCProposals ==
    ASSUME NEW s, NEW g, Progress(s, g, "proposals"), NEW r \in SetupOCProposals(s, g)
    PROVE  Progress(r, g, "handover")
<1> DEFINE t == "OVERSIGHT_COMMUNITY_PROPOSALS"
           Msg(rules) == [label |-> "OVERSIGHT_COMMUNITY_PROPOSALS", rules |-> rules,
                          group      |-> GetPoEContractAddress(s, "OVERSIGHT_COMMUNITY"),
                          engagement |-> GetPoEContractAddress(s, "ENGAGEMENT"),
                          valset     |-> GetPoEContractAddress(s, "VALSET")]
<1>1. PICK rules \in toContractVotingRules(g.oc.rules) :
         \E q \in InstantiateNew(s, "oc_proposals", t, Msg(rules)) : r = PinLast(q)
  BY DEF SetupOCProposals
<1> DEFINE data == Msg(rules)
<1>2. Linked(t, s.addr, data) /\ Configured(t, s.addr, data, g)
  <2>1. Built(s, "OVERSIGHT_COMMUNITY")
    BY DEF Progress, Before, BuiltFrom
  <2> QED BY <2>1, GetBuilt DEF Linked, Configured, DataFields
<1>3. /\ Shape(s) /\ t \in PoEContractTypes /\ "oc_proposals" \in WasmFiles
      /\ "proposals" \in BootStages /\ t \notin Before("proposals")
      /\ Uses(t) \subseteq Before("proposals")
      /\ Before("handover") = Before("proposals") \cup {t}
      /\ "proposals" \notin HandedOver /\ "handover" \notin HandedOver
      /\ {"ENGAGEMENT", "VALSET"} \subseteq Before("proposals")
  BY TypesAre DEF Progress, WasmFiles, BootStages, Before, Uses, HandedOver
<1> HIDE DEF Msg
<1>4. Added(s, r, t, data) /\ Pinned(r, t)
  <2>1. PICK q \in InstantiateNew(s, "oc_proposals", t, data) : r = PinLast(q)
    BY <1>1
  <2>2. Added(s, q, t, data) /\ q.infos[q.addr[t]].code = Len(q.codes)
    <3>1. Shape(s) /\ t \in PoEContractTypes /\ "oc_proposals" \in WasmFiles
      BY <1>3
    <3> QED BY <2>1, <3>1, NewAdded
  <2> QED BY <1>3, <2>1, <2>2, PinnedAdded
<1>5. /\ Shape(r) /\ (\A u \in Before("handover") : BuiltFrom(r, u, g))
      /\ \A u \in {"ENGAGEMENT", "VALSET"} : Owned(s, u, Bootstrap) => Owned(r, u, Bootstrap)
  BY <1>2, <1>3, <1>4, OneMore
<1> QED BY <1>3, <1>5 DEF Progress

(* The stages after the hand-over: the owner is a contract that is set up. *)
LEMMA StageVoting ==
    ASSUME NEW s, NEW g, Progress(s, g, "voting"), NEW r \in SetupValidatorVoting(s, g)
    PROVE  Progress(r, g, "arbiter")
<1> DEFINE t == "VALIDATOR_VOTING"
           Msg(rules) == [label |-> "VALIDATOR_VOTING", rules |-> rules,
                          group |-> GetPoEContractAddress(s, "DISTRIBUTION")]
<1>1. PICK rules \in toContractVotingRules(g.votingRules) :
         \E q \in InstantiateNew(s, "validator_voting", t, Msg(rules)) :
            r \in SetPrivileged(q, GetPoEContractAddress(q, t))
  BY DEF SetupValidatorVoting, PromoteLast, Then
<1> DEFINE data == Msg(rules)
<1>3. /\ Shape(s) /\ t \in PoEContractTypes /\ "validator_voting" \in WasmFiles
      /\ "voting" \in BootStages /\ t \notin Before("voting")
      /\ Uses(t) \subseteq Before("voting") /\ "DISTRIBUTION" \in Before("voting")
      /\ Before("arbiter") = Before("voting") \cup {t}
      /\ "voting" \in HandedOver /\ "arbiter" \in HandedOver
      /\ {"ENGAGEMENT", "VALSET", "OVERSIGHT_COMMUNITY_PROPOSALS"} \subseteq Before("voting")
  BY TypesAre DEF Progress, WasmFiles, BootStages, Before, Uses, HandedOver
<1>2. Linked(t, s.addr, data) /\ Configured(t, s.addr, data, g)
  <2>1. Built(s, "DISTRIBUTION")
    BY <1>3 DEF Progress, BuiltFrom
  <2> QED BY <2>1, GetBuilt DEF Linked, Configured, DataFields
<1> HIDE DEF Msg
<1>4. Added(s, r, t, data) /\ Pinned(r, t)
  BY <1>1, <1>3, NewAdded, PromotedAdded
<1> DEFINE o == "OVERSIGHT_COMMUNITY_PROPOSALS"
<1>5. /\ Shape(r) /\ (\A u \in Before("arbiter") : BuiltFrom(r, u, g)) /\ r.addr[o] = s.addr[o]
      /\ \A u \in {"ENGAGEMENT", "VALSET"} : Owned(s, u, s.addr[o]) => Owned(r, u, s.addr[o])
  <2>1. /\ Shape(r) /\ \A u \in Before("voting") \cup {t} : BuiltFrom(r, u, g)
        /\ \A u \in Before("voting") : r.addr[u] = s.addr[u]
        /\ \A u \in {"ENGAGEMENT", "VALSET"} \cap Before("voting") :
              \A owner : Owned(s, u, owner) => Owned(r, u, owner)
    <3>1. /\ "voting" \in BootStages /\ t \in PoEContractTypes /\ t \notin Before("voting")
          /\ Uses(t) \subseteq Before("voting")
      BY <1>3
    <3> QED BY <1>2, <1>4, <3>1, OneMore, SMTT(30)
  <2> QED BY <1>3, <2>1
<1> QED BY <1>3, <1>5 DEF Progress

LEMMA StageArbiterVoting ==
    ASSUME NEW s, NEW g, Progress(s, g, "arbiterVoting"), NEW r \in SetupArbiterVoting(s, g)
    PROVE  Progress(r, g, "migrators")
<1> DEFINE t == "ARBITER_POOL_VOTING"
           Msg(rules) == [label |-> "ARBITER_POOL_VOTING", rules |-> rules,
                          group |-> GetPoEContractAddress(s, "ARBITER_POOL"),
                          waitingPeriod |-> Seconds(g.ap.waitingPeriod)]
<1>1. PICK rules \in toContractVotingRules(g.ap.rules) :
         \E q \in InstantiateNew(s, "ap_voting", t, Msg(rules)) : r = PinLast(q)
  BY DEF SetupArbiterVoting
<1> DEFINE data == Msg(rules)
<1>3. /\ Shape(s) /\ t \in PoEContractTypes /\ "ap_voting" \in WasmFiles
      /\ "arbiterVoting" \in BootStages /\ t \notin Before("arbiterVoting")
      /\ Uses(t) \subseteq Before("arbiterVoting") /\ "ARBITER_POOL" \in Before("arbiterVoting")
      /\ Before("migrators") = Before("arbiterVoting") \cup {t}
      /\ "arbiterVoting" \in HandedOver /\ "migrators" \in HandedOver
      /\ {"ENGAGEMENT", "VALSET", "OVERSIGHT_COMMUNITY_PROPOSALS"} \subseteq Before("arbiterVoting")
  BY TypesAre DEF Progress, WasmFiles, BootStages, Before, Uses, HandedOver
<1>2. Linked(t, s.addr, data) /\ Configured(t, s.addr, data, g)
  <2>1. Built(s, "ARBITER_POOL")
    BY <1>3 DEF Progress, BuiltFrom
  <2> QED BY <2>1, GetBuilt DEF Linked, Configured, DataFields
<1> HIDE DEF Msg
<1>4. Added(s, r, t, data) /\ Pinned(r, t)
  <2>1. PICK q \in InstantiateNew(s, "ap_voting", t, data) : r = PinLast(q)
    BY <1>1
  <2>2. Added(s, q, t, data) /\ q.infos[q.addr[t]].code = Len(q.codes)
    <3>1. Shape(s) /\ t \in PoEContractTypes /\ "ap_voting" \in WasmFiles
      BY <1>3
    <3> QED BY <2>1, <3>1, NewAdded
  <2> QED BY <1>3, <2>1, <2>2, PinnedAdded
<1> DEFINE o == "OVERSIGHT_COMMUNITY_PROPOSALS"
<1>5. /\ Shape(r) /\ (\A u \in Before("migrators") : BuiltFrom(r, u, g)) /\ r.addr[o] = s.addr[o]
      /\ \A u \in {"ENGAGEMENT", "VALSET"} : Owned(s, u, s.addr[o]) => Owned(r, u, s.addr[o])
  <2>1. /\ Shape(r) /\ \A u \in Before("arbiterVoting") \cup {t} : BuiltFrom(r, u, g)
        /\ \A u \in Before("arbiterVoting") : r.addr[u] = s.addr[u]
        /\ \A u \in {"ENGAGEMENT", "VALSET"} \cap Before("arbiterVoting") :
              \A owner : Owned(s, u, owner) => Owned(r, u, owner)
    <3>1. /\ "arbiterVoting" \in BootStages /\ t \in PoEContractTypes /\ t \notin Before("arbiterVoting")
          /\ Uses(t) \subseteq Before("arbiterVoting")
      BY <1>3
    <3> QED BY <1>2, <1>4, <3>1, OneMore, SMTT(30)
  <2> QED BY <1>3, <2>1
<1> QED BY <1>3, <1>5 DEF Progress

LEMMA ReownedKept ==
    ASSUME NEW s, Shape(s), NEW r, NEW o \in PoEContractTypes, NEW owner, Reowned(s, r, o, owner),
           NEW g, NEW t \in PoEContractTypes, BuiltFrom(s, t, g)
    PROVE  BuiltFrom(r, t, g)
<1> DEFINE c == s.addr[t]
           d == s.infos[c].data
           e == r.infos[c].data
<1>1. c \in 1 .. Len(s.infos) /\ s.cache[t] = c /\ Linked(t, s.addr, d) /\ Configured(t, s.addr, d, g)
  BY ShapeInfos DEF BuiltFrom, Built
<1>2. /\ r.addr = s.addr /\ r.cache = s.cache /\ r.pinned = s.pinned
      /\ r.infos[c].code = s.infos[c].code /\ c \in DOMAIN r.infos
  BY <1>1, ShapeInfos DEF Reowned, Frame
<1>3. Alike(d, e)
  BY <1>1 DEF Reowned, Alike
<1>4. Linked(t, r.addr, e) /\ Configured(t, r.addr, e, g)
  <2> HIDE DEF d, e
  <2> QED BY <1>1, <1>2, <1>3, LinkedKept
<1> QED BY <1>1, <1>2, <1>4 DEF Built, BuiltFrom

LEMMA StageHandOver ==
    ASSUME NEW s, NEW g, Progress(s, g, "handover"), NEW r \in HandOver(s)
    PROVE  Progress(r, g, "voting")
<1> DEFINE new == GetPoEContractAddress(s, "OVERSIGHT_COMMUNITY_PROPOSALS")
<1>1. PICK q \in UpdateAdmin(s, "ENGAGEMENT", new, Bootstrap) : r \in UpdateAdmin(q, "VALSET", new, Bootstrap)
  BY DEF HandOver, Then
<1>2. /\ Shape(s) /\ {"ENGAGEMENT", "VALSET", "OVERSIGHT_COMMUNITY_PROPOSALS"} \subseteq PoEContractTypes
      /\ Before("voting") = Before("handover") /\ "voting" \in HandedOver
      /\ {"ENGAGEMENT", "VALSET", "OVERSIGHT_COMMUNITY_PROPOSALS"} \subseteq Before("handover")
      /\ Before("handover") \subseteq PoEContractTypes
      /\ "owner" \in DataFields("ENGAGEMENT") /\ "owner" \in DataFields("VALSET")
  BY TypesAre DEF Progress, Before, HandedOver, DataFields
<1>3. \A t \in Before("handover") : BuiltFrom(s, t, g)
  BY DEF Progress
<1>4. new = s.addr["OVERSIGHT_COMMUNITY_PROPOSALS"]
  BY <1>2, <1>3, GetBuilt DEF BuiltFrom
<1> HIDE DEF new
<1>5. Reowned(s, q, "ENGAGEMENT", new) /\ Shape(q)
  <2>1. Reowned(s, q, "ENGAGEMENT", new)
    BY <1>1, <1>2, <1>3, UpdateAdminReowns DEF BuiltFrom, Built
  <2> QED BY <2>1 DEF Reowned, Frame
<1>6. \A t \in Before("handover") : BuiltFrom(q, t, g)
  BY <1>2, <1>3, <1>5, ReownedKept
<1>7. Reowned(q, r, "VALSET", new) /\ Shape(r)
  <2>1. Reowned(q, r, "VALSET", new)
    BY <1>1, <1>2, <1>5, <1>6, UpdateAdminReowns DEF BuiltFrom, Built
  <2> QED BY <2>1 DEF Reowned, Frame
<1>8. \A t \in Before("handover") : BuiltFrom(r, t, g)
  BY <1>2, <1>5, <1>6, <1>7, ReownedKept
<1>9. s.addr["ENGAGEMENT"] \in 1 .. Len(s.infos) /\ s.addr["VALSET"] \in 1 .. Len(s.infos)
  BY <1>2, <1>3, ShapeInfos DEF BuiltFrom, Built
<1>10. /\ "owner" \in DOMAIN s.infos[s.addr["ENGAGEMENT"]].data
       /\ "owner" \in DOMAIN q.infos[q.addr["VALSET"]].data
       /\ "owner" \in DOMAIN q.infos[q.addr["ENGAGEMENT"]].data
  BY <1>2, <1>3, <1>6 DEF BuiltFrom, Built, Linked
<1>11. q.addr = s.addr /\ r.addr = s.addr /\ Len(q.infos) = Len(s.infos)
  BY <1>5, <1>7 DEF Reowned
<1>12. q.infos[s.addr["ENGAGEMENT"]].data.owner = new
  BY <1>5, <1>9, <1>10 DEF Reowned
<1>13. r.infos[s.addr["ENGAGEMENT"]].data.owner = new
  BY <1>7, <1>9, <1>10, <1>11, <1>12 DEF Reowned
<1>14. r.infos[s.addr["VALSET"]].data.owner = new
  BY <1>7, <1>9, <1>10, <1>11 DEF Reowned
<1> QED BY <1>2, <1>4, <1>7, <1>8, <1>11, <1>13, <1>14 DEF Progress, Owned

LEMMA StageArbiterPool ==
    ASSUME NEW s, NEW g, Progress(s, g, "arbiter"), NEW r \in SetupArbiterPool(s, g),
           Len(g.ap.members) - 1 \in Nat
    PROVE  Progress(r, g, "arbiterVoting")
<1> DEFINE t == "ARBITER_POOL"
           o == "OVERSIGHT_COMMUNITY_PROPOSALS"
           code == s.infos[GetPoEContractAddress(s, "OVERSIGHT_COMMUNITY")].code
<1>1. PICK q \in TrustedCircle(s, code, t, g.ap) : r \in addToTrustedCircle(q, t, g.ap)
  BY DEF SetupArbiterPool, Then
<1>2. /\ Shape(s) /\ t \in PoEContractTypes /\ "OVERSIGHT_COMMUNITY" \in Before("arbiter")
      /\ "arbiter" \in BootStages /\ t \notin Before("arbiter") /\ Uses(t) = {}
      /\ Before("arbiterVoting") = Before("arbiter") \cup {t}
      /\ "arbiter" \in HandedOver /\ "arbiterVoting" \in HandedOver
      /\ {"ENGAGEMENT", "VALSET", o} \subseteq Before("arbiter")
  BY TypesAre DEF Progress, BootStages, Before, Uses, HandedOver
<1>3. code \in DOMAIN s.codes /\ code \in s.pinned
  <2> DEFINE u == "OVERSIGHT_COMMUNITY"
  <2>1. BuiltFrom(s, u, g)
    BY <1>2 DEF Progress
  <2>2. Built(s, u) /\ s.infos[s.addr[u]].code \in s.pinned /\ CodesOk(s.codes, s.infos)
    BY <1>2, <2>1 DEF BuiltFrom, Shape
  <2>3. GetPoEContractAddress(s, u) = s.addr[u]
    BY <1>2, <2>2, GetBuilt
  <2>4. s.addr[u] \in DOMAIN s.infos
    BY <2>2 DEF Built
  <2> QED BY <2>2, <2>3, <2>4 DEF CodesOk
<1> HIDE DEF code
<1>4. PICK data : IsCircle(s, q, code, t, data)
  BY <1>1, <1>2, <1>3, CircleAdded
<1>5. Added(s, q, t, data) /\ Pinned(q, t)
  BY <1>3, <1>4 DEF IsCircle, Added, Keeps, Pinned
<1>6. Keeps(q, r, {})
  BY <1>1, <1>5, TrustedCircleKeeps DEF Added, Keeps, Frame
<1>7. Added(s, r, t, data) /\ Pinned(r, t)
  BY <1>2, <1>5, <1>6, AddedKept
<1>8. Linked(t, s.addr, data) /\ Configured(t, s.addr, data, g)
  BY <1>4, CircleLinked DEF IsCircle
<1>9. /\ Shape(r) /\ (\A u \in Before("arbiterVoting") : BuiltFrom(r, u, g)) /\ r.addr[o] = s.addr[o]
      /\ \A u \in {"ENGAGEMENT", "VALSET"} : Owned(s, u, s.addr[o]) => Owned(r, u, s.addr[o])
  <2>1. /\ Shape(r) /\ \A u \in Before("arbiter") \cup {t} : BuiltFrom(r, u, g)
        /\ \A u \in Before("arbiter") : r.addr[u] = s.addr[u]
        /\ \A u \in {"ENGAGEMENT", "VALSET"} \cap Before("arbiter") :
              \A owner : Owned(s, u, owner) => Owned(r, u, owner)
    <3>1. /\ "arbiter" \in BootStages /\ t \in PoEContractTypes /\ t \notin Before("arbiter")
          /\ Uses(t) \subseteq Before("arbiter")
      BY <1>2
    <3> QED BY <1>7, <1>8, <3>1, OneMore, SMTT(30)
  <2> QED BY <1>2, <2>1
<1> QED BY <1>2, <1>9 DEF Progress

LEMMA StageMigrators ==
    ASSUME NEW s, NEW g, Progress(s, g, "migrators"), NEW r \in setAllPoEContractsInstanceMigrators(s)
    PROVE  Progress(r, g, "gentx")
<1> DEFINE n == Len(PoEContractTypeList)
           o == "OVERSIGHT_COMMUNITY_PROPOSALS"
<1>1. n \in Nat /\ Shape(s)
  BY TypesAre, SMTT(30) DEF Progress
<1>2. PICK f : MigratorRounds(f, s)
  BY <1>1, MigratorLoop
<1>3. \A q \in f[0] : Keeps(s, q, {})
  BY <1>1, <1>2, KeepsRefl DEF MigratorRounds
<1>4. \A i \in 1 .. n : \A p \in f[i] : \E q \in f[i - 1] : Shape(q) => Keeps(q, p, {})
  BY <1>2, MigratorKeeps, KeepsFromData, SMTT(30) DEF MigratorRounds
<1>5. r \in f[n]
  BY <1>2 DEF MigratorRounds
<1> HIDE DEF n
<1>6. Keeps(s, r, {})
  BY <1>1, <1>3, <1>4, <1>5, KeepsLoop
<1>7. /\ {"migrators", "gentx"} \subseteq BootStages \cap HandedOver
      /\ Before("gentx") = PoEContractTypes /\ Before("migrators") = PoEContractTypes
      /\ {"ENGAGEMENT", "VALSET", o} \subseteq PoEContractTypes
  BY TypesAre DEF BootStages, HandedOver, Before
<1>8. /\ Shape(r)
      /\ \A t \in PoEContractTypes : BuiltFrom(r, t, g) /\ r.addr[t] = s.addr[t]
      /\ \A t \in {"ENGAGEMENT", "VALSET"} : Owned(s, t, s.addr[o]) => Owned(r, t, s.addr[o])
  BY <1>6, <1>7, StageKept, SMTT(30)
<1> QED BY <1>7, <1>8 DEF Progress

(* The genesis transactions leave what the bootstrap set up.               *)
LEMMA StageGenTx ==
    ASSUME NEW s, NEW g, Progress(s, g, "gentx"), Len(g.gentxs) \in Nat, NEW r \in DeliverGenTxs(s, g)
    PROVE  Complete(r, g) /\ AllPinned(r)
<1> DEFINE o == "OVERSIGHT_COMMUNITY_PROPOSALS"
<1>1. Shape(s) /\ Keeps(s, r, {})
  BY GenTxsKeep DEF Progress
<1>2. /\ "gentx" \in BootStages \cap HandedOver
      /\ Before("gentx") = PoEContractTypes
      /\ {"ENGAGEMENT", "VALSET", o} \subseteq PoEContractTypes
  BY TypesAre DEF BootStages, HandedOver, Before
<1>3. /\ Shape(r)
      /\ \A t \in PoEContractTypes : BuiltFrom(r, t, g) /\ r.addr[t] = s.addr[t]
      /\ \A t \in {"ENGAGEMENT", "VALSET"} : Owned(s, t, s.addr[o]) => Owned(r, t, s.addr[o])
  BY <1>1, <1>2, StageKept, SMTT(30)
<1> QED BY <1>2, <1>3 DEF Progress, Complete, AllPinned, BuiltFrom

-----------------------------------------------------------------------------
(* The import.                                                             *)

TwasmOk(d) ==
    /\ d.codes \in Seq(DOMAIN PromoteRequests)
    /\ d.contracts \in Seq(Range(d.contracts))
    /\ \A c \in DOMAIN d.contracts : /\ InfoOk(d.contracts[c].info)
                                     /\ d.contracts[c].info.code \in DOMAIN d.codes
                                     /\ d.contracts[c].model.asks \in Seq(PrivilegeTypes)
    /\ Len(d.privilegedContractAddresses) \in Nat

KindsOk(d) ==
    \A c \in DOMAIN d.contracts :
        d.contracts[c].model.kind
        = IF HasRegisteredPrivilege(d.contracts[c].info.details, Exporter) THEN "custom" ELSE "kv"

(* After k rounds of the import.                                           *)
Restored(r, d, k) ==
    /\ Shape(r)
    /\ \A c \in 1 .. Len(d.contracts) :
          /\ c \in 1 .. Len(r.infos)
          /\ KindsOk(d) /\ (c <= k \/ d.contracts[c].model.kind = "kv") =>
                r.infos[c].data = d.contracts[c].model.data

LEMMA RawRestored ==
    ASSUME NEW s, Shape(s), NEW d, TwasmOk(d) PROVE Restored(RawWasmState(s, d), d, 0)
<1> DEFINE n == Len(d.contracts)
           r == RawWasmState(s, d)
           x(c) == [d.contracts[c].info EXCEPT
                       !.data = IF d.contracts[c].model.kind = "kv" THEN d.contracts[c].model.data
                                ELSE NoData]
<1>1. n \in Nat /\ DOMAIN d.contracts = 1 .. n
  BY SMTT(30) DEF TwasmOk
<1>2. /\ DOMAIN r = Fields /\ r.addr = s.addr /\ r.cache = s.cache /\ r.codes = d.codes
      /\ r.infos = [c \in 1 .. n |-> RawWasmInfo(d.contracts[c])]
  BY <1>1 DEF RawWasmState, Shape, Fields
<1> HIDE DEF r
<1>3. \A c \in 1 .. n : RawWasmInfo(d.contracts[c]) = x(c)
  BY DEF RawWasmInfo
<1>4. \A c \in 1 .. n : /\ InfoOk(x(c)) /\ x(c).code = d.contracts[c].info.code
                        /\ d.contracts[c].model.kind = "kv" => x(c).data = d.contracts[c].model.data
  BY <1>1 DEF TwasmOk, InfoOk, InfoFields
<1> HIDE DEF x, n
<1>5. \A c \in 1 .. n : r.infos[c] = x(c)
  BY <1>2, <1>3
<1>6. CodesOk(r.codes, r.infos)
  BY <1>1, <1>2, <1>4, <1>5, SMTT(30) DEF CodesOk, TwasmOk
<1>7. r.infos = [c \in 1 .. n |-> r.infos[c]]
  BY <1>2
<1>8. Shape(r) /\ Len(r.infos) = n
  <2>1. DOMAIN r.addr = PoEContractTypes /\ DOMAIN r.cache = PoEContractTypes
    BY <1>2 DEF Shape
  <2>2. \A c \in 1 .. n : InfoOk(r.infos[c])
    BY <1>4, <1>5
  <2> QED BY <1>1, <1>2, <1>6, <1>7, <2>1, <2>2, ShapeFrom DEF n
<1>9. \A c \in 1 .. n : ~(c <= 0)
  BY <1>1, SMTT(30)
<1> QED BY <1>1, <1>4, <1>5, <1>8, <1>9 DEF Restored, n, r

LEMMA importPrivilegedGrows ==
    ASSUME NEW s, Shape(s), NEW c, NEW r \in importPrivileged(s, c)
    PROVE  Grows(s, r)
<1> DEFINE p == PinCode(s, s.infos[c].code)
           entries == Range(s.infos[c].details)
           index == [e \in Entry |-> IF e \in entries THEN c ELSE p.index[e]]
<1>1. r = [p EXCEPT !.privileged = @ \cup {c}, !.index = index]
  BY DEF importPrivileged
<1>2. Grows(s, p) /\ Shape(p)
  BY PinKeeps DEF Grows, Keeps, Frame
<1> HIDE DEF p, index
<1>3. /\ DOMAIN r = Fields /\ r.infos = p.infos /\ r.addr = p.addr /\ r.cache = p.cache
      /\ r.height = p.height /\ r.codes = p.codes /\ r.pinned = p.pinned
  BY <1>1, <1>2 DEF Shape, Fields
<1>4. Grows(p, r)
  BY <1>2, <1>3, Untouched DEF Grows, Shape
<1> QED BY <1>2, <1>4, GrowsTrans

LEMMA RestoredGrows ==
    ASSUME NEW s, NEW d, NEW k, Restored(s, d, k), NEW r, Grows(s, r) PROVE Restored(r, d, k)
<1>1. /\ Shape(s) /\ Shape(r) /\ Len(s.infos) \in Nat /\ Len(r.infos) \in Nat
      /\ Len(r.infos) >= Len(s.infos)
      /\ \A c \in 1 .. Len(s.infos) : r.infos[c].data = s.infos[c].data
  BY ShapeInfos DEF Restored, Grows, KeepsData, Frame
<1>2. \A c \in 1 .. Len(s.infos) : c \in 1 .. Len(r.infos)
  BY <1>1, SMTT(30)
<1> QED BY <1>1, <1>2 DEF Restored

LEMMA RestoredNext ==
    ASSUME NEW s, NEW d, NEW n \in 1 .. Len(d.contracts), Restored(s, d, n - 1),
           Len(d.contracts) \in Nat,
           KindsOk(d) => s.infos[n].data = d.contracts[n].model.data
    PROVE  Restored(s, d, n)
<1>1. \A c \in 1 .. Len(d.contracts) : c <= n => c <= n - 1 \/ c = n
  BY SMTT(30)
<1> QED BY <1>1 DEF Restored

LEMMA ImportContractRestores ==
    ASSUME NEW s, NEW d, TwasmOk(d), NEW n \in 1 .. Len(d.contracts), Restored(s, d, n - 1),
           NEW r \in ImportContract(s, d, n)
    PROVE  Restored(r, d, n)
<1> DEFINE m == d.contracts[n].model
           details == d.contracts[n].info.details
           custom == HasRegisteredPrivilege(details, Exporter)
<1>1. /\ Len(d.contracts) \in Nat /\ n \in DOMAIN d.contracts /\ Shape(s) /\ n \in 1 .. Len(s.infos)
      /\ KindsOk(d) /\ m.kind = "kv" => s.infos[n].data = m.data
      /\ KindsOk(d) => m.kind = IF custom THEN "custom" ELSE "kv"
      /\ m.asks \in Seq(PrivilegeTypes)
  <2>1. Len(d.contracts) \in Nat /\ DOMAIN d.contracts = 1 .. Len(d.contracts)
    BY SMTT(30) DEF TwasmOk
  <2> QED BY <2>1 DEF Restored, KindsOk, TwasmOk
<1>2. CASE details = <<>>
  <2>1. r = s
    BY <1>2 DEF ImportContract
  <2>2. ~custom
    BY <1>2, SMTT(30) DEF HasRegisteredPrivilege
  <2> QED BY <1>1, <2>1, <2>2, RestoredNext
<1>3. CASE details # <<>>
  <2>1. PICK p \in importPrivileged(s, n) :
           r \in IF ~custom THEN {p} ELSE IF m.kind # "custom" THEN {}
                 ELSE Sudo([p EXCEPT !.infos[n].data = m.data], n, m.asks)
    BY <1>3 DEF ImportContract, Then
  <2>2. Restored(p, d, n - 1) /\ Shape(p) /\ p.infos[n].data = s.infos[n].data
    <3>1. Grows(s, p)
      BY <1>1, importPrivilegedGrows
    <3>2. Restored(p, d, n - 1)
      BY <3>1, RestoredGrows
    <3> QED BY <1>1, <3>1, <3>2 DEF Restored, Grows, KeepsData
  <2>3. CASE ~custom
    BY <1>1, <2>1, <2>2, <2>3, RestoredNext, SMTT(30)
  <2>4. CASE custom
    <3> DEFINE q == [p EXCEPT !.infos[n].data = m.data]
    <3>1. r \in Sudo(q, n, m.asks)
      BY <2>1, <2>4
    <3>2. DataSet(p, q, n, m.data)
      BY <2>2 DEF DataSet, Shape, Fields
    <3> HIDE DEF q, m
    <3>3. /\ Shape(q) /\ Len(q.infos) = Len(p.infos) /\ n \in 1 .. Len(p.infos)
          /\ \A c \in 1 .. Len(p.infos) : q.infos[c].data = IF c = n THEN m.data ELSE p.infos[c].data
      BY <2>2, <3>2, DataChange, SMTT(30) DEF Frame, Restored
    <3>4. Restored(q, d, n - 1)
      BY <2>2, <3>3 DEF Restored, m
    <3>5. Restored(q, d, n)
      BY <1>1, <3>3, <3>4, RestoredNext DEF m
    <3> QED BY <1>1, <3>1, <3>3, <3>5, SudoGrows, RestoredGrows
  <2> QED BY <2>3, <2>4
<1> QED BY <1>2, <1>3

LEMMA ImportAllRestores ==
    ASSUME NEW s, NEW d, TwasmOk(d), Restored(s, d, 0), NEW r \in ImportAll(s, d)
    PROVE  Restored(r, d, Len(d.contracts))
<1> DEFINE n == Len(d.contracts)
<1>1. n \in Nat
  BY SMTT(30) DEF TwasmOk
<1>2. PICK f : ImportRounds(f, s, d)
  BY <1>1, ImportLoop
<1> DEFINE H == {k \in 0 .. n : \A q \in f[k] : Restored(q, d, k)}
<1>3. 0 \in H
  BY <1>1, <1>2, SMTT(30) DEF ImportRounds
<1>4. ASSUME NEW k \in 1 .. n, k - 1 \in H PROVE k \in H
  <2>1. ASSUME NEW q \in f[k] PROVE Restored(q, d, k)
    <3>1. PICK p \in f[k - 1] : q \in ImportContract(p, d, k)
      BY <1>2, SMTT(30) DEF ImportRounds
    <3> QED BY <1>4, <3>1, ImportContractRestores
  <2> QED BY <1>1, <2>1, SMTT(30)
<1>5. r \in f[n]
  BY <1>2 DEF ImportRounds
<1> HIDE DEF H
<1>6. \A k \in 0 .. n : k \in H
  BY <1>1, <1>3, <1>4, UpToInduction
<1>7. n \in H
  BY <1>1, <1>6, SMTT(30)
<1> QED BY <1>5, <1>7 DEF H

(* InitGenesis of twasm.                                                   *)
LEMMA TwasmImported ==
    ASSUME NEW s, Shape(s), NEW d, TwasmOk(d), NEW r \in InitTwasmGenesis(s, d)
    PROVE  Restored(r, d, Len(d.contracts))
<1> DEFINE raw == RawWasmState(s, d)
           stores == ImportAll(raw, d)
           n == Len(d.contracts)
           addresses == d.privilegedContractAddresses
<1>1. PICK q \in SetAllPrivileged(stores, addresses) :
         r = [q EXCEPT !.pinned = @ \cup Range(d.pinnedCodeIDs)]
  BY DEF InitTwasmGenesis
<1>2. \A p \in stores : Restored(p, d, n)
  BY RawRestored, ImportAllRestores
<1>3. PICK f : PromoteRounds(f, stores, addresses)
  BY PromoteLoop DEF TwasmOk
<1> DEFINE H == {k \in 0 .. Len(addresses) : \A p \in f[k] : Restored(p, d, n)}
<1>4. 0 \in H /\ Len(addresses) \in Nat
  BY <1>2, <1>3, SMTT(30) DEF PromoteRounds, TwasmOk
<1>5. ASSUME NEW k \in 1 .. Len(addresses), k - 1 \in H PROVE k \in H
  <2>1. ASSUME NEW p \in f[k] PROVE Restored(p, d, n)
    <3>1. PICK o \in f[k - 1] : p \in SetPrivileged(o, addresses[k])
      BY <1>3, SMTT(30) DEF PromoteRounds
    <3>2. Restored(o, d, n) /\ Shape(o)
      BY <1>5 DEF Restored
    <3> QED BY <3>1, <3>2, SetPrivilegedGrows, RestoredGrows
  <2> QED BY <1>4, <2>1, SMTT(30)
<1>6. q \in f[Len(addresses)]
  BY <1>1, <1>3 DEF PromoteRounds
<1> HIDE DEF H
<1>7. \A k \in 0 .. Len(addresses) : k \in H
  BY <1>4, <1>5, UpToInduction
<1>8. Restored(q, d, n) /\ Shape(q)
  BY <1>4, <1>6, <1>7, SMTT(30) DEF H, Restored
<1>9. Grows(q, r)
  <2>1. /\ DOMAIN r = Fields /\ r.infos = q.infos /\ r.addr = q.addr /\ r.cache = q.cache
        /\ r.height = q.height /\ r.codes = q.codes /\ q.pinned \subseteq r.pinned
    BY <1>1, <1>8 DEF Shape, Fields
  <2> QED BY <1>8, <2>1, Untouched DEF Grows, Shape
<1> QED BY <1>8, <1>9, RestoredGrows

-----------------------------------------------------------------------------
(* Details, flags and index after an import.                               *)

(* A list begins with another one.                                         *)
Starts(new, old) == Len(old) <= Len(new) /\ \A i \in 1 .. Len(old) : new[i] = old[i]

(* A contract is at the keys of its privileges, and has the flag.          *)
Indexed(r, c) ==
    /\ \A e \in Range(r.infos[c].details) : r.index[e] = c
    /\ r.infos[c].details # <<>> => c \in r.privileged

(* After k rounds of the import.                                           *)
Fits(r, d, k) ==
    /\ Shape(r) /\ DOMAIN r.index = Entry
    /\ Len(r.infos) = Len(d.contracts)
    /\ r.codes = d.codes /\ d.pinned \subseteq r.pinned
    /\ \A c \in 1 .. Len(d.contracts) :
          /\ r.infos[c].admin = d.contracts[c].info.admin
          /\ Starts(r.infos[c].details, d.contracts[c].info.details)
          /\ c <= k => Indexed(r, c)
          /\ ~(c <= k) => r.infos[c].details = d.contracts[c].info.details

LEMMA StartsMore ==
    ASSUME NEW old \in Seq(Entry), NEW new \in Seq(Entry), NEW e \in Entry, Starts(new, old)
    PROVE  /\ Starts(Append(new, e), old) /\ Starts(old, old)
           /\ \A x \in Range(Append(new, e)) : x \in Range(new) \/ x = e
<1>1. Len(old) \in Nat /\ Len(new) \in Nat /\ Len(Append(new, e)) = Len(new) + 1
      /\ (\A i \in 1 .. Len(new) : Append(new, e)[i] = new[i]) /\ Append(new, e)[Len(new) + 1] = e
      /\ DOMAIN Append(new, e) = 1 .. Len(new) + 1 /\ DOMAIN new = 1 .. Len(new)
  BY SMTT(30)
<1>2. Starts(Append(new, e), old) /\ Starts(old, old)
  BY <1>1, SMTT(30) DEF Starts
<1>3. \A i \in 1 .. Len(new) + 1 : i \in 1 .. Len(new) \/ i = Len(new) + 1
  BY <1>1, SMTT(30)
<1> QED BY <1>1, <1>2, <1>3 DEF Range

LEMMA SameLength ==
    ASSUME NEW s, Shape(s), NEW r, Shape(r), DOMAIN r.infos = DOMAIN s.infos
    PROVE  Len(r.infos) = Len(s.infos)
<1>1. /\ Len(s.infos) \in Nat /\ DOMAIN s.infos = 1 .. Len(s.infos)
      /\ Len(r.infos) \in Nat /\ DOMAIN r.infos = 1 .. Len(r.infos)
  BY ShapeInfos
<1> QED BY <1>1, SMTT(30)

(* The lists of a store.                                                   *)
LEMMA DetailsOk ==
    ASSUME NEW s, Shape(s), NEW c \in 1 .. Len(s.infos)
    PROVE  /\ s.infos[c].details \in Seq(Entry) /\ Range(s.infos[c].details) \subseteq Entry
           /\ DOMAIN s.infos[c] = InfoFields /\ c \in DOMAIN s.infos
<1> DEFINE l == s.infos[c].details
<1>1. l \in Seq(Entry) /\ DOMAIN s.infos[c] = InfoFields /\ c \in DOMAIN s.infos
  BY ShapeInfos DEF Shape, InfoOk
<1> HIDE DEF l
<1>2. Range(l) \subseteq Entry
  BY <1>1, SMTT(30) DEF Range
<1> QED BY <1>1, <1>2 DEF l

(* Neither lists nor index nor flags change.                               *)
LEMMA FitsKept ==
    ASSUME NEW s, NEW d, NEW k, Fits(s, d, k), NEW r, Shape(r), DOMAIN r.infos = DOMAIN s.infos,
           r.index = s.index, r.privileged = s.privileged, r.codes = s.codes,
           s.pinned \subseteq r.pinned,
           \A c \in 1 .. Len(s.infos) : /\ r.infos[c].admin = s.infos[c].admin
                                        /\ r.infos[c].details = s.infos[c].details
    PROVE  Fits(r, d, k)
<1>1. Len(r.infos) = Len(s.infos) /\ Len(s.infos) = Len(d.contracts)
  BY SameLength DEF Fits
<1>2. \A c \in 1 .. Len(d.contracts) : Indexed(s, c) => Indexed(r, c)
  BY <1>1 DEF Indexed
<1> QED BY <1>1, <1>2 DEF Fits

LEMMA RequestFits ==
    ASSUME NEW s, NEW d, TwasmOk(d), NEW k, Fits(s, d, k), NEW c \in 1 .. Len(d.contracts), c <= k,
           NEW t \in PrivilegeTypes, NEW r \in RequestPrivilege(s, c, t)
    PROVE  Fits(r, d, k)
<1> SUFFICES ASSUME r # s PROVE Fits(r, d, k)
  OBVIOUS
<1>1. PICK e \in Entry : Gets(s, r, c, e)
  BY Granted
<1>2. Shape(s) /\ Len(s.infos) = Len(d.contracts) /\ DOMAIN s.index = Entry
  BY DEF Fits
<1>3. Shape(r)
  BY <1>2, RequestGrows DEF Grows, KeepsData, Frame
<1>4. /\ r.index = [s.index EXCEPT ![e] = c] /\ r.privileged = s.privileged
      /\ r.codes = s.codes /\ r.pinned = s.pinned
      /\ r.infos = [s.infos EXCEPT ![c] = [s.infos[c] EXCEPT !.details = Append(@, e)]]
  BY <1>1, <1>2 DEF Gets, Shape, Fields
<1>5. Len(r.infos) = Len(s.infos)
  BY <1>2, <1>3, <1>4, SameLength
<1>6. /\ \A i \in 1 .. Len(s.infos) : i # c => r.infos[i] = s.infos[i]
      /\ r.infos[c].admin = s.infos[c].admin
      /\ r.infos[c].details = Append(s.infos[c].details, e)
  <2>1. c \in DOMAIN s.infos /\ DOMAIN s.infos[c] = InfoFields
    BY <1>2, DetailsOk
  <2>2. DOMAIN s.infos = 1 .. Len(s.infos)
    BY <1>2, ShapeInfos
  <2>3. r.infos[c] = [s.infos[c] EXCEPT !.details = Append(@, e)]
    BY <1>4, <2>1
  <2>4. r.infos[c].admin = s.infos[c].admin /\ r.infos[c].details = Append(s.infos[c].details, e)
    BY <2>1, <2>3 DEF InfoFields
  <2>5. \A i \in 1 .. Len(s.infos) : i # c => r.infos[i] = s.infos[i]
    BY <1>4, <2>2
  <2> QED BY <2>4, <2>5
<1>7. /\ s.index[e] = 0 /\ r.index[e] = c /\ c \in r.privileged
      /\ \A x \in Entry : s.index[x] # 0 => r.index[x] = s.index[x]
  <2>1. s.index[e] = 0 /\ c \in s.privileged
    BY <1>1 DEF Gets
  <2> QED BY <1>2, <1>4, <2>1
<1>8. ASSUME NEW i \in 1 .. Len(d.contracts)
      PROVE  /\ r.infos[i].admin = d.contracts[i].info.admin
             /\ Starts(r.infos[i].details, d.contracts[i].info.details)
             /\ i <= k => Indexed(r, i)
             /\ ~(i <= k) => r.infos[i].details = d.contracts[i].info.details
  <2>1. /\ s.infos[i].admin = d.contracts[i].info.admin
        /\ Starts(s.infos[i].details, d.contracts[i].info.details)
        /\ i <= k => Indexed(s, i)
        /\ ~(i <= k) => s.infos[i].details = d.contracts[i].info.details
    BY DEF Fits
  <2>2. i # 0 /\ s.infos[i].details \in Seq(Entry) /\ Range(s.infos[i].details) \subseteq Entry
        /\ d.contracts[i].info.details \in Seq(Entry)
    <3>1. i \in DOMAIN d.contracts
      BY SMTT(30) DEF TwasmOk
    <3>2. i # 0
      BY SMTT(30)
    <3> QED BY <1>2, <3>1, <3>2, DetailsOk DEF TwasmOk, InfoOk
  <2>3. i <= k => \A x \in Range(s.infos[i].details) : r.index[x] = i
    BY <1>7, <2>1, <2>2 DEF Indexed
  <2>4. CASE i # c
    <3>1. r.infos[i] = s.infos[i]
      BY <1>2, <1>6, <2>4
    <3>2. i <= k => Indexed(r, i)
      BY <1>4, <2>1, <2>3, <3>1 DEF Indexed
    <3> QED BY <2>1, <3>1, <3>2
  <2>5. CASE i = c
    <3> DEFINE new == s.infos[c].details
               old == d.contracts[c].info.details
    <3>1. old \in Seq(Entry) /\ new \in Seq(Entry) /\ Starts(new, old)
      BY <2>1, <2>2, <2>5
    <3> HIDE DEF new, old
    <3>2. Starts(Append(new, e), old) /\ \A x \in Range(Append(new, e)) : x \in Range(new) \/ x = e
      BY <3>1, StartsMore
    <3>3. Indexed(r, c)
      BY <1>6, <1>7, <2>3, <2>5, <3>2 DEF Indexed, new
    <3> QED BY <1>6, <2>1, <2>5, <3>2, <3>3 DEF new, old
  <2> QED BY <2>4, <2>5
<1> QED BY <1>2, <1>3, <1>4, <1>5, <1>7, <1>8 DEF Fits

LEMMA SudoFits ==
    ASSUME NEW s, NEW d, TwasmOk(d), NEW k, Fits(s, d, k), NEW c \in 1 .. Len(d.contracts), c <= k,
           NEW types \in Seq(PrivilegeTypes), NEW r \in Sudo(s, c, types)
    PROVE  Fits(r, d, k)
<1> DEFINE n == Len(types)
<1>1. n \in Nat /\ \A i \in 1 .. n : types[i] \in PrivilegeTypes
  BY SMTT(30)
<1>2. PICK f : SudoRounds(f, s, c, types)
  BY <1>1, SudoLoop
<1> DEFINE H == {i \in 0 .. n : \A q \in f[i] : Fits(q, d, k)}
<1>3. 0 \in H
  BY <1>1, <1>2, SMTT(30) DEF SudoRounds
<1>4. ASSUME NEW i \in 1 .. n, i - 1 \in H PROVE i \in H
  <2>1. ASSUME NEW q \in f[i] PROVE Fits(q, d, k)
    <3>1. PICK p \in f[i - 1] : q \in RequestPrivilege(p, c, types[i])
      BY <1>2, SMTT(30) DEF SudoRounds
    <3> QED BY <1>1, <1>4, <3>1, RequestFits
  <2> QED BY <1>1, <2>1, SMTT(30)
<1>5. r \in f[n]
  BY <1>2 DEF SudoRounds
<1> HIDE DEF H
<1>6. \A i \in 0 .. n : i \in H
  BY <1>1, <1>3, <1>4, UpToInduction
<1>7. n \in H
  BY <1>1, <1>6, SMTT(30)
<1> QED BY <1>5, <1>7 DEF H

(* The privileges of a contract are taken over from the genesis file.      *)
LEMMA importPrivilegedFits ==
    ASSUME NEW s, NEW d, TwasmOk(d), NEW n \in 1 .. Len(d.contracts), Fits(s, d, n - 1),
           NEW r \in importPrivileged(s, n)
    PROVE  Fits(r, d, n)
<1> DEFINE entries == Range(s.infos[n].details)
<1>1. Shape(s) /\ Len(s.infos) = Len(d.contracts) /\ DOMAIN s.index = Entry
  BY DEF Fits
<1>2. Shape(r)
  BY <1>1, importPrivilegedGrows DEF Grows, KeepsData, Frame
<1>3. /\ \A e \in entries : s.index[e] = 0
      /\ r.index = [e \in Entry |-> IF e \in entries THEN n ELSE s.index[e]]
      /\ r.privileged = s.privileged \cup {n} /\ r.codes = s.codes /\ s.pinned \subseteq r.pinned
      /\ r.infos = s.infos
  <2> DEFINE p == PinCode(s, s.infos[n].code)
             index == [e \in Entry |-> IF e \in entries THEN n ELSE p.index[e]]
  <2>1. r = [p EXCEPT !.privileged = @ \cup {n}, !.index = index] /\ \A e \in entries : s.index[e] = 0
    BY DEF importPrivileged
  <2>2. /\ DOMAIN p = Fields /\ p.infos = s.infos /\ p.index = s.index /\ p.privileged = s.privileged
        /\ p.codes = s.codes /\ s.pinned \subseteq p.pinned
    BY <1>1 DEF PinCode, Shape, Fields
  <2> HIDE DEF p
  <2>3. /\ r.index = index /\ r.privileged = p.privileged \cup {n} /\ r.codes = p.codes
        /\ r.pinned = p.pinned /\ r.infos = p.infos
    <3> HIDE DEF index
    <3> QED BY <2>1, <2>2 DEF Fields
  <2> QED BY <2>1, <2>2, <2>3
<1>4. ASSUME NEW i \in 1 .. Len(d.contracts)
      PROVE  /\ i <= n => Indexed(r, i)
             /\ ~(i <= n) => ~(i <= n - 1)
  <2>1. i # 0 /\ (i <= n => i <= n - 1 \/ i = n) /\ (~(i <= n) => ~(i <= n - 1)) /\ ~(n <= n - 1)
    <3>1. Len(d.contracts) \in Nat
      BY SMTT(30) DEF TwasmOk
    <3> QED BY <3>1, SMTT(30)
  <2>2. Range(s.infos[i].details) \subseteq Entry
    BY <1>1, DetailsOk
  <2>3. CASE i = n
    BY <1>3, <2>1, <2>2, <2>3 DEF Indexed
  <2>4. CASE i # n /\ i <= n
    <3>1. Indexed(s, i)
      BY <2>1, <2>4 DEF Fits
    <3>2. \A e \in Range(s.infos[i].details) : s.index[e] = i /\ e \in Entry /\ e \notin entries
      BY <1>3, <2>1, <2>2, <3>1 DEF Indexed
    <3> QED BY <1>3, <2>1, <3>1, <3>2 DEF Indexed
  <2> QED BY <2>1, <2>3, <2>4
<1>5. DOMAIN r.index = Entry
  BY <1>3
<1> QED BY <1>1, <1>2, <1>3, <1>4, <1>5 DEF Fits

LEMMA ImportContractFits ==
    ASSUME NEW s, NEW d, TwasmOk(d), NEW n \in 1 .. Len(d.contracts), Fits(s, d, n - 1),
           NEW r \in ImportContract(s, d, n)
    PROVE  Fits(r, d, n)
<1> DEFINE m == d.contracts[n].model
           details == d.contracts[n].info.details
           custom == HasRegisteredPrivilege(details, Exporter)
<1>1. /\ Len(d.contracts) \in Nat /\ n \in DOMAIN d.contracts /\ Shape(s) /\ Len(s.infos) = Len(d.contracts)
      /\ m.asks \in Seq(PrivilegeTypes) /\ n <= n /\ ~(n <= n - 1)
      /\ \A i \in 1 .. Len(d.contracts) : i <= n => i <= n - 1 \/ i = n
  <2>1. Len(d.contracts) \in Nat /\ DOMAIN d.contracts = 1 .. Len(d.contracts)
    BY SMTT(30) DEF TwasmOk
  <2>2. n <= n /\ ~(n <= n - 1) /\ \A i \in 1 .. Len(d.contracts) : i <= n => i <= n - 1 \/ i = n
    BY <2>1, SMTT(30)
  <2> QED BY <2>1, <2>2 DEF Fits, TwasmOk
<1>2. CASE details = <<>>
  <2>1. r = s
    BY <1>2 DEF ImportContract
  <2>2. s.infos[n].details = <<>>
    BY <1>1, <1>2 DEF Fits
  <2>3. Range(<<>>) = {}
    BY SMTT(30) DEF Range
  <2>4. Indexed(s, n)
    BY <2>2, <2>3 DEF Indexed
  <2>5. \A i \in 1 .. Len(d.contracts) : ~(i <= n) => ~(i <= n - 1)
    BY <1>1, SMTT(30)
  <2> QED BY <1>1, <2>1, <2>4, <2>5 DEF Fits
<1>3. CASE details # <<>>
  <2>1. PICK p \in importPrivileged(s, n) :
           r \in IF ~custom THEN {p} ELSE IF m.kind # "custom" THEN {}
                 ELSE Sudo([p EXCEPT !.infos[n].data = m.data], n, m.asks)
    BY <1>3 DEF ImportContract, Then
  <2>2. Fits(p, d, n) /\ Shape(p) /\ n \in 1 .. Len(p.infos)
    <3>1. Fits(p, d, n)
      BY importPrivilegedFits
    <3> QED BY <3>1 DEF Fits
  <2>3. CASE ~custom
    BY <2>1, <2>2, <2>3
  <2>4. CASE custom
    <3> DEFINE q == [p EXCEPT !.infos[n].data = m.data]
    <3>1. r \in Sudo(q, n, m.asks)
      BY <2>1, <2>4
    <3>2. /\ DataSet(p, q, n, m.data) /\ DOMAIN q.infos = DOMAIN p.infos
          /\ q.index = p.index /\ q.privileged = p.privileged /\ q.codes = p.codes /\ q.pinned = p.pinned
          /\ q.infos = [p.infos EXCEPT ![n] = [p.infos[n] EXCEPT !.data = m.data]]
      BY <2>2 DEF DataSet, Shape, Fields
    <3> HIDE DEF q, m
    <3>3. Shape(q)
      BY <2>2, <3>2, DataChange DEF Frame
    <3>4. \A c \in 1 .. Len(p.infos) : /\ q.infos[c].admin = p.infos[c].admin
                                       /\ q.infos[c].details = p.infos[c].details
      <4>1. n \in DOMAIN p.infos /\ DOMAIN p.infos[n] = InfoFields /\ DOMAIN p.infos = 1 .. Len(p.infos)
        BY <2>2, DetailsOk, ShapeInfos
      <4>2. q.infos[n] = [p.infos[n] EXCEPT !.data = m.data]
        BY <3>2, <4>1
      <4>3. q.infos[n].admin = p.infos[n].admin /\ q.infos[n].details = p.infos[n].details
        BY <4>1, <4>2 DEF InfoFields
      <4>4. \A c \in 1 .. Len(p.infos) : c # n => q.infos[c] = p.infos[c]
        BY <3>2, <4>1
      <4> QED BY <4>3, <4>4
    <3>5. Fits(q, d, n)
      BY <2>2, <3>2, <3>3, <3>4, FitsKept
    <3> QED BY <1>1, <3>1, <3>5, SudoFits
  <2> QED BY <2>3, <2>4
<1> QED BY <1>2, <1>3

LEMMA RawFits ==
    ASSUME NEW s, Shape(s), DOMAIN s.index = Entry, NEW d, TwasmOk(d) PROVE Fits(RawWasmState(s, d), d, 0)
<1> DEFINE n == Len(d.contracts)
           r == RawWasmState(s, d)
<1>1. n \in Nat /\ DOMAIN d.contracts = 1 .. n
  BY SMTT(30) DEF TwasmOk
<1>2. /\ r.codes = d.codes /\ r.index = s.index /\ r.pinned = d.pinned
      /\ r.infos = [c \in 1 .. n |-> RawWasmInfo(d.contracts[c])]
  BY <1>1 DEF RawWasmState, Shape, Fields
<1>3. Shape(r)
  BY RawRestored DEF Restored
<1> HIDE DEF r, n
<1>4. \A c \in 1 .. n : /\ r.infos[c].admin = d.contracts[c].info.admin
                        /\ r.infos[c].details = d.contracts[c].info.details
  <2> TAKE c \in 1 .. n
  <2> DEFINE x == d.contracts[c].info
             y == IF d.contracts[c].model.kind = "kv" THEN d.contracts[c].model.data ELSE NoData
  <2>1. DOMAIN x = InfoFields
    BY <1>1 DEF TwasmOk, InfoOk
  <2>2. r.infos[c] = RawWasmInfo(d.contracts[c])
    BY <1>2
  <2>3. r.infos[c] = [x EXCEPT !.data = y]
    BY <2>2 DEF RawWasmInfo
  <2> HIDE DEF y
  <2> QED BY <2>1, <2>3 DEF InfoFields
<1>5. Len(r.infos) = n
  <2>1. DOMAIN r.infos = 1 .. n
    BY <1>2
  <2>2. Len(r.infos) \in Nat /\ DOMAIN r.infos = 1 .. Len(r.infos)
    BY <1>3, ShapeInfos
  <2> QED BY <1>1, <2>1, <2>2, SMTT(30)
<1>6. \A c \in 1 .. n : ~(c <= 0) /\ Starts(d.contracts[c].info.details, d.contracts[c].info.details)
  <2> TAKE c \in 1 .. n
  <2> DEFINE l == d.contracts[c].info.details
  <2>1. l \in Seq(Entry)
    BY <1>1 DEF TwasmOk, InfoOk
  <2> HIDE DEF l
  <2>2. Starts(l, l) /\ ~(c <= 0)
    BY <1>1, <2>1, SMTT(30) DEF Starts
  <2> QED BY <2>2 DEF l
<1> QED BY <1>2, <1>3, <1>4, <1>5, <1>6 DEF Fits, r, n

(* InitGenesis of twasm, with the genesis file of an export.               *)
LEMMA TwasmFits ==
    ASSUME NEW s, Shape(s), DOMAIN s.index = Entry, NEW d, TwasmOk(d),
           d.privilegedContractAddresses = <<>>, NEW r \in InitTwasmGenesis(s, d)
    PROVE  Fits(r, d, Len(d.contracts))
<1> DEFINE raw == RawWasmState(s, d)
           stores == ImportAll(raw, d)
           n == Len(d.contracts)
<1>1. PICK q \in SetAllPrivileged(stores, <<>>) : r = [q EXCEPT !.pinned = @ \cup Range(d.pinnedCodeIDs)]
  BY DEF InitTwasmGenesis
<1>2. q \in stores
  <2>1. Len(<<>>) = 0 /\ 0 \in Nat
    BY SMTT(30)
  <2>2. PICK h : PromoteRounds(h, stores, <<>>)
    BY <2>1, PromoteLoop
  <2> QED BY <1>1, <2>1, <2>2 DEF PromoteRounds
<1>3. n \in Nat
  BY SMTT(30) DEF TwasmOk
<1>4. PICK f : ImportRounds(f, raw, d)
  BY <1>3, ImportLoop
<1> DEFINE H == {k \in 0 .. n : \A p \in f[k] : Fits(p, d, k)}
<1>5. 0 \in H
  BY <1>3, <1>4, RawFits, SMTT(30) DEF ImportRounds
<1>6. ASSUME NEW k \in 1 .. n, k - 1 \in H PROVE k \in H
  <2>1. ASSUME NEW p \in f[k] PROVE Fits(p, d, k)
    <3>1. PICK o \in f[k - 1] : p \in ImportContract(o, d, k)
      BY <1>4, SMTT(30) DEF ImportRounds
    <3> QED BY <1>6, <3>1, ImportContractFits
  <2> QED BY <1>3, <2>1, SMTT(30)
<1>7. q \in f[n]
  BY <1>2, <1>4 DEF ImportRounds
<1> HIDE DEF H
<1>8. \A k \in 0 .. n : k \in H
  BY <1>3, <1>5, <1>6, UpToInduction
<1>9. n \in H
  BY <1>3, <1>8, SMTT(30)
<1>10. Fits(q, d, n) /\ Shape(q)
  BY <1>7, <1>9 DEF H, Fits
<1>11. /\ DOMAIN r = Fields /\ r.infos = q.infos /\ r.addr = q.addr /\ r.cache = q.cache
       /\ r.index = q.index /\ r.privileged = q.privileged
       /\ r.height = q.height /\ r.codes = q.codes /\ q.pinned \subseteq r.pinned
  BY <1>1, <1>10 DEF Shape, Fields
<1>12. Shape(r)
  BY <1>10, <1>11 DEF Shape
<1> QED BY <1>10, <1>11, <1>12, FitsKept
=============================================================================
