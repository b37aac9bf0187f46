-------------------------- MODULE PoEGenesisProof ---------------------------
(***************************************************************************)
(* Proofs about PoEGenesis, for any accounts, any seed genesis files and   *)
(* any number of crashes, exports and decisions of governance.             *)
(*                                                                         *)
(* The inductive invariant GInv carries what the stages of the bootstrap   *)
(* have set up over the first commit, a restart, the genesis file of an    *)
(* export and the import of it.                                            *)
(***************************************************************************)
EXTENDS PoEGenesis, PoEGenesisStages

(* The prover of every leaf that names no other.                            *)
USE ZenonT(30)

-----------------------------------------------------------------------------
(* The inductive invariant.                                                *)

Starting == {"twasm", "poe", "verify", "globalfee", "response", "block"} \cup BootStages

(* A commit, as a process loads it.                                        *)
Loaded == InitContractAddressCache(committed)

(* The genesis file is a valid seed or an export.                          *)
DocOk == (doc \in SeedDocs /\ ValidateGenesis(doc)) \/ Dump(doc)

(* The working state fits to what the node is doing.                       *)
ChainOk ==
    /\ pc \in {"twasm", "poe"} => Shape(chain)
    /\ pc = "poe" /\ doc.mode = "dump" => Imported(chain, doc)
    /\ pc \in BootStages => doc.mode = "seed" /\ Progress(chain, doc, pc)
    /\ pc \in {"verify", "globalfee", "response", "block", "running"} => Complete(chain, doc)
    /\ pc = "verify" /\ doc.mode = "seed" => AllPinned(chain)
    /\ pc \in {"globalfee", "response", "block", "running"} =>
          /\ doc.mode = "seed" /\ gov = 0 => AllHandedOver(chain)
          /\ ActiveKeys(chain) # {}
    /\ pc \in {"block", "running"} => tm = ActiveKeys(chain)
    /\ pc = "running" => chain.height > 0

(* There is a commit once the chain runs, and a process can load it.       *)
CommitOk ==
    /\ pc \in Starting => ~(committed.height > 0)
    /\ pc = "running" => committed.height > 0
    /\ committed.height > 0 =>
          /\ Complete(Loaded, doc)
          /\ doc.mode = "seed" /\ gov = 0 => AllHandedOver(Loaded)
          /\ tm = ActiveKeys(Loaded) /\ tm # {}

GInv ==
    /\ pc \in Starting \cup {"down", "panicked", "running"}
    /\ gov \in Nat
    /\ DocOk
    /\ ChainOk
    /\ CommitOk

-----------------------------------------------------------------------------
(* The addresses of a dump.                                                *)

LEMMA TypesDistinct ==
    \A i, j \in 1 .. 11 : PoEContractTypeList[i] = PoEContractTypeList[j] => i = j
<1> DEFINE l == PoEContractTypeList
<1>1. /\ l[1] = "ARBITER_POOL" /\ l[2] = "ARBITER_POOL_VOTING" /\ l[3] = "COMMUNITY_POOL"
      /\ l[4] = "DISTRIBUTION" /\ l[5] = "ENGAGEMENT" /\ l[6] = "MIXER"
      /\ l[7] = "OVERSIGHT_COMMUNITY" /\ l[8] = "OVERSIGHT_COMMUNITY_PROPOSALS"
      /\ l[9] = "STAKING" /\ l[10] = "VALIDATOR_VOTING" /\ l[11] = "VALSET"
  BY DEF PoEContractTypeList
<1> HIDE DEF l
<1>2. 1 .. 11 = {1, 2, 3, 4, 5, 6, 7, 8, 9, 10, 11}
  BY SMTT(30)
<1> QED BY <1>1, <1>2, SMTT(30) DEF l

LEMMA ListAt ==
    /\ DOMAIN PoEContractTypeList = 1 .. 11
    /\ \A i \in 1 .. 11 : PoEContractTypeList[i] \in PoEContractTypes
<1>1. PoEContractTypeList \in Seq(PoEContractTypes) /\ Len(PoEContractTypeList) = 11
  BY TypesAre
<1> QED BY <1>1, SMTT(30)

(* Entry i of a dump is the one of type i of the list.                     *)
LEMMA DumpEntry ==
    ASSUME NEW d, NEW i \in 1 .. 11
    PROVE  /\ PoEContractTypeList[i] \in PoEContractTypes
           /\ DumpAddr(d)[PoEContractTypeList[i]] = d.contracts[i].address
<1> DEFINE t == PoEContractTypeList[i]
           j == CHOOSE j \in DOMAIN PoEContractTypeList : PoEContractTypeList[j] = t
<1>1. DOMAIN PoEContractTypeList = 1 .. 11 /\ t \in PoEContractTypes
  BY ListAt
<1>2. j \in 1 .. 11 /\ PoEContractTypeList[j] = t
  BY <1>1
<1>3. j = i
  BY <1>2, TypesDistinct
<1> QED BY <1>1, <1>3 DEF DumpAddr

LEMMA TypeAt ==
    ASSUME NEW t \in PoEContractTypes PROVE \E i \in 1 .. 11 : PoEContractTypeList[i] = t
BY ListAt DEF PoEContractTypes, Range

LEMMA AddressesSet ==
    ASSUME NEW s, Shape(s), NEW d, Dump(d)
    PROVE  LET r == SetDumpedAddresses(s, d.contracts) IN
           /\ Shape(r) /\ r.infos = s.infos /\ r.index = s.index /\ r.privileged = s.privileged
           /\ r.codes = s.codes /\ r.pinned = s.pinned
           /\ \A t \in PoEContractTypes : r.addr[t] = DumpAddr(d)[t] /\ r.cache[t] = DumpAddr(d)[t]
<1> DEFINE r == SetDumpedAddresses(s, d.contracts)
           l == PoEContractTypeList
<1>1. /\ Len(d.contracts) = 11 /\ DOMAIN l = 1 .. 11
      /\ \A i \in 1 .. 11 : d.contracts[i].type = l[i] /\ l[i] \in PoEContractTypes
  BY TypesAre, ListAt DEF Dump
<1>2. PICK f : AddressRounds(f, s, d.contracts)
  <2> DEFINE cs == d.contracts
  <2>1. Len(cs) \in Nat
    BY <1>1, SMTT(30)
  <2> HIDE DEF cs
  <2>2. \E f : AddressRounds(f, s, cs)
    BY <2>1, AddressLoop
  <2> QED BY <2>2 DEF cs
<1>3. /\ f[0] = s /\ r = f[11]
      /\ \A i \in 1 .. 11 : f[i] = SetPoEContractAddress(f[i - 1], l[i], d.contracts[i].address)
  BY <1>1, <1>2 DEF AddressRounds
<1> HIDE DEF r, l
<1> DEFINE Like(q) == /\ Shape(q) /\ q.infos = s.infos /\ q.index = s.index
                      /\ q.privileged = s.privileged /\ q.codes = s.codes /\ q.pinned = s.pinned
           Is(k) == /\ Like(f[k])
                    /\ \A i \in 1 .. k : /\ f[k].addr[l[i]] = d.contracts[i].address
                                         /\ f[k].cache[l[i]] = d.contracts[i].address
           H == {k \in 0 .. 11 : Is(k)}
<1>4. 0 \in H
  BY <1>3, SMTT(30)
<1>5. ASSUME NEW k \in 1 .. 11, k - 1 \in H PROVE k \in H
  <2> DEFINE p == f[k - 1]
             q == f[k]
             c == d.contracts[k].address
  <2>1. q = SetPoEContractAddress(p, l[k], c) /\ l[k] \in PoEContractTypes /\ Is(k - 1)
    BY <1>1, <1>3, <1>5
  <2>2. Like(p)
    BY <2>1
  <2> HIDE DEF c
  <2>3. Keeps(p, q, {l[k]}) /\ q.addr[l[k]] = c /\ q.cache[l[k]] = c /\ Like(q)
    <3> DEFINE u == l[k]
    <3>1. Shape(p) /\ u \in PoEContractTypes
      BY <2>1, <2>2
    <3>2. q = SetPoEContractAddress(p, u, c)
      BY <2>1
    <3> HIDE DEF p, q, u
    <3> DEFINE x == SetPoEContractAddress(p, u, c)
    <3>3. /\ Keeps(p, x, {u}) /\ x.addr[u] = c /\ x.cache[u] = c
          /\ x.infos = p.infos /\ x.pinned = p.pinned /\ x.codes = p.codes
          /\ x.index = p.index /\ x.privileged = p.privileged
      BY <3>1, SetAddressKeeps, SMTT(30)
    <3> HIDE DEF x
    <3>4. /\ Keeps(p, q, {u}) /\ q.addr[u] = c /\ q.cache[u] = c
          /\ q.infos = p.infos /\ q.pinned = p.pinned /\ q.codes = p.codes
          /\ q.index = p.index /\ q.privileged = p.privileged
      BY <3>2, <3>3 DEF x
    <3>5. Shape(q)
      BY <3>4 DEF Keeps, Frame
    <3> QED BY <2>2, <3>4, <3>5 DEF u
  <2>4. ASSUME NEW i \in 1 .. k
        PROVE  f[k].addr[l[i]] = d.contracts[i].address /\ f[k].cache[l[i]] = d.contracts[i].address
    <3>1. CASE i = k
      BY <2>3, <3>1 DEF c
    <3>2. CASE i # k
      <4>1. i \in 1 .. k - 1 /\ i \in 1 .. 11 /\ l[i] \in PoEContractTypes /\ l[i] # l[k]
        BY <1>1, <3>2, TypesDistinct, SMTT(30) DEF l
      <4>2. q.addr[l[i]] = p.addr[l[i]] /\ q.cache[l[i]] = p.cache[l[i]]
        BY <2>3, <4>1 DEF Keeps
      <4> QED BY <2>1, <4>1, <4>2
    <3> QED BY <3>1, <3>2
  <2> QED BY <2>3, <2>4, SMTT(30)
<1> HIDE DEF H
<1>6. \A k \in 0 .. 11 : k \in H
  BY <1>4, <1>5, UpToInduction
<1>7. Is(11)
  <2>1. 11 \in 0 .. 11
    BY SMTT(30)
  <2> QED BY <1>6, <2>1 DEF H
<1>8. ASSUME NEW t \in PoEContractTypes PROVE r.addr[t] = DumpAddr(d)[t] /\ r.cache[t] = DumpAddr(d)[t]
  <2>1. PICK i \in 1 .. 11 : l[i] = t
    BY TypeAt DEF l
  <2> QED BY <1>3, <1>7, <2>1, DumpEntry DEF l
<1> QED BY <1>3, <1>7, <1>8 DEF r

LEMMA DumpComplete ==
    ASSUME NEW s, Shape(s), NEW d, Dump(d), Imported(s, d)
    PROVE  Complete(SetDumpedAddresses(s, d.contracts), d)
<1> DEFINE r == SetDumpedAddresses(s, d.contracts)
           a == DumpAddr(d)
<1>1. /\ Shape(r) /\ r.infos = s.infos
      /\ \A t \in PoEContractTypes : r.addr[t] = a[t] /\ r.cache[t] = a[t]
  BY AddressesSet, SMTT(30)
<1>2. /\ d.mode # "seed"
      /\ \A t \in PoEContractTypes : /\ a[t] \in DOMAIN s.infos
                                     /\ s.infos[a[t]].data = DumpData(d, t)
                                     /\ Linked(t, a, DumpData(d, t))
      /\ \A t \in {"ENGAGEMENT", "VALSET"} : DumpData(d, t).owner = a["OVERSIGHT_COMMUNITY_PROPOSALS"]
  BY DEF Dump, Imported, DumpData
<1> HIDE DEF r, a
<1>3. ASSUME NEW t \in PoEContractTypes PROVE Built(r, t)
  <2> DEFINE e == DumpData(d, t)
  <2>1. \A u \in Uses(t) : r.addr[u] = a[u]
    BY <1>1, TypesAre DEF Uses
  <2>2. Linked(t, a, e) /\ Same(e, e) /\ r.infos[r.addr[t]].data = e
    BY <1>1, <1>2, SameRefl
  <2> HIDE DEF e
  <2>3. Linked(t, r.addr, e)
    BY <2>1, <2>2, LinkedKept, SMTT(30)
  <2> QED BY <1>1, <1>2, <2>2, <2>3 DEF Built
<1>4. {"ENGAGEMENT", "VALSET", "OVERSIGHT_COMMUNITY_PROPOSALS"} \subseteq PoEContractTypes
  BY TypesAre
<1>5. \A t \in {"ENGAGEMENT", "VALSET"} : Owned(r, t, r.addr["OVERSIGHT_COMMUNITY_PROPOSALS"])
  BY <1>1, <1>2, <1>4 DEF Owned
<1> QED BY <1>1, <1>2, <1>3, <1>5 DEF Complete, r

-----------------------------------------------------------------------------
(* The export.                                                             *)

LEMMA AddressesDumped ==
    ASSUME NEW s, \A t \in PoEContractTypes : s.addr[t] # 0
    PROVE  /\ Len(DumpedContracts(s)) = 11 /\ DOMAIN DumpedContracts(s) = 1 .. 11
           /\ \A i \in 1 .. 11 : DumpedContracts(s)[i]
                                 = [type |-> PoEContractTypeList[i], address |-> s.addr[PoEContractTypeList[i]]]
<1> DEFINE l == PoEContractTypeList
           E(i) == [type |-> l[i], address |-> s.addr[l[i]]]
           S == {E(i) : i \in 1 .. 11}
<1>1. Len(l) = 11 /\ \A i \in 1 .. 11 : l[i] \in PoEContractTypes
  BY ListAt, TypesAre
<1>2. PICK f : DumpRounds(f, s)
  BY <1>1, DumpLoop, SMTT(30)
<1>3. f[0] = <<>> /\ DumpedContracts(s) = f[11] /\ \A i \in 1 .. 11 : f[i] = Append(f[i - 1], E(i))
  BY <1>1, <1>2 DEF DumpRounds
<1>4. \A i \in 1 .. 11 : E(i) \in S
  OBVIOUS
<1>5. \A i \in 1 .. 11 : E(i) = [type |-> PoEContractTypeList[i], address |-> s.addr[PoEContractTypeList[i]]]
  OBVIOUS
<1> HIDE DEF E, S
<1> DEFINE Is(k) == f[k] \in Seq(S) /\ Len(f[k]) = k /\ \A i \in 1 .. k : f[k][i] = E(i)
           H == {k \in 0 .. 11 : Is(k)}
<1>6. 0 \in H
  <2>1. <<>> \in Seq(S) /\ Len(<<>>) = 0 /\ 1 .. 0 = {}
    BY SMTT(30)
  <2>2. Is(0)
    BY <1>3, <2>1
  <2> QED BY <2>2, SMTT(30)
<1>7. ASSUME NEW k \in 1 .. 11, k - 1 \in H PROVE k \in H
  <2> DEFINE p == f[k - 1]
  <2>1. p \in Seq(S) /\ Len(p) = k - 1 /\ (\A i \in 1 .. k - 1 : p[i] = E(i)) /\ E(k) \in S
    BY <1>4, <1>7
  <2>2. f[k] = Append(p, E(k))
    BY <1>3
  <2> HIDE DEF p
  <2>3. Is(k)
    BY <2>1, <2>2, SMTT(30)
  <2> QED BY <2>3, SMTT(30)
<1> HIDE DEF H
<1>8. \A k \in 0 .. 11 : k \in H
  BY <1>6, <1>7, UpToInduction
<1>9. Is(11)
  <2>1. 11 \in H
    BY <1>8, SMTT(30)
  <2> QED BY <2>1 DEF H
<1>10. DOMAIN f[11] = 1 .. 11
  <2> DEFINE x == f[11]
  <2>1. x \in Seq(S) /\ Len(x) = 11
    BY <1>9
  <2> HIDE DEF x
  <2>2. DOMAIN x = 1 .. 11
    BY <2>1, SMTT(30)
  <2> QED BY <2>2 DEF x
<1> QED BY <1>3, <1>5, <1>9, <1>10

LEMMA ExportIsDump ==
    ASSUME NEW s, NEW g, Complete(s, g), NEW asks \in ImportRequests
    PROVE  Dump(ExportGenesis(s, asks))
<1> DEFINE d == ExportGenesis(s, asks)
           w == d.twasm
           n == Len(s.infos)
           l == PoEContractTypeList
<1>1. /\ Shape(s) /\ n \in Nat /\ DOMAIN s.infos = 1 .. n
      /\ \A t \in PoEContractTypes : s.addr[t] \in 1 .. n /\ Linked(t, s.addr, s.infos[s.addr[t]].data)
  BY ShapeInfos DEF Complete, Built
<1>2. /\ d.mode = "dump" /\ d.contracts = DumpedContracts(s)
      /\ w.codes = s.codes /\ w.privilegedContractAddresses = <<>> /\ w.pinnedCodeIDs = <<>>
      /\ w.contracts = [c \in 1 .. n |-> ExportContract(s.infos[c], asks)]
  BY <1>1 DEF ExportGenesis, ExportTwasmGenesis
<1> HIDE DEF d
<1>3. /\ Len(d.contracts) = 11 /\ DOMAIN d.contracts = 1 .. 11
      /\ \A i \in 1 .. 11 : d.contracts[i].type = l[i] /\ d.contracts[i].address = s.addr[l[i]]
  <2>1. \A t \in PoEContractTypes : s.addr[t] # 0
    BY <1>1, SMTT(30)
  <2>2. /\ Len(DumpedContracts(s)) = 11 /\ DOMAIN DumpedContracts(s) = 1 .. 11
        /\ \A i \in 1 .. 11 : DumpedContracts(s)[i] = [type |-> l[i], address |-> s.addr[l[i]]]
    BY <2>1, AddressesDumped
  <2> QED BY <1>2, <2>2, SMTT(30)
<1>4. ASSUME NEW t \in PoEContractTypes PROVE DumpAddr(d)[t] = s.addr[t]
  <2>1. PICK i \in 1 .. 11 : l[i] = t
    BY TypeAt
  <2> QED BY <1>3, <2>1, DumpEntry, SMTT(30)
<1>5. w.contracts \in Seq(Range(w.contracts)) /\ DOMAIN w.contracts = 1 .. n
  <2> DEFINE f == w.contracts
  <2>1. DOMAIN f = 1 .. n /\ f = [c \in 1 .. n |-> f[c]]
    BY <1>2
  <2> HIDE DEF f, n
  <2>2. f \in [1 .. n -> Range(f)]
    BY <2>1 DEF Range
  <2>3. f \in Seq(Range(f))
    BY <1>1, <2>2, SMTT(30)
  <2> QED BY <2>1, <2>3 DEF f
<1>6. ASSUME NEW c \in 1 .. n
      PROVE  /\ InfoOk(w.contracts[c].info)
             /\ w.contracts[c].info.code = s.infos[c].code
             /\ w.contracts[c].info.details = s.infos[c].details
             /\ w.contracts[c].model.asks = asks
             /\ w.contracts[c].model.data = s.infos[c].data
             /\ w.contracts[c].model.kind
                = IF HasRegisteredPrivilege(s.infos[c].details, Exporter) THEN "custom" ELSE "kv"
  <2>1. w.contracts[c] = ExportContract(s.infos[c], asks)
    BY <1>2
  <2>2. DOMAIN s.infos[c] = InfoFields /\ s.infos[c].details \in Seq(Entry)
    BY <1>1, DetailsOk
  <2>3. /\ DOMAIN w.contracts[c].info = InfoFields
        /\ w.contracts[c].info.details = s.infos[c].details
        /\ w.contracts[c].info.code = s.infos[c].code
    BY <2>1, <2>2, SMTT(30) DEF ExportContract, InfoFields
  <2>4. /\ w.contracts[c].model.asks = asks
        /\ w.contracts[c].model.data = s.infos[c].data
        /\ w.contracts[c].model.kind
           = IF HasRegisteredPrivilege(s.infos[c].details, Exporter) THEN "custom" ELSE "kv"
    BY <2>1, SMTT(30) DEF ExportContract
  <2> QED BY <2>2, <2>3, <2>4 DEF InfoOk
<1>7. s.codes \in Seq(DOMAIN PromoteRequests) /\ \A c \in 1 .. n : s.infos[c].code \in DOMAIN s.codes
  BY <1>1 DEF Shape, CodesOk
<1>8. asks \in Seq(PrivilegeTypes)
  BY GenesisTypesAssumption
<1>9. ASSUME NEW t \in PoEContractTypes
      PROVE  /\ DumpAddr(d)[t] \in 1 .. n /\ DumpData(d, t) = s.infos[s.addr[t]].data
             /\ Linked(t, DumpAddr(d), DumpData(d, t))
  <2> DEFINE e == s.infos[s.addr[t]].data
  <2>1. DumpAddr(d)[t] \in 1 .. n /\ DumpData(d, t) = e
    BY <1>1, <1>4, <1>6 DEF DumpData
  <2>2. \A u \in Uses(t) : DumpAddr(d)[u] = s.addr[u]
    BY <1>4, TypesAre DEF Uses
  <2>3. Linked(t, s.addr, e) /\ Same(e, e)
    BY <1>1, SameRefl
  <2> HIDE DEF e
  <2>4. Linked(t, DumpAddr(d), e)
    BY <2>2, <2>3, LinkedKept
  <2> QED BY <2>1, <2>4 DEF e
<1>10. {"ENGAGEMENT", "VALSET", "OVERSIGHT_COMMUNITY_PROPOSALS"} \subseteq PoEContractTypes
  BY TypesAre
<1>11. \A t \in {"ENGAGEMENT", "VALSET"} :
          DumpData(d, t).owner = DumpAddr(d)["OVERSIGHT_COMMUNITY_PROPOSALS"]
  BY <1>4, <1>9, <1>10 DEF Complete, Owned
<1>12. Len(d.contracts) = Len(l) /\ DOMAIN d.contracts = DOMAIN l /\ \A i \in DOMAIN l : d.contracts[i].type = l[i]
  BY <1>3, TypesAre, ListAt
<1>13. \A c \in DOMAIN w.contracts :
          /\ InfoOk(w.contracts[c].info)
          /\ w.contracts[c].info.code \in DOMAIN w.codes
          /\ w.contracts[c].model.asks \in Seq(PrivilegeTypes)
          /\ w.contracts[c].model.kind
                = IF HasRegisteredPrivilege(w.contracts[c].info.details, Exporter)
                  THEN "custom" ELSE "kv"
  BY <1>2, <1>5, <1>6, <1>7, <1>8
<1>14. Dump(d)
  BY <1>2, <1>5, <1>7, <1>9, <1>11, <1>12, <1>13 DEF Dump
<1> QED BY <1>14 DEF d

-----------------------------------------------------------------------------
(* Steps of a chain whose contracts are all set up.                        *)

LEMMA CompleteGet ==
    ASSUME NEW s, NEW g, Complete(s, g)
    PROVE  /\ \A t \in PoEContractTypes : /\ GetPoEContractAddress(s, t) = s.addr[t]
                                          /\ s.addr[t] \in 1 .. Len(s.infos)
                                          /\ Data(s, t) = s.infos[s.addr[t]].data
           /\ {"ENGAGEMENT", "VALSET", "OVERSIGHT_COMMUNITY_PROPOSALS"} \subseteq PoEContractTypes
<1>1. Shape(s) /\ \A t \in PoEContractTypes : Built(s, t)
  BY DEF Complete
<1>2. \A t \in PoEContractTypes : s.addr[t] \in 1 .. Len(s.infos)
  BY <1>1, ShapeInfos DEF Built
<1>3. \A t \in PoEContractTypes : GetPoEContractAddress(s, t) = s.addr[t]
  BY <1>1, GetBuilt
<1> QED BY <1>2, <1>3, TypesAre DEF Data

LEMMA CompleteKept ==
    ASSUME NEW s, NEW g, Complete(s, g), NEW r, Keeps(s, r, {})
    PROVE  Complete(r, g) /\ (AllPinned(s) => AllPinned(r)) /\ \A t \in PoEContractTypes : r.addr[t] = s.addr[t]
<1>1. /\ Shape(s) /\ Shape(r)
      /\ {"ENGAGEMENT", "VALSET", "OVERSIGHT_COMMUNITY_PROPOSALS"} \subseteq PoEContractTypes
      /\ "owner" \in DataFields("ENGAGEMENT") /\ "owner" \in DataFields("VALSET")
  BY TypesAre DEF Complete, Keeps, Frame, DataFields
<1>2. ASSUME NEW t \in PoEContractTypes
      PROVE  /\ Built(r, t) /\ r.addr[t] = s.addr[t]
             /\ Configured(t, s.addr, s.infos[s.addr[t]].data, g) =>
                   Configured(t, r.addr, r.infos[r.addr[t]].data, g)
             /\ \A owner : "owner" \in DataFields(t) /\ Owned(s, t, owner) => Owned(r, t, owner)
  <2>1. Built(s, t) /\ Uses(t) \cap {} = {} /\ t \in PoEContractTypes \ {}
    BY DEF Complete
  <2> QED BY <1>1, <2>1, BuiltKept, SMTT(30)
<1>3. \A t \in {"ENGAGEMENT", "VALSET"} : Owned(r, t, r.addr["OVERSIGHT_COMMUNITY_PROPOSALS"])
  BY <1>1, <1>2 DEF Complete
<1>4. Complete(r, g)
  BY <1>1, <1>2, <1>3 DEF Complete
<1>5. AllPinned(s) => AllPinned(r)
  <2> SUFFICES ASSUME AllPinned(s), NEW t \in PoEContractTypes
               PROVE  r.infos[r.addr[t]].code \in r.pinned
    BY DEF AllPinned
  <2>1. s.addr[t] \in 1 .. Len(s.infos) /\ s.infos[s.addr[t]].code \in s.pinned /\ r.addr[t] = s.addr[t]
    BY <1>2, CompleteGet DEF AllPinned
  <2>2. r.infos[s.addr[t]].code = s.infos[s.addr[t]].code /\ s.pinned \subseteq r.pinned
    BY <2>1 DEF Keeps, Frame
  <2> QED BY <2>1, <2>2
<1> QED BY <1>2, <1>4, <1>5

(* Steps that leave the states of the contracts.                           *)
LEMMA CompleteData ==
    ASSUME NEW s, NEW g, Complete(s, g), NEW r, KeepsData(s, r)
    PROVE  Complete(r, g) /\ ActiveKeys(r) = ActiveKeys(s)
<1>1. /\ Shape(r) /\ r.addr = s.addr /\ r.cache = s.cache /\ Len(s.infos) \in Nat
      /\ Len(r.infos) \in Nat /\ Len(r.infos) >= Len(s.infos) /\ DOMAIN r.infos = 1 .. Len(r.infos)
  BY ShapeInfos DEF KeepsData, Frame, Complete
<1>2. \A t \in PoEContractTypes : /\ s.addr[t] \in 1 .. Len(s.infos)
                                  /\ s.addr[t] \in DOMAIN r.infos
                                  /\ r.infos[s.addr[t]].data = s.infos[s.addr[t]].data
  BY <1>1, CompleteGet, SMTT(30) DEF KeepsData
<1>3. {"ENGAGEMENT", "VALSET", "OVERSIGHT_COMMUNITY_PROPOSALS"} \subseteq PoEContractTypes
  BY CompleteGet
<1>4. Complete(r, g)
  BY <1>1, <1>2, <1>3 DEF Complete, Built, Owned
<1>5. Data(r, "VALSET") = Data(s, "VALSET")
  BY <1>1, <1>2, <1>3, <1>4, CompleteGet, SMTT(30)
<1> QED BY <1>4, <1>5 DEF ActiveKeys

(* The same contracts, with all their addresses in the cache.              *)
Mirrors(s, r) ==
    /\ DOMAIN r = Fields /\ DOMAIN r.cache = PoEContractTypes
    /\ r.codes = s.codes /\ r.infos = s.infos /\ r.addr = s.addr /\ r.pinned = s.pinned
    /\ \A t \in PoEContractTypes : r.cache[t] = s.addr[t]

LEMMA MirrorsComplete ==
    ASSUME NEW s, NEW g, Complete(s, g), NEW r, Mirrors(s, r)
    PROVE  /\ Complete(r, g) /\ ActiveKeys(r) = ActiveKeys(s)
           /\ AllHandedOver(s) => AllHandedOver(r)
<1>1. Shape(r)
  BY DEF Complete, Mirrors, Shape
<1>2. Complete(r, g)
  BY <1>1 DEF Complete, Mirrors, Built, Owned
<1>3. Data(r, "VALSET") = Data(s, "VALSET")
  BY <1>2, CompleteGet, SMTT(30) DEF Mirrors
<1> QED BY <1>2, <1>3 DEF ActiveKeys, AllHandedOver, AllPinned, Mirrors

LEMMA Reloaded ==
    ASSUME NEW s, NEW g, Complete(s, g)
    PROVE  LET k == [s EXCEPT !.cache = NoAddresses, !.embedded = TRUE] IN
           Mirrors(s, InitContractAddressCache(k)) /\ k.height = s.height
<1> DEFINE k == [s EXCEPT !.cache = NoAddresses, !.embedded = TRUE]
           r == InitContractAddressCache(k)
<1>1. DOMAIN s = Fields /\ \A t \in PoEContractTypes : s.addr[t] # 0
  <2>1. \A t \in PoEContractTypes : s.addr[t] \in 1 .. Len(s.infos)
    BY CompleteGet
  <2> QED BY <2>1, SMTT(30) DEF Complete, Shape
<1>2. /\ DOMAIN k = Fields /\ k.codes = s.codes /\ k.infos = s.infos /\ k.addr = s.addr
      /\ k.pinned = s.pinned /\ k.height = s.height
  BY <1>1 DEF Fields
<1> DEFINE cache == [t \in PoEContractTypes |-> IF k.addr[t] # 0 THEN k.addr[t] ELSE k.cache[t]]
<1>3. r = [k EXCEPT !.cache = cache]
  BY DEF InitContractAddressCache
<1>4. DOMAIN cache = PoEContractTypes /\ \A t \in PoEContractTypes : cache[t] = s.addr[t]
  BY <1>1, <1>2
<1> HIDE DEF k, cache, r
<1>5. Mirrors(s, r)
  BY <1>2, <1>3, <1>4 DEF Mirrors, Fields
<1> QED BY <1>2, <1>5 DEF k, r

LEMMA DataAt ==
    ASSUME NEW s, NEW g, Complete(s, g), NEW t \in PoEContractTypes, NEW c, s.addr[t] = c
    PROVE  Data(s, t) = s.infos[c].data
BY CompleteGet

(* The valset contract changes the active validators.                      *)
LEMMA ActiveSet ==
    ASSUME NEW s, NEW g, Complete(s, g), NEW a,
           NEW r, r = [s EXCEPT !.infos[GetPoEContractAddress(s, "VALSET")].data.active = a]
    PROVE  /\ Complete(r, g) /\ (AllPinned(s) => AllPinned(r)) /\ r.height = s.height
           /\ (a # {} => ActiveKeys(r) # {})
           /\ \A t \in PoEContractTypes :
                 r.addr[t] = s.addr[t] /\ r.infos[r.addr[t]].admin = s.infos[s.addr[t]].admin
<1> DEFINE c == s.addr["VALSET"]
           d == [s.infos[c].data EXCEPT !.active = a]
<1>1. /\ Shape(s) /\ "VALSET" \in PoEContractTypes /\ GetPoEContractAddress(s, "VALSET") = c
      /\ \A t \in PoEContractTypes : s.addr[t] \in 1 .. Len(s.infos)
      /\ c \in DOMAIN s.infos /\ DOMAIN s.infos[c].data = DataFields("VALSET")
  <2>1. /\ "VALSET" \in PoEContractTypes /\ GetPoEContractAddress(s, "VALSET") = c
        /\ \A t \in PoEContractTypes : s.addr[t] \in 1 .. Len(s.infos)
    BY CompleteGet
  <2>2. Shape(s) /\ Built(s, "VALSET")
    BY <2>1 DEF Complete
  <2> QED BY <2>1, <2>2 DEF Built, Linked
<1>2. /\ DOMAIN d = DataFields("VALSET") /\ d.active = a /\ "active" \in Moving
      /\ \A x \in DataFields("VALSET") : x # "active" => d[x] = s.infos[c].data[x]
  BY <1>1 DEF DataFields, Moving
<1>3. DataSet(s, r, c, d) /\ r.pinned = s.pinned
  BY <1>1 DEF DataSet, Shape, Fields
<1> HIDE DEF d, c
<1>4. Same(s.infos[c].data, d)
  BY <1>1, <1>2, SameMoved, SMTT(30)
<1>5. Keeps(s, r, {})
  BY <1>1, <1>3, <1>4, MoveKeeps
<1>6. /\ Complete(r, g) /\ (AllPinned(s) => AllPinned(r)) /\ r.height = s.height
      /\ \A t \in PoEContractTypes : r.addr[t] = s.addr[t]
  BY <1>5, CompleteKept DEF Keeps, Frame
<1>7. \A e \in 1 .. Len(s.infos) : r.infos[e].admin = s.infos[e].admin
  BY <1>1, <1>3, ShapeInfos, SMTT(30) DEF DataSet, Shape, InfoOk, InfoFields
<1>8. Data(r, "VALSET") = d
  <2>1. Data(r, "VALSET") = r.infos[c].data
    <3>1. r.addr["VALSET"] = c
      BY <1>1, <1>6 DEF c
    <3>2. Complete(r, g) /\ "VALSET" \in PoEContractTypes
      BY <1>1, <1>6
    <3> QED BY <3>1, <3>2, DataAt
  <2>2. r.infos[c].data = d
    BY <1>1, <1>3, SMTT(30) DEF DataSet, Shape, InfoOk, InfoFields
  <2> QED BY <2>1, <2>2
<1>9. a # {} => ActiveKeys(r) # {}
  BY <1>2, <1>8, SMTT(30) DEF ActiveKeys
<1> QED BY <1>1, <1>6, <1>7, <1>9

LEMMA Verified ==
    ASSUME NEW s, NEW d, Complete(s, d), d.mode = "seed" => AllPinned(s), NEW r \in FirstValidators(s, d)
    PROVE  Complete(r, d) /\ (d.mode = "seed" => AllHandedOver(r)) /\ ActiveKeys(r) # {}
<1>1. /\ VerifyPoEContracts(s) /\ ActiveKeys(r) # {}
      /\ r \in IF d.mode = "seed" THEN EndBlockWithValidatorUpdate(s) ELSE {s}
  BY DEF FirstValidators, InitialSet
<1>2. CASE d.mode = "seed"
  <2>1. PICK a : r = [s EXCEPT !.infos[GetPoEContractAddress(s, "VALSET")].data.active = a]
    BY <1>1, <1>2 DEF EndBlockWithValidatorUpdate
  <2>2. /\ Complete(r, d) /\ AllPinned(r)
        /\ \A t \in PoEContractTypes :
              r.addr[t] = s.addr[t] /\ r.infos[r.addr[t]].admin = s.infos[s.addr[t]].admin
    BY <1>2, <2>1, ActiveSet, SMTT(30)
  <2>3. "VALIDATOR_VOTING" \in PoEContractTypes
    BY TypesAre
  <2>4. \A t \in PoEContractTypes : s.infos[s.addr[t]].admin = s.addr["VALIDATOR_VOTING"]
    BY <1>1, <2>3, CompleteGet DEF VerifyPoEContracts
  <2> QED BY <1>1, <2>2, <2>3, <2>4 DEF AllHandedOver
<1>3. CASE d.mode # "seed"
  BY <1>1, <1>3
<1> QED BY <1>2, <1>3

LEMMA SeedOk ==
    ASSUME NEW d \in SeedDocs, ValidateGenesis(d)
    PROVE  /\ d.mode = "seed" /\ TwasmOk(d.twasm) /\ Len(d.gentxs) \in Nat
           /\ Len(d.oc.members) - 1 \in Nat /\ Len(d.ap.members) - 1 \in Nat
<1>1. /\ d.mode = "seed" /\ TwasmOk(d.twasm) /\ Len(d.gentxs) \in Nat
      /\ d.oc.members \in Seq(Range(d.oc.members)) /\ d.ap.members \in Seq(Range(d.ap.members))
  BY GenesisAssumption, SMTT(30) DEF TwasmOk, InfoOk, InfoFields
<1>2. d.oc.members # <<>> /\ d.ap.members # <<>>
  BY <1>1 DEF ValidateGenesis, validateSeedContracts, ValidMembers
<1>3. Len(d.oc.members) - 1 \in Nat
  <2> DEFINE m == d.oc.members
  <2> HIDE DEF m
  <2>1. m \in Seq(Range(m)) /\ m # <<>>
    BY <1>1, <1>2 DEF m
  <2> QED BY <2>1, SMTT(30) DEF m
<1>4. Len(d.ap.members) - 1 \in Nat
  <2> DEFINE m == d.ap.members
  <2> HIDE DEF m
  <2>1. m \in Seq(Range(m)) /\ m # <<>>
    BY <1>1, <1>2 DEF m
  <2> QED BY <2>1, SMTT(30) DEF m
<1> QED BY <1>1, <1>3, <1>4

LEMMA DumpOk == ASSUME NEW d, Dump(d) PROVE d.mode = "dump" /\ TwasmOk(d.twasm) /\ KindsOk(d.twasm)
BY DEF Dump, TwasmOk, KindsOk

LEMMA Orders ==
    /\ AfterModule("twasm") = "poe" /\ AfterModule("poe") = "globalfee"
    /\ AfterModule("globalfee") = "response" /\ Head(OrderInitGenesis) = "twasm"
    /\ Head(Stages) = "engagement"
<1> DEFINE o == OrderInitGenesis
<1>1. DOMAIN o = {1, 2, 3} /\ Len(o) = 3 /\ o[1] = "twasm" /\ o[2] = "poe" /\ o[3] = "globalfee"
      /\ Head(o) = "twasm" /\ Head(Stages) = "engagement"
  BY SMTT(30) DEF OrderInitGenesis, Stages
<1> HIDE DEF o
<1>2. /\ (CHOOSE i \in DOMAIN o : o[i] = "twasm") = 1 /\ (CHOOSE i \in DOMAIN o : o[i] = "poe") = 2
      /\ (CHOOSE i \in DOMAIN o : o[i] = "globalfee") = 3
  BY <1>1
<1> QED BY <1>1, <1>2, SMTT(30) DEF AfterModule, o

LEMMA StageStep ==
    ASSUME NEW g \in SeedDocs, ValidateGenesis(g), NEW s, NEW i \in 1 .. Len(Stages) - 2,
           Progress(s, g, Stages[i]), NEW r \in Bootstrapped(s, g, Stages[i])
    PROVE  Progress(r, g, Stages[i + 1]) /\ Stages[i + 1] \in BootStages
<1> DEFINE l == Stages
<1>1. /\ Len(l) = 14 /\ l[1] = "engagement" /\ l[2] = "oversight" /\ l[3] = "stake"
      /\ l[4] = "mixer" /\ l[5] = "pool" /\ l[6] = "valset" /\ l[7] = "proposals"
      /\ l[8] = "handover" /\ l[9] = "voting" /\ l[10] = "arbiter" /\ l[11] = "arbiterVoting"
      /\ l[12] = "migrators" /\ l[13] = "gentx"
  BY DEF Stages
<1> HIDE DEF l
<1>2. i \in {1, 2, 3, 4, 5, 6, 7, 8, 9, 10, 11, 12}
  BY <1>1, SMTT(30) DEF l
<1>3. Len(g.oc.members) - 1 \in Nat /\ Len(g.ap.members) - 1 \in Nat
  BY SeedOk
<1>4. Progress(s, g, l[i]) /\ r \in Bootstrapped(s, g, l[i])
  BY DEF l
<1>5. CASE i \in {1, 2, 3, 4}
  BY <1>1, <1>3, <1>4, <1>5, StageEngagement, StageOversight, StageStaking, StageMixer, SMTT(30)
     DEF Bootstrapped, BootStages, l
<1>6. CASE i \in {5, 6, 7, 8}
  BY <1>1, <1>3, <1>4, <1>6, StageCommunityPool, StageValset, StageOCProposals, StageHandOver, SMTT(30)
     DEF Bootstrapped, BootStages, l
<1>7. CASE i \in {9, 10, 11, 12}
  BY <1>1, <1>3, <1>4, <1>7, StageVoting, StageArbiterPool, StageArbiterVoting, StageMigrators, SMTT(30)
     DEF Bootstrapped, BootStages, l
<1> QED BY <1>2, <1>5, <1>6, <1>7

-----------------------------------------------------------------------------
(* The inductive invariant.                                                *)

LEMMA StageNames ==
    /\ BootStages \cap {"twasm", "poe", "verify", "globalfee", "response", "block", "down",
                        "panicked", "running"} = {}
    /\ Starting = {"twasm", "poe", "verify", "globalfee", "response", "block"} \cup BootStages
    /\ "running" \notin Starting /\ "down" \notin Starting /\ "panicked" \notin Starting
BY DEF BootStages, Starting

LEMMA EmptyShape ==
    /\ Shape(EmptyChain) /\ EmptyChain.height = 0
    /\ \A b, f : Shape([EmptyChain EXCEPT !.bal = b, !.funds = f])
<1> DEFINE e == EmptyChain
<1>1. /\ DOMAIN e = Fields /\ e.infos = <<>> /\ e.codes = <<>> /\ e.height = 0
      /\ e.addr = NoAddresses /\ e.cache = NoAddresses
  BY DEF EmptyChain, Fields
<1>2. DOMAIN NoAddresses = PoEContractTypes
  BY DEF NoAddresses
<1>3. \A S : <<>> \in Seq(S)
  BY SMTT(30)
<1>4. \A s : /\ DOMAIN s = Fields /\ s.infos = <<>> /\ s.codes = <<>>
             /\ s.addr = NoAddresses /\ s.cache = NoAddresses
             => Shape(s)
  BY <1>2, <1>3, SMTT(30) DEF Shape, CodesOk
<1> HIDE DEF e
<1>5. \A b, f : /\ DOMAIN [e EXCEPT !.bal = b, !.funds = f] = Fields
                /\ [e EXCEPT !.bal = b, !.funds = f].infos = <<>>
                /\ [e EXCEPT !.bal = b, !.funds = f].codes = <<>>
                /\ [e EXCEPT !.bal = b, !.funds = f].addr = NoAddresses
                /\ [e EXCEPT !.bal = b, !.funds = f].cache = NoAddresses
  BY <1>1 DEF Fields
<1> QED BY <1>1, <1>4, <1>5 DEF e

(* A process loads the last commit.                                        *)
LEMMA LoadOk ==
    ASSUME GInv, committed.height > 0, chain' = InitContractAddressCache(committed),
           pc' = "running", UNCHANGED <<doc, committed, tm, counters>>
    PROVE  GInv'
<1>1. /\ chain' = Loaded /\ Loaded' = Loaded /\ doc' = doc /\ committed' = committed
      /\ tm' = tm /\ gov' = gov
  BY DEF Loaded, counters
<1>2. /\ Complete(Loaded, doc) /\ tm = ActiveKeys(Loaded) /\ tm # {}
      /\ doc.mode = "seed" /\ gov = 0 => AllHandedOver(Loaded)
  BY DEF GInv, CommitOk
<1>3. Loaded.height = committed.height
  <2>1. DOMAIN Loaded = Fields
    BY <1>2 DEF Complete, Shape
  <2> QED BY <2>1 DEF Loaded, InitContractAddressCache, Fields
<1>4. ChainOk'
  BY <1>1, <1>2, <1>3, StageNames DEF ChainOk
<1>5. CommitOk'
  BY <1>1, <1>2, StageNames DEF CommitOk
<1>6. DocOk' /\ gov' \in Nat
  BY <1>1 DEF GInv, DocOk
<1> QED BY <1>4, <1>5, <1>6 DEF GInv

(* InitChain does not change what is committed.                            *)
LEMMA InitChainOk ==
    ASSUME GInv, pc \in Starting \/ ~(committed.height > 0),
           UNCHANGED <<doc, committed, counters>>,
           pc' \in Starting \cup {"panicked"}, pc' \in Starting => ChainOk'
    PROVE  GInv'
<1>1. doc' = doc /\ committed' = committed /\ gov' = gov
  BY DEF counters
<1>2. ~(committed.height > 0)
  BY DEF GInv, CommitOk
<1>3. CommitOk'
  BY <1>1, <1>2, StageNames DEF CommitOk
<1>4. pc' = "panicked" => ChainOk'
  BY StageNames DEF ChainOk
<1>5. DocOk' /\ gov' \in Nat
  BY <1>1 DEF GInv, DocOk
<1> QED BY <1>3, <1>4, <1>5 DEF GInv

LEMMA StartOk == ASSUME GInv, Start PROVE GInv'
<1>1. CASE committed.height > 0
  BY <1>1, LoadOk DEF Start
<1>2. CASE ~(committed.height > 0)
  <2>1. pc' = "twasm" /\ chain' = [EmptyChain EXCEPT !.bal = doc.bal, !.funds = doc.funds]
    BY <1>2, Orders DEF Start
  <2>2. Shape(chain')
    BY <2>1, EmptyShape
  <2>3. ChainOk'
    BY <2>1, <2>2, StageNames DEF ChainOk
  <2> QED BY <1>2, <2>1, <2>3, InitChainOk, StageNames DEF Start
<1> QED BY <1>1, <1>2

LEMMA InitTwasmOk == ASSUME GInv, InitTwasm PROVE GInv'
<1>1. /\ pc = "twasm" /\ UNCHANGED <<doc, committed, counters>> /\ doc' = doc
      /\ pc' = "panicked" \/ (chain' \in InitTwasmGenesis(chain, doc.twasm) /\ pc' = "poe")
  BY Orders DEF InitTwasm, Step
<1>2. Shape(chain) /\ TwasmOk(doc.twasm) /\ (doc.mode = "dump" => KindsOk(doc.twasm))
  BY <1>1, SeedOk, DumpOk DEF GInv, ChainOk, DocOk
<1>3. ASSUME chain' \in InitTwasmGenesis(chain, doc.twasm), pc' = "poe" PROVE ChainOk'
  <2> DEFINE n == Len(doc.twasm.contracts)
  <2>1. Restored(chain', doc.twasm, n)
    BY <1>2, <1>3, TwasmImported
  <2>2. n \in Nat /\ DOMAIN doc.twasm.contracts = 1 .. n /\ \A c \in 1 .. n : c <= n
    BY <1>2, SMTT(30) DEF TwasmOk
  <2> HIDE DEF n
  <2>3. Shape(chain') /\ (doc.mode = "dump" => Imported(chain', doc))
    BY <1>2, <2>1, <2>2, ShapeInfos DEF Restored, Imported, n
  <2> QED BY <1>1, <1>3, <2>3, StageNames DEF ChainOk
<1> QED BY <1>1, <1>3, InitChainOk, StageNames

LEMMA InitPoEOk == ASSUME GInv, InitPoE PROVE GInv'
<1>1. pc = "poe" /\ UNCHANGED <<doc, committed, counters>> /\ doc' = doc /\ Shape(chain)
  BY DEF InitPoE, GInv, ChainOk
<1>2. CASE doc.mode = "seed"
  <2>1. pc' = "panicked" \/ (chain' = chain /\ pc' = "engagement")
    BY <1>2, Orders DEF InitPoE, Step
  <2>2. ASSUME chain' = chain, pc' = "engagement" PROVE ChainOk'
    <3>1. "engagement" \in BootStages /\ Before("engagement") = {}
      BY DEF BootStages, Before
    <3>2. Progress(chain, doc, "engagement")
      BY <1>1, <3>1 DEF Progress
    <3> QED BY <1>1, <1>2, <2>2, <3>1, <3>2, StageNames DEF ChainOk
  <2>3. pc' \in Starting \cup {"panicked"} /\ (pc' \in Starting => ChainOk')
    BY <2>1, <2>2, StageNames DEF BootStages
  <2> QED BY <1>1, <2>3, InitChainOk, StageNames
<1>3. CASE doc.mode # "seed"
  <2>1. Dump(doc) /\ doc.mode = "dump" /\ Imported(chain, doc)
    BY <1>1, <1>3, SeedOk, DumpOk DEF GInv, DocOk, ChainOk
  <2>2. pc' = "panicked" \/ (chain' = SetDumpedAddresses(chain, doc.contracts) /\ pc' = "verify")
    BY <1>3 DEF InitPoE, Step
  <2>3. ASSUME chain' = SetDumpedAddresses(chain, doc.contracts), pc' = "verify" PROVE ChainOk'
    <3>1. Complete(chain', doc)
      BY <1>1, <2>1, <2>3, DumpComplete
    <3> QED BY <1>1, <1>3, <2>3, <3>1, StageNames DEF ChainOk
  <2> QED BY <1>1, <2>2, <2>3, InitChainOk, StageNames
<1> QED BY <1>2, <1>3

LEMMA BootstrapOk == ASSUME GInv, BootstrapPoEContracts PROVE GInv'
<1>1. PICK i \in 1 .. Len(Stages) - 2 : pc = Stages[i] /\ Step(Bootstrapped(chain, doc, pc), Stages[i + 1])
  BY DEF BootstrapPoEContracts
<1>2. UNCHANGED <<doc, committed, counters>> /\ doc' = doc
  BY DEF BootstrapPoEContracts
<1>3. pc \in BootStages
  BY <1>1, SMTT(30) DEF Stages, BootStages
<1>4. doc \in SeedDocs /\ ValidateGenesis(doc) /\ doc.mode = "seed" /\ Progress(chain, doc, Stages[i])
  BY <1>1, <1>3, DumpOk DEF GInv, DocOk, ChainOk
<1>5. pc' = "panicked" \/ (chain' \in Bootstrapped(chain, doc, Stages[i]) /\ pc' = Stages[i + 1])
  BY <1>1 DEF Step
<1>6. ASSUME chain' \in Bootstrapped(chain, doc, Stages[i]), pc' = Stages[i + 1]
      PROVE  pc' \in BootStages /\ ChainOk'
  <2>1. Progress(chain', doc, pc') /\ pc' \in BootStages
    BY <1>4, <1>6, StageStep
  <2> QED BY <1>2, <1>4, <2>1, StageNames DEF ChainOk
<1> QED BY <1>2, <1>3, <1>5, <1>6, InitChainOk, StageNames

LEMMA InitPoEGenTxsOk == ASSUME GInv, InitPoEGenTxs PROVE GInv'
<1>1. /\ pc = "gentx" /\ UNCHANGED <<doc, committed, counters>> /\ doc' = doc
      /\ pc' = "panicked" \/ (chain' \in DeliverGenTxs(chain, doc) /\ pc' = "verify")
  BY DEF InitPoEGenTxs, Step
<1>2. pc \in BootStages
  BY <1>1 DEF BootStages
<1>3. doc \in SeedDocs /\ ValidateGenesis(doc) /\ doc.mode = "seed" /\ Progress(chain, doc, "gentx")
  BY <1>1, <1>2, DumpOk DEF GInv, DocOk, ChainOk
<1>4. ASSUME chain' \in DeliverGenTxs(chain, doc), pc' = "verify" PROVE ChainOk'
  <2>1. Complete(chain', doc) /\ AllPinned(chain')
    BY <1>3, <1>4, SeedOk, StageGenTx
  <2> QED BY <1>1, <1>4, <2>1, StageNames DEF ChainOk
<1> QED BY <1>1, <1>2, <1>4, InitChainOk, StageNames

LEMMA InitPoEVerifyOk == ASSUME GInv, InitPoEVerify PROVE GInv'
<1>1. /\ pc = "verify" /\ UNCHANGED <<doc, committed, counters>> /\ doc' = doc
      /\ pc' = "panicked" \/ (chain' \in FirstValidators(chain, doc) /\ pc' = "globalfee")
  BY Orders DEF InitPoEVerify, Step
<1>2. Complete(chain, doc) /\ (doc.mode = "seed" => AllPinned(chain))
  BY <1>1 DEF GInv, ChainOk
<1>3. ASSUME chain' \in FirstValidators(chain, doc), pc' = "globalfee" PROVE ChainOk'
  <2>1. Complete(chain', doc) /\ (doc.mode = "seed" => AllHandedOver(chain')) /\ ActiveKeys(chain') # {}
    BY <1>2, <1>3, Verified
  <2>2. ActiveKeys(chain)' = ActiveKeys(chain')
    BY DEF ActiveKeys, Data, GetPoEContractAddress
  <2> QED BY <1>1, <1>3, <2>1, <2>2, StageNames DEF ChainOk
<1> QED BY <1>1, <1>3, InitChainOk, StageNames

LEMMA InitGlobalFeeOk == ASSUME GInv, InitGlobalFee PROVE GInv'
<1>1. /\ pc = "globalfee" /\ UNCHANGED <<doc, committed, counters>> /\ doc' = doc /\ gov' = gov
      /\ chain' = [chain EXCEPT !.minGasPrices = doc.minGasPrices] /\ pc' = "response"
  BY Orders DEF InitGlobalFee, counters
<1>2. /\ Complete(chain, doc) /\ ActiveKeys(chain) # {}
      /\ doc.mode = "seed" /\ gov = 0 => AllHandedOver(chain)
  BY <1>1 DEF GInv, ChainOk
<1>3. Mirrors(chain, chain')
  BY <1>1, <1>2 DEF Complete, Built, Mirrors, Shape, Fields
<1>4. Complete(chain', doc) /\ ActiveKeys(chain') # {} /\ (doc.mode = "seed" /\ gov = 0 => AllHandedOver(chain'))
  BY <1>2, <1>3, MirrorsComplete
<1>5. ChainOk'
  BY <1>1, <1>4, StageNames DEF ChainOk
<1> QED BY <1>1, <1>5, InitChainOk, StageNames

LEMMA RespondInitChainOk == ASSUME GInv, RespondInitChain PROVE GInv'
<1>1. /\ pc = "response" /\ UNCHANGED <<doc, committed, counters>> /\ doc' = doc /\ gov' = gov
      /\ pc' = "panicked" \/ (chain' = chain /\ pc' = "block" /\ tm' = ActiveKeys(chain))
  BY DEF RespondInitChain, Step, InitialSet, counters
<1>2. /\ Complete(chain, doc) /\ ActiveKeys(chain) # {}
      /\ doc.mode = "seed" /\ gov = 0 => AllHandedOver(chain)
  BY <1>1 DEF GInv, ChainOk
<1>3. ASSUME chain' = chain, pc' = "block", tm' = ActiveKeys(chain) PROVE ChainOk'
  BY <1>1, <1>2, <1>3, StageNames DEF ChainOk
<1> QED BY <1>1, <1>3, InitChainOk, StageNames

(* A block is committed.                                                   *)
LEMMA CommitBlockOk ==
    ASSUME GInv, doc' = doc, pc' = "running", gov' \in Nat,
           committed' = [chain' EXCEPT !.cache = NoAddresses, !.embedded = TRUE],
           Complete(chain', doc), doc.mode = "seed" /\ gov' = 0 => AllHandedOver(chain'),
           tm' = ActiveKeys(chain'), tm' # {}, chain'.height > 0
    PROVE  GInv'
<1> DEFINE s == chain'
           k == [s EXCEPT !.cache = NoAddresses, !.embedded = TRUE]
           r == InitContractAddressCache(k)
<1>1. /\ Complete(s, doc) /\ (doc.mode = "seed" /\ gov' = 0 => AllHandedOver(s))
      /\ tm' = ActiveKeys(s) /\ tm' # {} /\ s.height > 0
  OBVIOUS
<1>2. Loaded' = r /\ committed' = k
  BY SMTT(30) DEF Loaded, InitContractAddressCache
<1>3. ActiveKeys(chain)' = ActiveKeys(s) /\ ActiveKeys(Loaded)' = ActiveKeys(Loaded')
  BY DEF ActiveKeys, Data, GetPoEContractAddress
<1> HIDE DEF s
<1>4. Mirrors(s, r) /\ k.height = s.height
  BY <1>1, Reloaded
<1> HIDE DEF k, r
<1>5. Complete(r, doc) /\ ActiveKeys(r) = ActiveKeys(s) /\ (AllHandedOver(s) => AllHandedOver(r))
  BY <1>1, <1>4, MirrorsComplete
<1>6. ChainOk'
  BY <1>1, <1>3, StageNames DEF ChainOk, s
<1>7. CommitOk'
  BY <1>1, <1>2, <1>3, <1>4, <1>5, StageNames DEF CommitOk
<1>8. DocOk'
  BY DEF GInv, DocOk
<1> QED BY <1>6, <1>7, <1>8 DEF GInv

LEMMA FirstBlockOk == ASSUME GInv, FirstBlock PROVE GInv'
<1>1. /\ pc = "block" /\ chain' = [chain EXCEPT !.height = 1, !.embedded = FALSE]
      /\ committed' = [chain' EXCEPT !.cache = NoAddresses, !.embedded = TRUE]
      /\ pc' = "running" /\ doc' = doc /\ tm' = tm /\ gov' = gov
  BY DEF FirstBlock, counters
<1>2. /\ Complete(chain, doc) /\ ActiveKeys(chain) # {} /\ tm = ActiveKeys(chain) /\ gov \in Nat
      /\ doc.mode = "seed" /\ gov = 0 => AllHandedOver(chain)
  BY <1>1 DEF GInv, ChainOk
<1>3. Mirrors(chain, chain') /\ chain'.height > 0
  BY <1>1, <1>2, SMTT(30) DEF Complete, Built, Mirrors, Shape, Fields
<1>4. /\ Complete(chain', doc) /\ ActiveKeys(chain') = ActiveKeys(chain)
      /\ AllHandedOver(chain) => AllHandedOver(chain')
  BY <1>2, <1>3, MirrorsComplete
<1> QED BY <1>1, <1>2, <1>3, <1>4, CommitBlockOk

LEMMA CrashOk == ASSUME GInv, Crash PROVE GInv'
<1>1. /\ pc' = "down" /\ doc' = doc /\ committed' = committed /\ tm' = tm /\ gov' = gov
      /\ Loaded' = Loaded
  BY DEF Crash, Loaded
<1>2. ChainOk' /\ CommitOk'
  BY <1>1, StageNames DEF ChainOk, CommitOk, GInv
<1> QED BY <1>1, <1>2 DEF GInv, DocOk

LEMMA OtherBlockOk == ASSUME GInv, UNCHANGED vars PROVE GInv'
<1>1. Loaded' = Loaded
  BY DEF vars, Loaded
<1> QED BY <1>1 DEF GInv, vars, DocOk, ChainOk, CommitOk

(* A block of a running chain.                                             *)
LEMMA BlockOk ==
    ASSUME GInv, NEW results, Block(results), chain' \in results => Complete(chain', doc),
           tm' = ActiveKeys(chain'), tm' # {}, chain'.height = chain.height
    PROVE  GInv'
<1>1. /\ pc = "running" /\ gov' = gov + 1 /\ chain' \in results /\ doc' = doc /\ pc' = "running"
      /\ committed' = [chain' EXCEPT !.cache = NoAddresses, !.embedded = TRUE]
  BY DEF Block
<1>2. gov \in Nat /\ chain.height > 0
  BY <1>1 DEF GInv, ChainOk
<1>3. gov' \in Nat /\ gov' # 0
  BY <1>1, <1>2, SMTT(30)
<1> QED BY <1>1, <1>2, <1>3, CommitBlockOk

LEMMA RunningOk ==
    ASSUME GInv, pc = "running"
    PROVE  Shape(chain) /\ Complete(chain, doc) /\ tm = ActiveKeys(chain) /\ tm # {}
BY DEF GInv, ChainOk, Complete

(* One that does not change the state of a contract.                       *)
LEMMA QuietBlockOk ==
    ASSUME GInv, NEW results, Block(results), UNCHANGED tm,
           chain' \in results => KeepsData(chain, chain')
    PROVE  GInv'
<1>1. pc = "running" /\ chain' \in results
  BY DEF Block
<1>2. Complete(chain', doc) /\ ActiveKeys(chain') = ActiveKeys(chain) /\ chain'.height = chain.height
  BY <1>1, RunningOk, CompleteData DEF KeepsData, Frame
<1> QED BY <1>1, <1>2, RunningOk, BlockOk

LEMMA GovernanceOk ==
    ASSUME GInv, NEW t, Promote(t) \/ Demote(t) \/ ChangeMigrator(t) PROVE GInv'
<1>1. Shape(chain)
  BY RunningOk DEF Promote, Demote, ChangeMigrator, Block
<1>2. CASE Promote(t)
  BY <1>1, <1>2, SetPrivilegedGrows, QuietBlockOk DEF Promote, Grows
<1>3. CASE Demote(t)
  BY <1>1, <1>3, UnsetPrivilegedKeeps, QuietBlockOk DEF Demote
<1>4. CASE ChangeMigrator(t)
  BY <1>1, <1>4, MigratorKeeps, QuietBlockOk DEF ChangeMigrator
<1> QED BY <1>2, <1>3, <1>4

LEMMA ChangeValidatorsOk == ASSUME GInv, ChangeValidators PROVE GInv'
<1> DEFINE Change(a) == [chain EXCEPT !.infos[GetPoEContractAddress(chain, "VALSET")].data.active = a]
           choices == (SUBSET Eligible(chain)) \ {{}, Data(chain, "VALSET").active}
           results == {Change(a) : a \in choices}
<1>1. Block(results) /\ tm' = ActiveKeys(chain')
  BY DEF ChangeValidators
<1>2. pc = "running" /\ chain' \in results
  BY <1>1 DEF Block
<1>3. PICK a \in choices : chain' = Change(a)
  BY <1>2
<1>4. a # {}
  OBVIOUS
<1> HIDE DEF choices
<1>5. Complete(chain', doc) /\ chain'.height = chain.height /\ ActiveKeys(chain') # {}
  <2>1. Complete(chain, doc)
    BY <1>2, RunningOk
  <2> QED BY <1>3, <1>4, <2>1, ActiveSet, SMTT(30)
<1> HIDE DEF results
<1> QED BY <1>1, <1>5, BlockOk

LEMMA ExportOk == ASSUME GInv, ExportAppStateAndValidators PROVE GInv'
<1>1. /\ pc = "running" /\ pc' = "down" /\ committed' = EmptyChain /\ gov' = gov
      /\ \E asks \in ImportRequests : doc' = ExportGenesis(Loaded, asks)
  BY DEF ExportAppStateAndValidators, Loaded
<1>2. PICK asks \in ImportRequests : doc' = ExportGenesis(Loaded, asks)
  BY <1>1
<1>3. Complete(Loaded, doc)
  BY <1>1 DEF GInv, CommitOk
<1>4. Dump(doc')
  BY <1>2, <1>3, ExportIsDump
<1>5. ~(committed'.height > 0)
  <2>1. EmptyChain.height = 0
    BY EmptyShape
  <2> QED BY <1>1, <2>1, SMTT(30)
<1>6. ChainOk' /\ CommitOk'
  BY <1>1, <1>5, StageNames DEF ChainOk, CommitOk
<1> QED BY <1>1, <1>4, <1>6 DEF GInv, DocOk

(* The contracts of the PoE module are set up in an order in which every   *)
(* address that a message refers to is already stored, and no later step   *)
(* of InitChain, of a restart, of an export or of an import loses one.     *)
(* This is the inductive invariant of the genesis.                         *)
THEOREM GenesisInvariance == Spec => []GInv
<1>1. Init => GInv
  <2> SUFFICES ASSUME Init PROVE GInv
    OBVIOUS
  <2>1. EmptyChain.height = 0
    BY EmptyShape
  <2>2. /\ doc \in SeedDocs /\ ValidateGenesis(doc) /\ pc = "down" /\ gov = 0
        /\ ~(committed.height > 0)
    BY <2>1, SMTT(30) DEF Init
  <2>3. ChainOk /\ CommitOk
    BY <2>2, StageNames DEF ChainOk, CommitOk
  <2> QED BY <2>2, <2>3 DEF GInv, DocOk
<1>2. GInv /\ [Next]_vars => GInv'
  <2> SUFFICES ASSUME GInv, [Next]_vars PROVE GInv'
    OBVIOUS
  <2>1. CASE Start
    BY <2>1, StartOk
  <2>2. CASE Restore
    BY <2>2, LoadOk DEF Restore
  <2>3. CASE InitTwasm
    BY <2>3, InitTwasmOk
  <2>4. CASE InitPoE
    BY <2>4, InitPoEOk
  <2>5. CASE BootstrapPoEContracts
    BY <2>5, BootstrapOk
  <2>6. CASE InitPoEGenTxs
    BY <2>6, InitPoEGenTxsOk
  <2>7. CASE InitPoEVerify
    BY <2>7, InitPoEVerifyOk
  <2>8. CASE InitGlobalFee
    BY <2>8, InitGlobalFeeOk
  <2>9. CASE RespondInitChain
    BY <2>9, RespondInitChainOk
  <2>10. CASE FirstBlock
    BY <2>10, FirstBlockOk
  <2>11. CASE Crash
    BY <2>11, CrashOk
  <2>12. CASE \E t \in {"VALSET", "STAKING"} : Promote(t) \/ Demote(t)
    BY <2>12, GovernanceOk
  <2>13. CASE \E t \in {"VALSET", "DISTRIBUTION"} : ChangeMigrator(t)
    BY <2>13, GovernanceOk
  <2>14. CASE ChangeValidators
    BY <2>14, ChangeValidatorsOk
  <2>15. CASE ExportAppStateAndValidators
    BY <2>15, ExportOk
  <2>16. CASE OtherBlock \/ UNCHANGED vars
    BY <2>16, OtherBlockOk DEF OtherBlock
  <2> QED BY <2>1, <2>2, <2>3, <2>4, <2>5, <2>6, <2>7, <2>8, <2>9, <2>10, <2>11, <2>12, <2>13,
             <2>14, <2>15, <2>16, SMTT(30) DEF Next, InitChain
<1> QED BY <1>1, <1>2, PTL DEF Spec

-----------------------------------------------------------------------------
(* The properties.                                                         *)

(* From the end of the bootstrap on, every contract is set up.             *)
LEMMA SetUp ==
    ASSUME GInv, pc \in {"gentx", "verify", "block", "running"}
    PROVE  /\ Shape(chain)
           /\ \A t \in PoEContractTypes :
                 /\ Built(chain, t)
                 /\ GetPoEContractAddress(chain, t) = chain.addr[t]
                 /\ Data(chain, t) = chain.infos[chain.addr[t]].data
                 /\ doc.mode = "seed" => Configured(t, chain.addr, Data(chain, t), doc)
           /\ \A t \in {"ENGAGEMENT", "VALSET"} :
                 Owned(chain, t, chain.addr["OVERSIGHT_COMMUNITY_PROPOSALS"])
<1>1. CASE pc = "gentx"
  <2>1. /\ "gentx" \in BootStages /\ "gentx" \in HandedOver /\ Before("gentx") = PoEContractTypes
        /\ {"ENGAGEMENT", "VALSET"} \subseteq PoEContractTypes
    BY TypesAre DEF BootStages, HandedOver, Before
  <2>2. Progress(chain, doc, "gentx")
    BY <1>1, <2>1 DEF GInv, ChainOk
  <2>3. Shape(chain) /\ \A t \in PoEContractTypes : BuiltFrom(chain, t, doc)
    BY <2>1, <2>2 DEF Progress
  <2>4. \A t \in PoEContractTypes : /\ GetPoEContractAddress(chain, t) = chain.addr[t]
                                    /\ Data(chain, t) = chain.infos[chain.addr[t]].data
    BY <2>3, GetBuilt DEF BuiltFrom, Data
  <2>5. \A t \in {"ENGAGEMENT", "VALSET"} :
           Owned(chain, t, chain.addr["OVERSIGHT_COMMUNITY_PROPOSALS"])
    BY <2>1, <2>2 DEF Progress
  <2> QED BY <2>3, <2>4, <2>5 DEF BuiltFrom
<1>2. CASE pc \in {"verify", "block", "running"}
  <2>1. Complete(chain, doc)
    BY <1>2 DEF GInv, ChainOk
  <2>2. \A t \in PoEContractTypes : /\ GetPoEContractAddress(chain, t) = chain.addr[t]
                                    /\ Data(chain, t) = chain.infos[chain.addr[t]].data
    BY <2>1, CompleteGet
  <2> QED BY <2>1, <2>2 DEF Complete
<1> QED BY <1>1, <1>2

(* The address found for a type, in the cache or in the store, is the one  *)
(* of the contract that BootstrapPoEContracts set up for it, whatever      *)
(* crashes, restarts, state syncs, exports and imports have happened.      *)
THEOREM AddressSafety == Spec => []AddressesSurvive
<1>1. GInv => AddressesSurvive
  BY SetUp DEF AddressesSurvive, Built, Linked
<1> QED BY <1>1, GenesisInvariance, PTL

(* Tendermint's validators are the active validators of the valset         *)
(* contract and there is one, in every block of every chain.               *)
THEOREM TendermintSafety == Spec => []TendermintFollows
<1>1. GInv => TendermintFollows
  BY DEF GInv, ChainOk, TendermintFollows
<1> QED BY <1>1, GenesisInvariance, PTL

(* BootstrapPoEContracts connects the contracts as they have to be, hands  *)
(* the engagement and the valset contract over to the oversight community, *)
(* and a chain from a seed has all codes pinned and all contracts in the   *)
(* hands of validator voting as long as governance changes nothing.        *)
THEOREM WiringSafety == Spec => []ContractsAreWired
<1>1. ASSUME GInv PROVE ContractsAreWired
  <2>1. CASE pc \notin {"gentx", "verify", "block", "running"}
    BY <2>1 DEF ContractsAreWired
  <2>2. CASE pc \in {"gentx", "verify", "block", "running"}
    <3> DEFINE a == chain.addr
               D(t) == Data(chain, t)
               o == "OVERSIGHT_COMMUNITY_PROPOSALS"
    <3>1. \A t \in PoEContractTypes : /\ Linked(t, a, D(t)) /\ GetPoEContractAddress(chain, t) = a[t]
                                      /\ D(t) = chain.infos[a[t]].data
      BY <1>1, <2>2, SetUp DEF Built
    <3>2. \A t \in {"ENGAGEMENT", "VALSET"} : D(t).owner = a[o]
      <4>1. {"ENGAGEMENT", "VALSET"} \subseteq PoEContractTypes
        BY TypesAre
      <4>2. \A t \in {"ENGAGEMENT", "VALSET"} : Owned(chain, t, a[o])
        BY <1>1, <2>2, SetUp
      <4> QED BY <3>1, <4>1, <4>2 DEF Owned
    <3>3. pc \in {"block", "running"} /\ doc.mode = "seed" /\ gov = 0 => AllHandedOver(chain)
      BY <1>1 DEF GInv, ChainOk
    <3> HIDE DEF a, D
    <3>4. D("MIXER").leftGroup = a["ENGAGEMENT"] /\ D("MIXER").rightGroup = a["STAKING"]
      BY <3>1, TypesAre DEF Linked
    <3>5. D("COMMUNITY_POOL").groupAddress = a["ENGAGEMENT"]
      BY <3>1, TypesAre DEF Linked
    <3>6. /\ D("VALSET").membership = a["MIXER"]
          /\ {x.address : x \in D("VALSET").distribution} = {a["ENGAGEMENT"], a["COMMUNITY_POOL"]}
      BY <3>1, TypesAre DEF Linked
    <3>7. /\ D("VALIDATOR_VOTING").group = a["DISTRIBUTION"]
          /\ D("ARBITER_POOL_VOTING").group = a["ARBITER_POOL"] /\ D(o).group = a["OVERSIGHT_COMMUNITY"]
      BY <3>1, TypesAre DEF Linked
    <3>8. \A t \in {"ENGAGEMENT", "STAKING", "COMMUNITY_POOL", "MIXER", "DISTRIBUTION", "ARBITER_POOL",
                    "OVERSIGHT_COMMUNITY", "VALIDATOR_VOTING", o} :
             GetPoEContractAddress(chain, t) = a[t]
      BY <3>1, TypesAre
    <3>9. pc \in {"block", "running"} /\ doc.mode = "seed" /\ gov = 0 =>
             \A t \in PoEContractTypes :
                /\ chain.infos[GetPoEContractAddress(chain, t)].code \in chain.pinned
                /\ chain.infos[GetPoEContractAddress(chain, t)].admin
                   = GetPoEContractAddress(chain, "VALIDATOR_VOTING")
      BY <3>1, <3>3, <3>8 DEF AllHandedOver, AllPinned, a
    <3> QED BY <3>2, <3>4, <3>5, <3>6, <3>7, <3>8, <3>9 DEF ContractsAreWired, D
  <2> QED BY <2>1, <2>2
<1> QED BY <1>1, GenesisInvariance, PTL

(* The conversion of a period of whole seconds loses nothing.              *)
LEMMA NothingCut == \A d \in Nat : WholeSeconds(d) => Seconds(d) * Second = d
BY SMTT(30) DEF WholeSeconds, Seconds, Second

(* Periods reach the contracts without losing a part of a second, and what *)
(* the two shares of the rewards leave is the validators' share.           *)
THEOREM ConfigSafety == Spec => []ConfigReachesContracts
<1>1. ASSUME GInv PROVE ConfigReachesContracts
  <2> SUFFICES ASSUME pc \in {"gentx", "verify", "block", "running"}, doc.mode = "seed"
               PROVE  ConfigReachesContracts
    BY DEF ConfigReachesContracts
  <2> DEFINE a == chain.addr
             D(t) == Data(chain, t)
             e == doc.valset.engagementRewardRatio
             p == doc.valset.communityPoolRewardRatio
             x == [address |-> a["ENGAGEMENT"], ratio |-> e]
             y == [address |-> a["COMMUNITY_POOL"], ratio |-> p]
             f == [z \in {x, y} |-> z.ratio]
  <2>1. \A t \in PoEContractTypes : /\ Linked(t, a, D(t)) /\ Configured(t, a, D(t), doc)
                                    /\ D(t) = chain.infos[a[t]].data
    BY <1>1, SetUp DEF Built
  <2>2. doc \in SeedDocs /\ validateSeedContracts(doc)
    BY <1>1, DumpOk DEF GInv, DocOk, ValidateGenesis
  <2>3. /\ {doc.halflife, doc.stake.unbondingPeriod, doc.valset.epochLength,
            doc.valset.offlineJailDuration, doc.ap.waitingPeriod} \subseteq Nat
        /\ e \in Int /\ p \in Int /\ doc.valset.validatorRewardRatio \in Int
    BY <2>2, GenesisAssumption
  <2>4. /\ WholeSeconds(doc.halflife) /\ WholeSeconds(doc.stake.unbondingPeriod)
        /\ WholeSeconds(doc.valset.epochLength) /\ WholeSeconds(doc.valset.offlineJailDuration)
        /\ WholeSeconds(doc.ap.waitingPeriod) /\ e + p + doc.valset.validatorRewardRatio = 100
    BY <2>2 DEF validateSeedContracts, ValidValsetConfig, ValidStakeConfig, ValidArbiterConfig
  <2>5. \A d \in Nat : WholeSeconds(d) => Seconds(d) * Second = d
    BY NothingCut
  <2>6. a["ENGAGEMENT"] # a["COMMUNITY_POOL"]
    <3>1. D("ENGAGEMENT").label = "ENGAGEMENT" /\ D("COMMUNITY_POOL").label = "COMMUNITY_POOL"
      BY <2>1, TypesAre DEF Linked
    <3>2. /\ D("ENGAGEMENT") = chain.infos[a["ENGAGEMENT"]].data
          /\ D("COMMUNITY_POOL") = chain.infos[a["COMMUNITY_POOL"]].data
      BY <2>1, TypesAre
    <3> HIDE DEF D, a
    <3> QED BY <3>1, <3>2
  <2>7. D("VALSET").distribution = {x, y}
    BY <2>1, TypesAre DEF Configured
  <2>8. /\ D("ENGAGEMENT").halflife = Seconds(doc.halflife)
        /\ D("STAKING").unbondingPeriod = Seconds(doc.stake.unbondingPeriod)
        /\ D("VALSET").epochLength = Seconds(doc.valset.epochLength)
        /\ D("VALSET").offlineJailDuration = Seconds(doc.valset.offlineJailDuration)
        /\ D("ARBITER_POOL_VOTING").waitingPeriod = Seconds(doc.ap.waitingPeriod)
    BY <2>1, TypesAre DEF Configured
  <2>9. x # y /\ f[x] = e /\ f[y] = p /\ DOMAIN f = {x, y}
    BY <2>6
  <2>10. SumFunction([z \in D("VALSET").distribution |-> z.ratio]) = SumFunctionOnSet(f, {x, y})
    BY <2>7, <2>9 DEF SumFunction
  <2> HIDE DEF a, D, x, y, f, e, p
  <2>11. SumFunctionOnSet(f, {x, y}) = e + p
    BY <2>3, <2>9, SumPair
  <2>12. doc.valset.validatorRewardRatio
         = 100 - SumFunction([z \in D("VALSET").distribution |-> z.ratio])
    BY <2>3, <2>4, <2>10, <2>11, SMTT(30)
  <2> QED BY <2>3, <2>4, <2>5, <2>8, <2>12, SMTT(30) DEF ConfigReachesContracts, D
<1> QED BY <1>1, GenesisInvariance, PTL

-----------------------------------------------------------------------------
(* The import gives back what was exported.                                *)

(* What an import has restored stays as it is until the first block.       *)
Importing == {"poe", "verify", "globalfee", "response", "block"}

ImportOk ==
    /\ pc = "twasm" => DOMAIN chain.index = Entry
    /\ doc.mode = "dump" => ValidateGenesis(doc)
    /\ doc.mode = "dump" /\ pc \in Importing =>
          Fits(chain, doc.twasm, Len(doc.twasm.contracts)) /\ Imported(chain, doc)

LEMMA DumpValid == ASSUME NEW d, Dump(d) PROVE ValidateGenesis(d)
<1> DEFINE l == PoEContractTypeList
           types == [i \in DOMAIN d.contracts |-> d.contracts[i].type]
<1>1. /\ d.mode = "dump" /\ d.twasm.privilegedContractAddresses = <<>> /\ d.twasm.pinnedCodeIDs = <<>>
      /\ DOMAIN d.contracts = 1 .. 11 /\ \A i \in 1 .. 11 : d.contracts[i].type = l[i]
  BY ListAt DEF Dump
<1>2. IsInjective(<<>>) /\ \A S : Range(<<>>) \subseteq S
  BY SMTT(30) DEF IsInjective, Range
<1>3. IsInjective(types)
  <2>1. DOMAIN types = 1 .. 11 /\ \A i \in 1 .. 11 : types[i] = l[i]
    BY <1>1
  <2> HIDE DEF types
  <2> QED BY <2>1, TypesDistinct DEF IsInjective
<1>4. {c.type : c \in Range(d.contracts)} = PoEContractTypes
  <2>1. \A c \in Range(d.contracts) : c.type \in PoEContractTypes
    BY <1>1, ListAt DEF Range
  <2>2. ASSUME NEW t \in PoEContractTypes PROVE \E c \in Range(d.contracts) : c.type = t
    <3>1. PICK i \in 1 .. 11 : l[i] = t
      BY TypeAt
    <3> QED BY <1>1, <3>1 DEF Range
  <2> QED BY <2>1, <2>2
<1>5. ValidateTwasmGenesis(d.twasm)
  BY <1>1, <1>2 DEF ValidateTwasmGenesis
<1> QED BY <1>1, <1>3, <1>4, <1>5 DEF ValidateGenesis, ValidImportDump

(* The steps of InitChain behind the import leave it alone.                *)
LEMMA ImportKept ==
    ASSUME ImportOk, pc \in Importing, pc' # "twasm", doc' = doc,
           doc.mode = "dump" => /\ Shape(chain') /\ chain'.infos = chain.infos
                                /\ chain'.index = chain.index /\ chain'.privileged = chain.privileged
                                /\ chain'.codes = chain.codes /\ chain'.pinned = chain.pinned
    PROVE  ImportOk'
<1> DEFINE n == Len(doc.twasm.contracts)
<1>1. ASSUME doc.mode = "dump" PROVE Fits(chain', doc.twasm, n) /\ Imported(chain', doc)
  <2>1. Fits(chain, doc.twasm, n) /\ Imported(chain, doc)
    BY <1>1 DEF ImportOk
  <2> HIDE DEF n
  <2>2. Fits(chain', doc.twasm, n)
    BY <1>1, <2>1, FitsKept
  <2> QED BY <1>1, <2>1, <2>2 DEF Imported
<1> QED BY <1>1 DEF ImportOk

LEMMA ImportElsewhere ==
    ASSUME ImportOk, doc' = doc, pc' # "twasm", pc' \notin Importing
    PROVE  ImportOk'
BY DEF ImportOk

LEMMA ImportStart == ASSUME ImportOk, Start PROVE ImportOk'
<1>1. doc' = doc
  BY DEF Start
<1>2. CASE pc' = "running"
  BY <1>1, <1>2, ImportElsewhere DEF Importing
<1>3. CASE pc' # "running"
  <2>1. pc' = "twasm" /\ chain' = [EmptyChain EXCEPT !.bal = doc.bal, !.funds = doc.funds]
    BY <1>3, Orders DEF Start
  <2>2. chain'.index = NoIndex
    BY <2>1 DEF EmptyChain
  <2>3. DOMAIN chain'.index = Entry
    BY <2>2 DEF NoIndex
  <2> QED BY <1>1, <2>1, <2>3 DEF ImportOk, Importing
<1> QED BY <1>2, <1>3

LEMMA ImportTwasm == ASSUME GInv, GInv', ImportOk, InitTwasm PROVE ImportOk'
<1>1. /\ pc = "twasm" /\ doc' = doc
      /\ pc' = "panicked" \/ (chain' \in InitTwasmGenesis(chain, doc.twasm) /\ pc' = "poe")
  BY Orders DEF InitTwasm, Step
<1>2. CASE pc' = "panicked"
  BY <1>1, <1>2, ImportElsewhere DEF Importing
<1>3. CASE chain' \in InitTwasmGenesis(chain, doc.twasm) /\ pc' = "poe"
  <2>1. ASSUME doc.mode = "dump"
        PROVE  Fits(chain', doc.twasm, Len(doc.twasm.contracts)) /\ Imported(chain', doc)
    <3>1. Dump(doc) /\ Shape(chain) /\ DOMAIN chain.index = Entry
      BY <1>1, <2>1, SeedOk DEF GInv, DocOk, ChainOk, ImportOk
    <3>2. TwasmOk(doc.twasm) /\ doc.twasm.privilegedContractAddresses = <<>>
      BY <3>1, DumpOk DEF Dump
    <3>3. Imported(chain', doc)
      BY <1>1, <1>3, <2>1 DEF GInv, ChainOk
    <3> DEFINE d == doc.twasm
    <3> HIDE DEF d
    <3>4. Fits(chain', d, Len(d.contracts))
      BY <1>3, <3>1, <3>2, TwasmFits DEF d
    <3> QED BY <3>3, <3>4 DEF d
  <2> QED BY <1>1, <1>3, <2>1 DEF ImportOk
<1> QED BY <1>1, <1>2, <1>3

LEMMA ImportPoE == ASSUME GInv, ImportOk, InitPoE PROVE ImportOk'
<1>1. pc = "poe" /\ doc' = doc /\ Shape(chain)
  BY DEF InitPoE, GInv, ChainOk
<1>2. CASE doc.mode = "seed"
  <2>1. pc' \in {"panicked", "engagement"}
    BY <1>2, Orders DEF InitPoE, Step
  <2> QED BY <1>1, <2>1, ImportElsewhere DEF Importing
<1>3. CASE doc.mode # "seed"
  <2>1. pc' = "panicked" \/ (chain' = SetDumpedAddresses(chain, doc.contracts) /\ pc' = "verify")
    BY <1>3 DEF InitPoE, Step
  <2>2. CASE pc' = "panicked"
    BY <1>1, <2>2, ImportElsewhere DEF Importing
  <2>3. CASE chain' = SetDumpedAddresses(chain, doc.contracts) /\ pc' = "verify"
    <3>1. Dump(doc)
      BY <1>3, SeedOk DEF GInv, DocOk
    <3>2. /\ Shape(chain') /\ chain'.infos = chain.infos
          /\ chain'.index = chain.index /\ chain'.privileged = chain.privileged
          /\ chain'.codes = chain.codes /\ chain'.pinned = chain.pinned
      BY <1>1, <2>3, <3>1, AddressesSet
    <3> QED BY <1>1, <2>3, <3>2, ImportKept DEF Importing
  <2> QED BY <2>1, <2>2, <2>3
<1> QED BY <1>2, <1>3

LEMMA ImportVerify == ASSUME GInv, ImportOk, InitPoEVerify PROVE ImportOk'
<1>1. /\ pc = "verify" /\ doc' = doc
      /\ pc' = "panicked" \/ (chain' \in FirstValidators(chain, doc) /\ pc' = "globalfee")
  BY Orders DEF InitPoEVerify, Step
<1>2. CASE pc' = "panicked"
  BY <1>1, <1>2, ImportElsewhere DEF Importing
<1>3. CASE chain' \in FirstValidators(chain, doc) /\ pc' = "globalfee"
  <2>1. Shape(chain)
    BY <1>1 DEF GInv, ChainOk, Complete
  <2>2. doc.mode = "dump" => chain' = chain
    BY <1>3 DEF FirstValidators
  <2> QED BY <1>1, <1>3, <2>1, <2>2, ImportKept DEF Importing
<1> QED BY <1>1, <1>2, <1>3

LEMMA ImportFee == ASSUME GInv, GInv', ImportOk, InitGlobalFee PROVE ImportOk'
<1>1. /\ pc = "globalfee" /\ doc' = doc
      /\ chain' = [chain EXCEPT !.minGasPrices = doc.minGasPrices] /\ pc' = "response"
  BY Orders DEF InitGlobalFee
<1>2. Shape(chain) /\ Shape(chain')
  BY <1>1 DEF GInv, ChainOk, Complete
<1>3. /\ chain'.infos = chain.infos
      /\ chain'.index = chain.index /\ chain'.privileged = chain.privileged
      /\ chain'.codes = chain.codes /\ chain'.pinned = chain.pinned
  BY <1>1, <1>2 DEF Shape, Fields
<1> QED BY <1>1, <1>2, <1>3, ImportKept DEF Importing

LEMMA ImportRespond == ASSUME GInv, ImportOk, RespondInitChain PROVE ImportOk'
<1>1. /\ pc = "response" /\ doc' = doc
      /\ pc' = "panicked" \/ (chain' = chain /\ pc' = "block")
  BY DEF RespondInitChain, Step
<1>2. Shape(chain)
  BY <1>1 DEF GInv, ChainOk, Complete
<1> QED BY <1>1, <1>2, ImportKept, ImportElsewhere DEF Importing

LEMMA ImportExport == ASSUME GInv, ExportAppStateAndValidators PROVE ImportOk'
<1>1. pc = "running" /\ pc' = "down" /\ \E asks \in ImportRequests : doc' = ExportGenesis(Loaded, asks)
  BY DEF ExportAppStateAndValidators, Loaded
<1>2. PICK asks \in ImportRequests : doc' = ExportGenesis(Loaded, asks)
  BY <1>1
<1>3. Complete(Loaded, doc)
  BY <1>1 DEF GInv, CommitOk
<1>4. ValidateGenesis(doc')
  BY <1>2, <1>3, ExportIsDump, DumpValid
<1> QED BY <1>1, <1>4 DEF ImportOk, Importing

(* A list that begins with another one, as ImportRestores says it.         *)
LEMMA StartsPart ==
    ASSUME NEW old \in Seq(Entry), NEW new \in Seq(Entry), Starts(new, old)
    PROVE  Len(old) <= Len(new) /\ old = SubSeq(new, 1, Len(old))
<1> DEFINE n == Len(old)
<1>1. n \in Nat /\ old = [i \in 1 .. n |-> old[i]] /\ SubSeq(new, 1, n) = [i \in 1 .. n |-> new[i]]
  BY SMTT(30) DEF Starts
<1> HIDE DEF n
<1>2. \A i \in 1 .. n : old[i] = new[i]
  BY DEF Starts, n
<1>3. old = SubSeq(new, 1, n)
  BY <1>1, <1>2
<1> QED BY <1>3 DEF n, Starts

(* An export passes ValidateGenesis, and InitGenesis of twasm restores     *)
(* from it codes, contracts, migrators and the state of every contract,    *)
(* custom or not; privileges are only added, by Import calls, and details, *)
(* flags and the index of the privileges agree, until the first block.     *)
THEOREM ImportSafety == Spec => []ImportRestores
<1>1. Init => ImportOk
  BY SeedOk DEF Init, ImportOk, Importing
<1>2. GInv /\ GInv' /\ ImportOk /\ [Next]_vars => ImportOk'
  <2> SUFFICES ASSUME GInv, GInv', ImportOk, [Next]_vars PROVE ImportOk'
    OBVIOUS
  <2>1. CASE Start
    BY <2>1, ImportStart
  <2>2. CASE Restore
    BY <2>2, ImportElsewhere DEF Restore, Importing
  <2>3. CASE InitTwasm
    BY <2>3, ImportTwasm
  <2>4. CASE InitPoE
    BY <2>4, ImportPoE
  <2>5. CASE BootstrapPoEContracts
    <3>1. PICK i \in 1 .. Len(Stages) - 2 : pc = Stages[i]
      BY <2>5 DEF BootstrapPoEContracts
    <3>2. pc \in BootStages
      BY <3>1, SMTT(30) DEF Stages, BootStages
    <3>3. doc' = doc /\ doc.mode = "seed"
      BY <2>5, <3>2 DEF BootstrapPoEContracts, GInv, ChainOk
    <3>4. pc' # "twasm"
      BY <2>5, SMTT(30) DEF BootstrapPoEContracts, Step, Stages
    <3> QED BY <3>3, <3>4 DEF ImportOk
  <2>6. CASE InitPoEGenTxs
    <3>1. doc' = doc /\ doc.mode = "seed" /\ pc' # "twasm"
      BY <2>6 DEF InitPoEGenTxs, Step, GInv, ChainOk, BootStages
    <3> QED BY <3>1 DEF ImportOk
  <2>7. CASE InitPoEVerify
    BY <2>7, ImportVerify
  <2>8. CASE InitGlobalFee
    BY <2>8, ImportFee
  <2>9. CASE RespondInitChain
    BY <2>9, ImportRespond
  <2>10. CASE FirstBlock
    BY <2>10, ImportElsewhere DEF FirstBlock, Importing
  <2>11. CASE Crash
    BY <2>11, ImportElsewhere DEF Crash, Importing
  <2>12. CASE \E t \in {"VALSET", "STAKING"} : Promote(t) \/ Demote(t)
    BY <2>12, ImportElsewhere DEF Promote, Demote, Block, Importing
  <2>13. CASE \E t \in {"VALSET", "DISTRIBUTION"} : ChangeMigrator(t)
    BY <2>13, ImportElsewhere DEF ChangeMigrator, Block, Importing
  <2>14. CASE ChangeValidators
    BY <2>14, ImportElsewhere DEF ChangeValidators, Block, Importing
  <2>15. CASE ExportAppStateAndValidators
    BY <2>15, ImportExport
  <2>16. CASE OtherBlock \/ UNCHANGED vars
    BY <2>16 DEF OtherBlock, vars, ImportOk
  <2> QED BY <2>1, <2>2, <2>3, <2>4, <2>5, <2>6, <2>7, <2>8, <2>9, <2>10, <2>11, <2>12, <2>13,
             <2>14, <2>15, <2>16, SMTT(30) DEF Next, InitChain
<1>3. GInv /\ ImportOk => ImportRestores
  <2> SUFFICES ASSUME GInv, ImportOk, pc \in {"response", "block"}, doc.mode = "dump"
               PROVE  ImportRestores
    BY DEF ImportRestores
  <2> DEFINE d == doc.twasm
             n == Len(d.contracts)
  <2>1. ValidateGenesis(doc) /\ Fits(chain, d, n) /\ Imported(chain, doc) /\ TwasmOk(d)
    BY SeedOk, DumpOk DEF GInv, DocOk, ImportOk, Importing
  <2>2. /\ n \in Nat /\ DOMAIN d.contracts = 1 .. n /\ DOMAIN chain.infos = 1 .. n
        /\ Shape(chain) /\ Len(chain.infos) = n
    <3>1. n \in Nat /\ DOMAIN d.contracts = 1 .. n
      BY <2>1, SMTT(30) DEF TwasmOk
    <3> QED BY <2>1, <3>1, ShapeInfos DEF Fits
  <2>3. ASSUME NEW c \in DOMAIN chain.infos
        PROVE  LET old == d.contracts[c].info.details IN
               /\ chain.infos[c].data = d.contracts[c].model.data
               /\ chain.infos[c].admin = d.contracts[c].info.admin
               /\ Len(old) <= Len(chain.infos[c].details)
               /\ old = SubSeq(chain.infos[c].details, 1, Len(old))
               /\ \A e \in Range(chain.infos[c].details) : chain.index[e] = c
               /\ chain.infos[c].details # <<>> => c \in chain.privileged
    <3> DEFINE old == d.contracts[c].info.details
               new == chain.infos[c].details
    <3>1. c <= n
      BY <2>2, SMTT(30)
    <3>2. /\ chain.infos[c].admin = d.contracts[c].info.admin /\ Starts(new, old) /\ Indexed(chain, c)
      BY <2>1, <2>2, <3>1 DEF Fits
    <3>3. chain.infos[c].data = d.contracts[c].model.data
      BY <2>1, <2>2 DEF Imported
    <3>4. old \in Seq(Entry) /\ new \in Seq(Entry)
      BY <2>1, <2>2, DetailsOk DEF TwasmOk, InfoOk
    <3> HIDE DEF old, new
    <3>5. Len(old) <= Len(new) /\ old = SubSeq(new, 1, Len(old))
      BY <3>2, <3>4, StartsPart
    <3> QED BY <3>2, <3>3, <3>5 DEF Indexed, old, new
  <2>4. chain.codes = d.codes /\ d.pinned \subseteq chain.pinned
    BY <2>1 DEF Fits
  <2> QED BY <2>1, <2>3, <2>4 DEF ImportRestores
<1> QED BY <1>1, <1>2, <1>3, GenesisInvariance, PTL DEF Spec
=============================================================================
