------------------------ MODULE TwasmPrivilegesProof ------------------------
(***************************************************************************)
(* Proofs about TwasmPrivileges, for every set of contracts, codes and     *)
(* privilege types and every width of the positions.                       *)
(***************************************************************************)
EXTENDS TwasmRefinement, TLAPS

(* The prover of every leaf that names no other.                            *)
USE SMTT(30)

(* Sequences.                                                              *)
LEMMA ListOf ==
    ASSUME NEW S, NEW n \in Nat, NEW f \in [1 .. n -> S]
    PROVE  f \in Seq(S) /\ Len(f) = n
OBVIOUS

LEMMA ListShape ==
    ASSUME NEW S, NEW s \in Seq(S)
    PROVE  Len(s) \in Nat /\ DOMAIN s = 1 .. Len(s) /\ s \in [1 .. Len(s) -> S]
OBVIOUS

LEMMA EmptyList ==
    ASSUME NEW S
    PROVE  << >> \in Seq(S) /\ Len(<< >>) = 0 /\ \A s \in Seq(S) : s = << >> \/ Len(s) \in Nat \ {0}
OBVIOUS

LEMMA SameList ==
    ASSUME NEW S, NEW s \in Seq(S), NEW t \in Seq(S), Len(t) = Len(s), \A i \in 1 .. Len(s) : t[i] = s[i]
    PROVE  t = s
<1>1. Len(s) \in Nat /\ s \in [1 .. Len(s) -> S] /\ t \in [1 .. Len(s) -> S]
  BY ListShape
<1> QED BY <1>1

LEMMA Appended ==
    ASSUME NEW S, NEW s \in Seq(S), NEW x \in S
    PROVE  /\ Append(s, x) \in Seq(S) /\ Len(Append(s, x)) = Len(s) + 1
           /\ Append(s, x)[Len(s) + 1] = x
           /\ \A i \in 1 .. Len(s) : Append(s, x)[i] = s[i]
OBVIOUS

LEMMA ListChanged ==
    ASSUME NEW S, NEW s \in Seq(S), NEW i \in 1 .. Len(s), NEW e \in S
    PROVE  [s EXCEPT ![i] = e] \in Seq(S) /\ Len([s EXCEPT ![i] = e]) = Len(s)
OBVIOUS

DetailsType == [Contracts -> Seq(Entry)]
IndexType == [Entry -> Contracts \cup {None}]

-----------------------------------------------------------------------------
(* RemoveAt keeps exactly the other elements, in their order.              *)
LEMMA RemoveAtType ==
    ASSUME NEW S, NEW s \in Seq(S), NEW i \in 1 .. Len(s)
    PROVE  /\ RemoveAt(s, i) \in Seq(S)
           /\ Len(RemoveAt(s, i)) = Len(s) - 1
           /\ \A j \in 1 .. Len(s) - 1 :
                RemoveAt(s, i)[j] = IF j < i THEN s[j] ELSE s[j + 1]
<1>1. Len(s) \in Nat /\ Len(s) >= 1
  OBVIOUS
<1>2. \A j \in 1 .. Len(s) : s[j] \in S
  OBVIOUS
<1>3. RemoveAt(s, i) \in [1 .. Len(s) - 1 -> S]
  BY <1>1, <1>2 DEF RemoveAt
<1>4. Len(s) - 1 \in Nat
  BY <1>1
<1>5. RemoveAt(s, i) \in Seq(S)
  BY <1>3, <1>4, ListOf
<1>6. DOMAIN RemoveAt(s, i) = 1 .. Len(s) - 1
  BY DEF RemoveAt
<1>7. Len(RemoveAt(s, i)) = Len(s) - 1
  BY <1>1, <1>4, <1>5, <1>6, ListShape
<1> QED
  BY <1>5, <1>7 DEF RemoveAt

(* The first n elements of a list are a list. *)
LEMMA PrefixType ==
    ASSUME NEW S, NEW s \in Seq(S), NEW n \in Nat, n <= Len(s)
    PROVE  /\ [j \in 1 .. n |-> s[j]] \in Seq(S)
           /\ Len([j \in 1 .. n |-> s[j]]) = n
<1> DEFINE r == [j \in 1 .. n |-> s[j]]
<1>1. r \in [1 .. n -> S]
  OBVIOUS
<1> HIDE DEF r
<1>2. r \in Seq(S)
  BY <1>1, ListOf
<1>3. Len(r) = n
  BY <1>1, <1>2, ListShape
<1> QED
  BY <1>2, <1>3 DEF r

(* Registering a type the contract does not hold, at a free key, keeps the *)
(* two copies in agreement (handlePrivilege, Request).                     *)
LEMMA AppendKeepsConsistent ==
    ASSUME NEW det \in DetailsType, NEW idx \in IndexType,
           NEW c \in Contracts, NEW e \in Entry,
           Consistent(det, idx),
           idx[e] = None,
           \A i \in 1 .. Len(det[c]) : det[c][i].type # e.type
    PROVE  Consistent([det EXCEPT ![c] = Append(@, e)], [idx EXCEPT ![e] = c])
<1> DEFINE det2 == [det EXCEPT ![c] = Append(@, e)]
           idx2 == [idx EXCEPT ![e] = c]
<1>1. det[c] \in Seq(Entry) /\ Len(det[c]) \in Nat
  BY DEF DetailsType
<1>2. /\ det2[c] = Append(det[c], e)
      /\ \A d \in Contracts : d # c => det2[d] = det[d]
  BY DEF DetailsType
<1>3. /\ Len(det2[c]) = Len(det[c]) + 1
      /\ \A i \in 1 .. Len(det[c]) : det2[c][i] = det[c][i]
      /\ det2[c][Len(det[c]) + 1] = e
  BY <1>1, <1>2
<1>4. /\ idx2[e] = c
      /\ \A f \in Entry : f # e => idx2[f] = idx[f]
  BY DEF IndexType
<1> HIDE DEF det2, idx2
<1>5. ASSUME NEW f \in Entry, NEW d \in Contracts
      PROVE  idx2[f] = d <=> \E i \in 1 .. Len(det2[d]) : det2[d][i] = f
  <2>1. idx[f] = d <=> \E i \in 1 .. Len(det[d]) : det[d][i] = f
    BY DEF Consistent
  <2>2. CASE d = c
    <3>1. (\E i \in 1 .. Len(det2[c]) : det2[c][i] = f)
            <=> (\E i \in 1 .. Len(det[c]) : det[c][i] = f) \/ f = e
      BY <1>1, <1>3
    <3> QED
      BY <1>4, <2>1, <2>2, <3>1
  <2>3. CASE d # c
    <3>1. idx[e] # d
      BY TypesAssumption
    <3> QED
      BY <1>2, <1>4, <2>1, <2>3, <3>1
  <2> QED
    BY <2>2, <2>3
<1>6. ASSUME NEW d \in Contracts, NEW i \in 1 .. Len(det2[d]), NEW j \in 1 .. Len(det2[d]),
             det2[d][i].type = det2[d][j].type
      PROVE  i = j
  <2>1. \A a, b \in 1 .. Len(det[d]) : det[d][a].type = det[d][b].type => a = b
    BY DEF Consistent
  <2>2. CASE d # c
    BY <1>2, <1>6, <2>1, <2>2
  <2>3. CASE d = c
    <3>1. /\ i \in 1 .. Len(det[c]) + 1 /\ j \in 1 .. Len(det[c]) + 1
          /\ det2[c][i].type = det2[c][j].type
      BY <1>3, <1>6, <2>3
    <3>2. CASE i <= Len(det[c]) /\ j <= Len(det[c])
      <4>1. det2[c][i] = det[c][i] /\ det2[c][j] = det[c][j]
        BY <1>1, <1>3, <3>1, <3>2
      <4> QED
        BY <1>1, <2>1, <2>3, <3>1, <3>2, <4>1
    <3>3. CASE i = Len(det[c]) + 1 /\ j <= Len(det[c])
      <4>1. det2[c][i] = e /\ det2[c][j] = det[c][j]
        BY <1>1, <1>3, <3>1, <3>3
      <4> QED
        BY <1>1, <3>1, <3>3, <4>1
    <3>4. CASE i <= Len(det[c]) /\ j = Len(det[c]) + 1
      <4>1. det2[c][i] = det[c][i] /\ det2[c][j] = e
        BY <1>1, <1>3, <3>1, <3>4
      <4> QED
        BY <1>1, <3>1, <3>4, <4>1
    <3> QED
      BY <1>1, <3>1, <3>2, <3>3, <3>4
  <2> QED
    BY <2>2, <2>3
<1>7. Consistent(det2, idx2)
  BY <1>5, <1>6 DEF Consistent
<1> QED
  BY <1>7 DEF det2, idx2

(* Removing an entry from the list and its key from the index keeps the    *)
(* two copies in agreement (handlePrivilege, Release).                     *)
LEMMA RemoveKeepsConsistent ==
    ASSUME NEW det \in DetailsType, NEW idx \in IndexType,
           NEW c \in Contracts, NEW k \in 1 .. Len(det[c]),
           Consistent(det, idx)
    PROVE  Consistent([det EXCEPT ![c] = RemoveAt(@, k)],
                      [idx EXCEPT ![det[c][k]] = None])
<1> DEFINE e == det[c][k]
           det2 == [det EXCEPT ![c] = RemoveAt(@, k)]
           idx2 == [idx EXCEPT ![e] = None]
<1>1. det[c] \in Seq(Entry) /\ Len(det[c]) \in Nat /\ e \in Entry
  BY DEF DetailsType
<1>2. /\ det2[c] = RemoveAt(det[c], k)
      /\ \A d \in Contracts : d # c => det2[d] = det[d]
  BY DEF DetailsType
<1>3. /\ Len(det2[c]) = Len(det[c]) - 1
      /\ \A j \in 1 .. Len(det[c]) - 1 :
            det2[c][j] = IF j < k THEN det[c][j] ELSE det[c][j + 1]
  BY <1>1, <1>2, RemoveAtType
<1>4. /\ idx2[e] = None
      /\ \A f \in Entry : f # e => idx2[f] = idx[f]
  BY <1>1 DEF IndexType
<1>5. idx[e] = c
  BY <1>1 DEF Consistent
<1>6. \A d \in Contracts : \A a, b \in 1 .. Len(det[d]) :
         det[d][a].type = det[d][b].type => a = b
  BY DEF Consistent
<1>7. \A j \in 1 .. Len(det[c]) : j # k => det[c][j] # e
  BY <1>6
<1> HIDE DEF det2, idx2, e
<1>8. ASSUME NEW f \in Entry, NEW d \in Contracts
      PROVE  idx2[f] = d <=> \E i \in 1 .. Len(det2[d]) : det2[d][i] = f
  <2>1. idx[f] = d <=> \E i \in 1 .. Len(det[d]) : det[d][i] = f
    BY DEF Consistent
  <2>2. CASE d = c
    <3>1. ASSUME NEW i \in 1 .. Len(det2[c]), det2[c][i] = f
          PROVE  f # e /\ \E j \in 1 .. Len(det[c]) : det[c][j] = f
      BY <1>1, <1>3, <1>7, <3>1
    <3>2. ASSUME NEW j \in 1 .. Len(det[c]), det[c][j] = f, f # e
          PROVE  \E i \in 1 .. Len(det2[c]) : det2[c][i] = f
      <4>1. j # k
        BY <3>2 DEF e
      <4>2. CASE j < k
        BY <1>1, <1>3, <3>2, <4>2
      <4>3. CASE j > k
        <5>1. j - 1 \in 1 .. Len(det2[c]) /\ det2[c][j - 1] = f
          BY <1>1, <1>3, <3>2, <4>3
        <5> QED
          BY <5>1
      <4> QED
        BY <4>1, <4>2, <4>3
    <3>3. None # c
      BY TypesAssumption
    <3> QED
      BY <1>4, <2>1, <2>2, <3>1, <3>2, <3>3
  <2>3. CASE d # c
    <3>1. None # d
      BY TypesAssumption
    <3>2. idx[f] = d => f # e
      BY <1>5, <2>3
    <3> QED
      BY <1>2, <1>4, <2>1, <2>3, <3>1, <3>2
  <2> QED
    BY <2>2, <2>3
<1>9. ASSUME NEW d \in Contracts, NEW i \in 1 .. Len(det2[d]), NEW j \in 1 .. Len(det2[d]),
             det2[d][i].type = det2[d][j].type
      PROVE  i = j
  <2>1. CASE d # c
    BY <1>2, <1>6, <1>9, <2>1
  <2>2. CASE d = c
    <3> DEFINE old(n) == IF n < k THEN n ELSE n + 1
    <3>1. \A n \in 1 .. Len(det2[c]) :
             old(n) \in 1 .. Len(det[c]) /\ det2[c][n] = det[c][old(n)]
      BY <1>1, <1>3
    <3>2. det2[c][i] = det[c][old(i)] /\ det2[c][j] = det[c][old(j)]
      BY <2>2, <3>1
    <3>3. det[c][old(i)].type = det[c][old(j)].type
      BY <1>9, <2>2, <3>2
    <3>4. old(i) \in 1 .. Len(det[c]) /\ old(j) \in 1 .. Len(det[c])
      BY <2>2, <3>1
    <3> HIDE DEF old
    <3>5. old(i) = old(j)
      BY <1>6, <3>3, <3>4
    <3> QED
      BY <1>1, <1>3, <2>2, <3>5 DEF old
  <2> QED
    BY <2>1, <2>2
<1>10. Consistent(det2, idx2)
  BY <1>8, <1>9 DEF Consistent
<1> QED
  BY <1>10 DEF det2, idx2, e

-----------------------------------------------------------------------------
(* Type correctness.                                                       *)

LEMMA TopType ==
    ASSUME stack \in Seq(Frame), ~Idle
    PROVE  /\ Len(stack) \in Nat \ {0}
           /\ Top \in Frame
           /\ Caller \in Contracts
           /\ stack[1] \in Frame
           /\ Pop \in Seq(Frame)
           /\ Len(Pop) = Len(stack) - 1
           /\ \A i \in 1 .. Len(stack) - 1 : Pop[i] = stack[i]
<1>1. Len(stack) \in Nat \ {0}
  BY EmptyList DEF Idle
<1>2. Top \in Frame /\ stack[1] \in Frame
  BY <1>1 DEF Top
<1>3. Caller \in Contracts
  BY <1>2 DEF Caller, Frame
<1>4. /\ Pop \in Seq(Frame)
      /\ Len(Pop) = Len(stack) - 1
      /\ \A i \in 1 .. Len(stack) - 1 : Pop[i] = stack[i]
  <2>1. Pop \in [1 .. Len(stack) - 1 -> Frame]
    BY <1>1 DEF Pop
  <2>2. Pop \in Seq(Frame)
    BY <1>1, <2>1, ListOf
  <2>3. Len(Pop) = Len(stack) - 1
    BY <1>1, <2>1, <2>2, ListShape
  <2> QED
    BY <2>2, <2>3, Zenon DEF Pop
<1> QED
  BY <1>1, <1>2, <1>3, <1>4

LEMMA SnapshotType ==
    ASSUME TypeOK
    PROVE  Snapshot \in Store
BY DEF TypeOK, Snapshot, Store

LEMMA PushType ==
    ASSUME TypeOK, NEW op \in {"run", "promote", "demote"}, NEW c \in Contracts, Push(op, c)
    PROVE  /\ stack' \in Seq(Frame)
           /\ Len(stack') = Len(stack) + 1
           /\ \A i \in 1 .. Len(stack) : stack'[i] = stack[i]
           /\ stack'[Len(stack) + 1] = [op |-> op, contract |-> c, saved |-> Snapshot]
<1> DEFINE f == [op |-> op, contract |-> c, saved |-> Snapshot]
<1>1. f \in Frame
  BY SnapshotType DEF Frame
<1>2. stack \in Seq(Frame) /\ stack' = Append(stack, f)
  BY DEF TypeOK, Push
<1> HIDE DEF f
<1>3. /\ stack' \in Seq(Frame)
      /\ Len(stack') = Len(stack) + 1
      /\ \A i \in 1 .. Len(stack) : stack'[i] = stack[i]
      /\ stack'[Len(stack) + 1] = f
  BY <1>1, <1>2
<1> QED
  BY <1>3 DEF f

LEMMA RestoreType ==
    ASSUME NEW s \in Store, Restore(s)
    PROVE  /\ codeOf' \in [Contracts -> Codes \cup {None}]
           /\ details' \in [Contracts -> Seq(Entry)]
           /\ pinned' \in SUBSET Codes
           /\ privileged' \in SUBSET Contracts
           /\ index' \in [Entry -> Contracts \cup {None}]
BY DEF Store, Restore

LEMMA NoLoopType == NoLoop \in Loop
BY EmptyList DEF NoLoop, Loop

LEMMA GasType ==
    ASSUME gas \in 0 .. MaxGas, genesis \in BOOLEAN, StartOrUseGas \/ DispatchMsg
    PROVE  gas' \in 0 .. MaxGas /\ genesis' \in BOOLEAN
BY BoundsAssumption DEF StartOrUseGas, DispatchMsg, UseGas

LEMMA RemoveRegisteredPrivilegeType ==
    ASSUME NEW l \in Loop, NEW e, l.len <= Len(l.entries), l.next >= 1
    PROVE  LET m == RemoveRegisteredPrivilege(l, e)
           IN  m \in Loop /\ m.len <= Len(m.entries) /\ m.next >= 1
<1> DEFINE i == CHOOSE i \in 1 .. l.len : l.entries[i] = e
<1>1. l.entries \in Seq(Entry) /\ l.len \in Nat /\ l.next \in Nat /\ Len(l.entries) \in Nat
  BY DEF Loop
<1>2. CASE \E k \in 1 .. l.len : l.entries[k] = e
  <2>1. i \in 1 .. l.len /\ l.len - 1 \in Nat
    BY <1>1, <1>2
  <2> HIDE DEF i
  <2>2. Shift(l.entries, i, l.len) \in [1 .. Len(l.entries) -> Entry]
    BY <1>1, <2>1 DEF Shift
  <2>3. Shift(l.entries, i, l.len) \in Seq(Entry)
    BY <1>1, <2>2, ListOf
  <2>4. Len(Shift(l.entries, i, l.len)) = Len(l.entries)
    BY <1>1, <2>2, <2>3, ListShape
  <2>5. RemoveRegisteredPrivilege(l, e) =
          [entries |-> Shift(l.entries, i, l.len), len |-> l.len - 1, next |-> l.next + 1]
    BY <1>2 DEF RemoveRegisteredPrivilege, i
  <2> QED
    BY <1>1, <2>1, <2>3, <2>4, <2>5 DEF Loop
<1>3. CASE ~ \E k \in 1 .. l.len : l.entries[k] = e
  BY <1>1, <1>3 DEF RemoveRegisteredPrivilege, Loop
<1> QED
  BY <1>2, <1>3

LEMMA TypeInit == Init => TypeOK
BY NoLoopType, TypesAssumption, BoundsAssumption, EmptyList DEF Init, TypeOK, NoLoop

LEMMA TypeStep == TypeOK /\ [Next]_vars => TypeOK'
<1> SUFFICES ASSUME TypeOK, [Next]_vars PROVE TypeOK'
  OBVIOUS
<1> USE DEF TypeOK
<1>1. ASSUME NEW c \in Contracts, NEW code \in Codes, Instantiate(c, code)
      PROVE  TypeOK'
  BY <1>1, BoundsAssumption DEF Instantiate, UseGas
<1>2. ASSUME NEW c \in Contracts, Call(c)
      PROVE  TypeOK'
  <2>1. stack' \in Seq(Frame)
    BY <1>2, PushType, Zenon DEF Call
  <2>2. gas' \in 0 .. MaxGas /\ genesis' \in BOOLEAN
    BY <1>2, GasType DEF Call
  <2> QED
    BY <1>2, <2>1, <2>2 DEF Call, store
<1>3. ASSUME NEW c \in Contracts, NEW code \in Codes, Migrate(c, code)
      PROVE  TypeOK'
  <2>1. stack' \in Seq(Frame)
    BY <1>3, PushType, Zenon DEF Migrate
  <2>2. gas' \in 0 .. MaxGas /\ genesis' \in BOOLEAN
    BY <1>3, GasType DEF Migrate
  <2> QED
    BY <1>3, <2>1, <2>2 DEF Migrate
<1>4. ASSUME NEW c \in Contracts, SetPrivileged(c)
      PROVE  TypeOK'
  <2>1. stack' \in Seq(Frame)
    BY <1>4, PushType, Zenon DEF SetPrivileged
  <2>2. gas' \in 0 .. MaxGas /\ genesis' \in BOOLEAN
    <3>1. CASE DispatchMsg
      BY <3>1, GasType
    <3>2. CASE gas' = MaxGas /\ UNCHANGED genesis
      BY <3>2, BoundsAssumption
    <3> QED
      BY <1>4, <3>1, <3>2 DEF SetPrivileged, ExecuteGovProposal
  <2>3. codeOf[c] \in Codes
    BY <1>4 DEF SetPrivileged
  <2> QED
    BY <1>4, <2>1, <2>2, <2>3 DEF SetPrivileged
<1>5. ASSUME NEW c \in Contracts, UnsetPrivileged(c)
      PROVE  TypeOK'
  <2>1. stack' \in Seq(Frame)
    BY <1>5, PushType, Zenon DEF UnsetPrivileged
  <2>2. gas' \in 0 .. MaxGas /\ genesis' \in BOOLEAN
    BY <1>5, GasType DEF UnsetPrivileged, ExecuteGovProposal
  <2> QED
    BY <1>5, <2>1, <2>2 DEF UnsetPrivileged, store
<1>6. ASSUME NEW t \in PrivilegeTypes, Request(t)
      PROVE  TypeOK'
  <2>1. Caller \in Contracts
    BY <1>6, TopType DEF Request, DispatchMsg, UseGas, Running
  <2>2. gas' \in 0 .. MaxGas /\ genesis' \in BOOLEAN
    BY <1>6, GasType DEF Request
  <2>3. PICK pos \in 0 .. MaxPos :
          /\ NextPosition(pos) > pos
          /\ index' = [index EXCEPT ![Key(t, NextPosition(pos))] = Caller]
          /\ details' = [details EXCEPT ![Caller] = Append(@, Key(t, NextPosition(pos)))]
    BY <1>6, Zenon DEF Request
  <2>4. NextPosition(pos) \in Positions
    BY <2>3, BoundsAssumption DEF NextPosition, Positions
  <2>5. Key(t, NextPosition(pos)) \in Entry
    BY <2>4 DEF Key, Entry
  <2>6. /\ index' \in [Entry -> Contracts \cup {None}]
        /\ details' \in [Contracts -> Seq(Entry)]
    BY <2>1, <2>3, <2>5
  <2> QED
    BY <1>6, <2>2, <2>6 DEF Request
<1>7. ASSUME NEW t \in PrivilegeTypes, RequestOverflow(t)
      PROVE  TypeOK'
  <2>1. stack[1].saved \in Store
    BY <1>7, TopType DEF RequestOverflow, DispatchMsg, UseGas, Running, Frame
  <2>2. gas' \in 0 .. MaxGas /\ genesis' \in BOOLEAN
    BY <1>7, GasType DEF RequestOverflow
  <2> QED
    BY <1>7, <2>1, <2>2, RestoreType, EmptyList DEF RequestOverflow
<1>8. ASSUME NEW t \in PrivilegeTypes, Release(t)
      PROVE  TypeOK'
  <2>1. Caller \in Contracts
    BY <1>8, TopType DEF Release, DispatchMsg, UseGas, Running
  <2>2. gas' \in 0 .. MaxGas /\ genesis' \in BOOLEAN
    BY <1>8, GasType DEF Release
  <2>3. PICK i \in 1 .. Len(details[Caller]) :
          /\ index' = [index EXCEPT ![details[Caller][i]] = None]
          /\ details' = [details EXCEPT ![Caller] = RemoveAt(@, i)]
    BY <1>8, Zenon DEF Release
  <2>4. details[Caller][i] \in Entry /\ RemoveAt(details[Caller], i) \in Seq(Entry)
    BY <2>1, <2>3, RemoveAtType
  <2>5. /\ index' \in [Entry -> Contracts \cup {None}]
        /\ details' \in [Contracts -> Seq(Entry)]
    BY <2>1, <2>3, <2>4
  <2> QED
    BY <1>8, <2>2, <2>5 DEF Release
<1>9. ASSUME NEW codes \in SUBSET Codes, PinCodes(codes) \/ UnpinCodes(codes)
      PROVE  TypeOK'
  <2>1. gas' \in 0 .. MaxGas /\ genesis' \in BOOLEAN
    BY <1>9, GasType DEF PinCodes, UnpinCodes, ExecuteGovProposal
  <2> QED
    BY <1>9, <2>1 DEF PinCodes, UnpinCodes
<1>10. CASE Return
  BY <1>10, TopType DEF Return, store
<1>11. CASE Fail
  <2>1. Top.saved \in Store /\ Pop \in Seq(Frame)
    BY <1>11, TopType DEF Fail, Frame
  <2>2. /\ loop' \in Loop /\ loop'.len <= Len(loop'.entries) /\ loop'.next >= 1
    BY <1>11, NoLoopType, EmptyList DEF Fail, NoLoop
  <2> QED
    BY <1>11, <2>1, <2>2, RestoreType DEF Fail
<1>12. CASE DemotedReturns
  <2>1. Caller \in Contracts /\ Top \in Frame /\ Len(stack) \in Nat \ {0}
    BY <1>12, TopType DEF DemotedReturns
  <2>2. LoadedDetails(Top) \in Seq(Entry)
    BY <2>1 DEF LoadedDetails, Frame
  <2>3. loop' \in Loop /\ loop'.len <= Len(loop'.entries) /\ loop'.next >= 1
    BY <1>12, <2>2 DEF DemotedReturns, Loop
  <2>4. [Top EXCEPT !.op = "unset"] \in Frame
    BY <2>1, Zenon DEF Frame
  <2>5. stack' = [stack EXCEPT ![Len(stack)] = [Top EXCEPT !.op = "unset"]]
    BY <1>12, <2>1 DEF DemotedReturns, Top
  <2>6. stack' \in Seq(Frame)
    BY <2>1, <2>4, <2>5, ListChanged
  <2> QED
    BY <1>12, <2>3, <2>6 DEF DemotedReturns, UnpinUnused
<1>13. CASE UnsetStep
  <2> DEFINE e == loop.entries[loop.next]
  <2>1. e \in Entry
    BY <1>13 DEF UnsetStep, Loop
  <2>2. loop' = RemoveRegisteredPrivilege(loop, e) /\ index' = [index EXCEPT ![e] = None]
    BY <1>13 DEF UnsetStep
  <2> HIDE DEF e
  <2>3. loop' \in Loop /\ loop'.len <= Len(loop'.entries) /\ loop'.next >= 1
    BY <2>2, RemoveRegisteredPrivilegeType
  <2> QED
    BY <1>13, <2>1, <2>2, <2>3, Zenon DEF UnsetStep
<1>14. CASE UnsetDone
  <2> DEFINE left == [j \in 1 .. loop.len |-> loop.entries[j]]
  <2>1. loop.entries \in Seq(Entry) /\ loop.len \in Nat
    BY DEF Loop
  <2>2. left \in Seq(Entry)
    BY <2>1, PrefixType, Zenon
  <2> HIDE DEF left
  <2>3. details' = [details EXCEPT ![Caller] = left]
    BY <1>14 DEF UnsetDone, left
  <2>4. /\ loop' \in Loop /\ loop'.len <= Len(loop'.entries) /\ loop'.next >= 1
    BY <1>14, NoLoopType, EmptyList DEF UnsetDone, NoLoop
  <2>5. Pop \in Seq(Frame) /\ Caller \in Contracts
    BY <1>14, TopType DEF UnsetDone
  <2> QED
    BY <1>14, <2>2, <2>3, <2>4, <2>5, Zenon DEF UnsetDone
<1>15. CASE ExportImport
  <2>1. ASSUME NEW e \in Entry, Claimants(e) # {}
        PROVE  (CHOOSE c \in Claimants(e) : TRUE) \in Contracts
    BY <2>1 DEF Claimants
  <2>2. index' \in [Entry -> Contracts \cup {None}]
    BY <1>15, <2>1 DEF ExportImport
  <2> QED
    BY <1>15, <2>2 DEF ExportImport
<1>16. CASE StartChain
  BY <1>16, Zenon DEF StartChain, store
<1>17. CASE UNCHANGED vars
  BY <1>17 DEF vars, store, control, TypeOK
<1>18. CASE \E c \in Contracts :
              \/ Call(c)
              \/ SetPrivileged(c)
              \/ UnsetPrivileged(c)
              \/ \E code \in Codes : Instantiate(c, code) \/ Migrate(c, code)
  BY <1>1, <1>2, <1>3, <1>4, <1>5, <1>18, Zenon
<1>19. CASE \E t \in PrivilegeTypes : Request(t) \/ RequestOverflow(t) \/ Release(t)
  BY <1>6, <1>7, <1>8, <1>19
<1>20. CASE \E codes \in SUBSET Codes : PinCodes(codes) \/ UnpinCodes(codes)
  BY <1>9, <1>20
<1> QED
  BY <1>10, <1>11, <1>12, <1>13, <1>14, <1>15, <1>16, <1>17, <1>18, <1>19, <1>20, Zenon DEF Next

-----------------------------------------------------------------------------
(* The inductive invariant: the two copies agree in the current store, or  *)
(* the removal loop accounts for the difference, and they agree in every   *)
(* store that a failing call can bring back.                               *)
IInv ==
    /\ TypeOK
    /\ IndexMatchesDetails
    /\ RemovalTouchesOwnKeysOnly
    /\ SingletonExclusive
    /\ FailureRestoresConsistentStore

LEMMA PushFrames ==
    ASSUME IInv, ~Unsetting,
           NEW op \in {"run", "promote", "demote"}, NEW c \in Contracts, Push(op, c)
    PROVE  FailureRestoresConsistentStore' /\ ~Unsetting'
<1>1. /\ stack' \in Seq(Frame)
      /\ Len(stack') = Len(stack) + 1
      /\ \A i \in 1 .. Len(stack) : stack'[i] = stack[i]
      /\ stack'[Len(stack) + 1] = [op |-> op, contract |-> c, saved |-> Snapshot]
  BY PushType DEF IInv
<1>2. Len(stack) \in Nat
  BY DEF IInv, TypeOK
<1>3. Snapshot.details = details /\ Snapshot.index = index
  BY DEF Snapshot
<1>4. Consistent(details, index) /\ Exclusive(index)
  BY DEF IInv, IndexMatchesDetails, SingletonExclusive
<1>5. \A i \in 1 .. Len(stack) : stack[i].op # "unset"
  <2>1. CASE Idle
    BY <2>1, EmptyList DEF Idle
  <2>2. CASE ~Idle
    BY <1>2, <2>2 DEF Unsetting, Top, IInv, FailureRestoresConsistentStore
  <2> QED
    BY <2>1, <2>2
<1>6. ASSUME NEW i \in 1 .. Len(stack')
      PROVE  /\ Consistent(stack'[i].saved.details, stack'[i].saved.index)
             /\ Exclusive(stack'[i].saved.index)
             /\ stack'[i].op # "unset"
  <2>1. CASE i = Len(stack) + 1
    BY <1>1, <1>3, <1>4, <2>1
  <2>2. CASE i # Len(stack) + 1
    <3>1. i \in 1 .. Len(stack) /\ stack'[i] = stack[i]
      BY <1>1, <1>2, <2>2
    <3> QED
      BY <1>5, <3>1 DEF IInv, FailureRestoresConsistentStore
  <2> QED
    BY <2>1, <2>2
<1>7. ~Unsetting'
  BY <1>1, <1>2, <1>6 DEF Unsetting, Top
<1>8. FailureRestoresConsistentStore'
  BY <1>6 DEF FailureRestoresConsistentStore
<1> QED
  BY <1>7, <1>8

LEMMA PopFrames ==
    ASSUME IInv, ~Idle, stack' = Pop
    PROVE  FailureRestoresConsistentStore' /\ ~Unsetting'
<1>1. /\ Len(stack) \in Nat \ {0}
      /\ Len(stack') = Len(stack) - 1
      /\ \A i \in 1 .. Len(stack) - 1 : stack'[i] = stack[i]
      /\ stack' \in Seq(Frame)
  BY TopType DEF IInv, TypeOK
<1>2. ASSUME NEW i \in 1 .. Len(stack')
      PROVE  /\ Consistent(stack'[i].saved.details, stack'[i].saved.index)
             /\ Exclusive(stack'[i].saved.index)
             /\ stack'[i].op # "unset"
  <2>1. i \in 1 .. Len(stack) /\ i < Len(stack) /\ stack'[i] = stack[i]
    BY <1>1
  <2> QED
    BY <2>1 DEF IInv, FailureRestoresConsistentStore
<1>3. ~Unsetting'
  <2>1. CASE stack' = <<>>
    BY <2>1 DEF Unsetting, Idle
  <2>2. CASE stack' # <<>>
    <3>1. Len(stack') \in 1 .. Len(stack')
      BY <1>1, <2>2, EmptyList
    <3> QED
      BY <1>2, <3>1 DEF Unsetting, Top
  <2> QED
    BY <2>1, <2>2
<1>4. FailureRestoresConsistentStore'
  BY <1>2 DEF FailureRestoresConsistentStore
<1> QED
  BY <1>3, <1>4

(* Deleting a key keeps singletons exclusive. *)
LEMMA DeleteKeepsExclusive ==
    ASSUME NEW idx \in IndexType, NEW e \in Entry, Exclusive(idx)
    PROVE  Exclusive([idx EXCEPT ![e] = None])
<1>1. \A f \in Entry : [idx EXCEPT ![e] = None][f] # None => idx[f] # None
  BY DEF IndexType
<1>2. \A t \in SingletonTypes, p \in Positions : Key(t, p) \in Entry
  BY TypesAssumption DEF Key, Entry
<1> QED
  BY <1>1, <1>2 DEF Exclusive

(* The loop starts with all of the contract's entries.                     *)
LEMMA LoopStarts ==
    ASSUME IInv, DemotedReturns
    PROVE  LoopInvariant(Caller)'
<1>1. Caller \in Contracts /\ Top \in Frame /\ Len(stack) \in Nat \ {0}
  BY TopType DEF IInv, TypeOK, DemotedReturns
<1>2. stack' = [stack EXCEPT ![Len(stack)] = [Top EXCEPT !.op = "unset"]]
  BY <1>1 DEF DemotedReturns, Top
<1>3. /\ Len(stack') = Len(stack)
      /\ stack'[Len(stack)] = [Top EXCEPT !.op = "unset"]
  BY <1>1, <1>2 DEF IInv, TypeOK
<1>4. Caller' = Caller
  BY <1>1, <1>3 DEF Caller, Top, Frame
<1>5. /\ loop'.entries = details[Caller]
      /\ loop'.len = Len(details[Caller])
      /\ details' = details /\ index' = index
  BY DEF DemotedReturns, LoadedDetails, Caller
<1>6. Consistent(details, index)
  BY DEF IInv, IndexMatchesDetails, Unsetting, DemotedReturns
<1>7. \A i \in 1 .. Len(details[Caller]) : details[Caller][i] \in Entry
  BY <1>1 DEF IInv, TypeOK
<1> QED
  BY <1>1, <1>4, <1>5, <1>6, <1>7 DEF LoopInvariant, Consistent

(* One round of the loop.  Either the element is still in the shortened    *)
(* list, and leaves list and index together, or it is a stale copy whose   *)
(* key is gone already.                                                    *)
LEMMA LoopContinues ==
    ASSUME IInv, UnsetStep
    PROVE  LoopInvariant(Caller)'
<1> DEFINE c == Caller
           n == loop.len
           s == loop.entries
           e == loop.entries[loop.next]
<1>1. c \in Contracts /\ c' = c
  BY TopType DEF IInv, TypeOK, UnsetStep, Caller, Top
<1>2. s \in Seq(Entry) /\ n \in Nat /\ n <= Len(s) /\ e \in Entry /\ Len(s) \in Nat
  BY DEF IInv, TypeOK, Loop, UnsetStep
<1>3. LoopInvariant(c)
  BY DEF IInv, RemovalTouchesOwnKeysOnly, Unsetting, UnsetStep
<1>4. index[e] \in {c, None}
  BY <1>3 DEF LoopInvariant, UnsetStep, IInv, TypeOK, Loop
<1>5. /\ index' = [index EXCEPT ![e] = None]
      /\ loop' = RemoveRegisteredPrivilege(loop, e)
      /\ details' = details
  BY DEF UnsetStep
<1>6. /\ index'[e] = None
      /\ \A f \in Entry : f # e => index'[f] = index[f]
  BY <1>2, <1>5 DEF IInv, TypeOK
<1>7. None # c /\ \A d \in Contracts : None # d
  BY <1>1, TypesAssumption
<1>8. \A f \in Entry, d \in Contracts \ {c} :
         index'[f] = d <=> \E i \in 1 .. Len(details'[d]) : details'[d][i] = f
  <2>1. \A f \in Entry, d \in Contracts \ {c} :
           index[f] = d <=> \E i \in 1 .. Len(details[d]) : details[d][i] = f
    BY <1>3 DEF LoopInvariant
  <2>2. \A f \in Entry, d \in Contracts \ {c} : index'[f] = d <=> index[f] = d
    BY <1>4, <1>6, <1>7
  <2> QED
    BY <1>5, <2>1, <2>2
<1>9. \A d \in Contracts \ {c} : \A i, j \in 1 .. Len(details'[d]) :
         details'[d][i].type = details'[d][j].type => i = j
  BY <1>3, <1>5 DEF LoopInvariant
<1>10. CASE \E k \in 1 .. n : s[k] = e
  <2> DEFINE i == CHOOSE k \in 1 .. n : s[k] = e
             old(j) == IF j >= i THEN j + 1 ELSE j
  <2>1. i \in 1 .. n /\ s[i] = e
    BY <1>10
  <2>2. loop'.entries = Shift(s, i, n) /\ loop'.len = n - 1
    BY <1>5, <1>10 DEF RemoveRegisteredPrivilege
  <2> HIDE DEF i
  <2>3. /\ Shift(s, i, n) \in [1 .. Len(s) -> Entry]
        /\ \A j \in 1 .. Len(s) :
              Shift(s, i, n)[j] = IF j >= i /\ j < n THEN s[j + 1] ELSE s[j]
    BY <1>2, <2>1 DEF Shift
  <2>4. Len(Shift(s, i, n)) = Len(s)
    <3>1. Shift(s, i, n) \in Seq(Entry)
      BY <1>2, <2>3, ListOf
    <3> QED
      BY <1>2, <2>3, <3>1, ListShape
  <2>5. \A j \in 1 .. n - 1 : old(j) \in 1 .. n /\ old(j) # i /\ loop'.entries[j] = s[old(j)]
    <3> SUFFICES ASSUME NEW j \in 1 .. n - 1
                 PROVE  old(j) \in 1 .. n /\ old(j) # i /\ loop'.entries[j] = s[old(j)]
      OBVIOUS
    <3>1. j \in 1 .. Len(s) /\ j < n
      BY <1>2, <2>1
    <3>2. loop'.entries[j] = IF j >= i /\ j < n THEN s[j + 1] ELSE s[j]
      BY <2>2, <2>3, <3>1
    <3>3. old(j) \in 1 .. n /\ old(j) # i
      BY <1>2, <2>1, <3>1
    <3> QED
      BY <1>2, <2>1, <3>1, <3>2, <3>3
  <2>6. \A a, b \in 1 .. n : s[a].type = s[b].type => a = b
    BY <1>3 DEF LoopInvariant
  <2>7. \A a \in 1 .. n : a # i => s[a] # e
    BY <2>1, <2>6
  <2>8. ASSUME NEW f \in Entry
        PROVE  index'[f] = c <=> \E j \in 1 .. n - 1 : loop'.entries[j] = f
    <3>1. index[f] = c <=> \E a \in 1 .. n : s[a] = f
      BY <1>3 DEF LoopInvariant
    <3>2. ASSUME NEW j \in 1 .. n - 1, loop'.entries[j] = f
          PROVE  f # e /\ \E a \in 1 .. n : s[a] = f
      BY <2>5, <2>7, <3>2
    <3>3. ASSUME NEW a \in 1 .. n, s[a] = f, f # e
          PROVE  \E j \in 1 .. n - 1 : loop'.entries[j] = f
      <4>1. a # i
        BY <2>1, <3>3
      <4>2. CASE a < i
        <5>1. a \in 1 .. n - 1 /\ old(a) = a
          BY <1>2, <2>1, <4>2
        <5> QED
          BY <2>5, <3>3, <5>1
      <4>3. CASE a > i
        <5>1. a - 1 \in 1 .. n - 1 /\ old(a - 1) = a
          BY <1>2, <2>1, <4>3
        <5> QED
          BY <2>5, <3>3, <5>1
      <4> QED
        BY <1>2, <2>1, <4>1, <4>2, <4>3
    <3> QED
      BY <1>6, <1>7, <3>1, <3>2, <3>3
  <2>9. ASSUME NEW a \in 1 .. n - 1, NEW b \in 1 .. n - 1,
               loop'.entries[a].type = loop'.entries[b].type
        PROVE  a = b
    <3>1. s[old(a)].type = s[old(b)].type
      BY <2>5, <2>9
    <3>2. old(a) \in 1 .. n /\ old(b) \in 1 .. n
      BY <2>5
    <3> HIDE DEF old
    <3>3. old(a) = old(b)
      BY <2>6, <3>1, <3>2
    <3> QED
      BY <1>2, <2>1, <3>3 DEF old
  <2>10. ASSUME NEW j \in 1 .. Len(s)
         PROVE  index'[loop'.entries[j]] \in {c, None}
    <3>1. PICK a \in 1 .. Len(s) : loop'.entries[j] = s[a]
      BY <1>2, <2>1, <2>2, <2>3
    <3>2. s[a] \in Entry /\ index[s[a]] \in {c, None}
      BY <1>2, <1>3 DEF LoopInvariant
    <3> QED
      BY <1>6, <3>1, <3>2
  <2> QED
    BY <1>1, <1>8, <1>9, <2>2, <2>4, <2>8, <2>9, <2>10 DEF LoopInvariant
<1>11. CASE ~ \E k \in 1 .. n : s[k] = e
  <2>1. loop'.entries = s /\ loop'.len = n
    BY <1>5, <1>11 DEF RemoveRegisteredPrivilege
  <2>2. index[e] = None
    BY <1>2, <1>3, <1>4, <1>11 DEF LoopInvariant
  <2>3. index' = index
    BY <1>2, <1>5, <2>2 DEF IInv, TypeOK
  <2> QED
    BY <1>1, <1>3, <1>5, <2>1, <2>3 DEF LoopInvariant
<1> QED
  BY <1>10, <1>11

(* What the loop left becomes the contract's details.                      *)
LEMMA LoopEnds ==
    ASSUME IInv, UnsetDone
    PROVE  Consistent(details', index')
<1> DEFINE c == Caller
           left == [j \in 1 .. loop.len |-> loop.entries[j]]
<1>1. c \in Contracts /\ LoopInvariant(c)
  BY TopType DEF IInv, TypeOK, UnsetDone, RemovalTouchesOwnKeysOnly, Unsetting
<1>2. loop.entries \in Seq(Entry) /\ loop.len \in Nat /\ loop.len <= Len(loop.entries)
  BY DEF IInv, TypeOK, Loop
<1>3. left \in Seq(Entry) /\ Len(left) = loop.len
  BY <1>2, PrefixType
<1>4. \A j \in 1 .. loop.len : left[j] = loop.entries[j]
  OBVIOUS
<1> HIDE DEF left
<1>5. index' = index /\ details' = [details EXCEPT ![c] = left]
  BY DEF UnsetDone, left
<1>6. details'[c] = left /\ \A d \in Contracts : d # c => details'[d] = details[d]
  BY <1>1, <1>5 DEF IInv, TypeOK
<1>7. ASSUME NEW e \in Entry, NEW d \in Contracts
      PROVE  index'[e] = d <=> \E i \in 1 .. Len(details'[d]) : details'[d][i] = e
  BY <1>1, <1>3, <1>4, <1>5, <1>6 DEF LoopInvariant
<1>8. ASSUME NEW d \in Contracts, NEW i \in 1 .. Len(details'[d]), NEW j \in 1 .. Len(details'[d]),
             details'[d][i].type = details'[d][j].type
      PROVE  i = j
  <2>1. CASE d = c
    <3>1. loop.entries[i].type = loop.entries[j].type /\ i \in 1 .. loop.len /\ j \in 1 .. loop.len
      BY <1>3, <1>4, <1>6, <1>8, <2>1
    <3> QED
      BY <1>1, <3>1 DEF LoopInvariant
  <2>2. CASE d # c
    BY <1>1, <1>6, <1>8, <2>2 DEF LoopInvariant
  <2> QED
    BY <2>1, <2>2
<1> QED
  BY <1>7, <1>8 DEF Consistent

-----------------------------------------------------------------------------
LEMMA InvInit == Init => IInv
<1> SUFFICES ASSUME Init PROVE IInv
  OBVIOUS
<1>1. TypeOK
  BY TypeInit
<1>2. Len(stack) = 0 /\ \A c \in Contracts : Len(details[c]) = 0
  BY EmptyList DEF Init
<1>3. ~Unsetting
  BY DEF Init, Unsetting, Idle
<1>4. \A e \in Entry, c \in Contracts : index[e] # c
  BY TypesAssumption DEF Init
<1>5. Consistent(details, index)
  BY <1>2, <1>4 DEF Consistent
<1>6. Exclusive(index)
  BY TypesAssumption DEF Init, Exclusive, Key, Entry
<1> QED
  BY <1>1, <1>2, <1>3, <1>5, <1>6
  DEF IInv, IndexMatchesDetails, RemovalTouchesOwnKeysOnly, SingletonExclusive,
      FailureRestoresConsistentStore

(* A step that leaves registrations and calls alone keeps the invariant.   *)
LEMMA RegistrationsUnchanged ==
    ASSUME IInv, ~Unsetting, details' = details, index' = index,
           TypeOK', ~Unsetting', FailureRestoresConsistentStore'
    PROVE  IInv'
BY DEF IInv, IndexMatchesDetails, RemovalTouchesOwnKeysOnly, SingletonExclusive

(* A new store that is consistent keeps the invariant.                     *)
LEMMA NewRegistrations ==
    ASSUME TypeOK', ~Unsetting', FailureRestoresConsistentStore',
           Consistent(details', index'), Exclusive(index')
    PROVE  IInv'
BY DEF IInv, IndexMatchesDetails, RemovalTouchesOwnKeysOnly, SingletonExclusive

LEMMA SameStack ==
    ASSUME IInv, stack' = stack
    PROVE  FailureRestoresConsistentStore' /\ Unsetting' = Unsetting
<1>1. Unsetting' = Unsetting
  BY DEF Unsetting, Idle, Top
<1>2. ASSUME NEW i \in 1 .. Len(stack')
      PROVE  /\ Consistent(stack'[i].saved.details, stack'[i].saved.index)
             /\ Exclusive(stack'[i].saved.index)
             /\ i < Len(stack') => stack'[i].op # "unset"
  BY DEF IInv, FailureRestoresConsistentStore
<1>3. FailureRestoresConsistentStore'
  BY <1>2 DEF FailureRestoresConsistentStore
<1> QED
  BY <1>1, <1>3

LEMMA RunningNotUnsetting ==
    ASSUME StartOrUseGas \/ DispatchMsg
    PROVE  ~Unsetting
BY DEF StartOrUseGas, DispatchMsg, UseGas, Running, Unsetting

(* Request: the new key lies behind every position in use, so it is free,  *)
(* and a singleton type had no registration at all.                        *)
LEMMA RequestStep ==
    ASSUME IInv, NEW t \in PrivilegeTypes, Request(t)
    PROVE  Consistent(details', index') /\ Exclusive(index')
<1>1. Caller \in Contracts /\ ~Unsetting
  BY TopType, RunningNotUnsetting DEF IInv, TypeOK, Request, DispatchMsg, UseGas, Running
<1>2. PICK pos \in 0 .. MaxPos :
        /\ IsLastPosition(t, pos)
        /\ NextPosition(pos) > pos
        /\ index' = [index EXCEPT ![Key(t, NextPosition(pos))] = Caller]
        /\ details' = [details EXCEPT ![Caller] = Append(@, Key(t, NextPosition(pos)))]
  BY Zenon DEF Request
<1> DEFINE p == NextPosition(pos)
           e == Key(t, p)
<1>3. p \in Positions
  BY <1>2, BoundsAssumption DEF NextPosition, Positions
<1>4. e \in Entry /\ e.type = t
  BY <1>3 DEF Key, Entry
<1>5. index[e] = None
  <2>1. SUFFICES ASSUME index[e] # None PROVE FALSE
    OBVIOUS
  <2>2. p \in Registered(t)
    BY <1>3, <2>1 DEF Registered
  <2>3. pos \in Int /\ p \in Int
    BY <1>3 DEF Positions
  <2> QED
    BY <1>2, <2>2, <2>3 DEF IsLastPosition
<1>6. \A i \in 1 .. Len(details[Caller]) : details[Caller][i].type # e.type
  BY <1>4 DEF Request, HasRegisteredPrivilege
<1>7. details \in DetailsType /\ index \in IndexType /\ Consistent(details, index)
  BY <1>1 DEF IInv, TypeOK, DetailsType, IndexType, IndexMatchesDetails
<1> HIDE DEF e, p
<1>8. Consistent(details', index')
  BY <1>1, <1>2, <1>4, <1>5, <1>6, <1>7, AppendKeepsConsistent, Zenon DEF e, p
<1>9. ASSUME NEW u \in SingletonTypes, NEW q \in Positions, NEW r \in Positions,
             index'[Key(u, q)] # None, index'[Key(u, r)] # None
      PROVE  q = r
  <2>1. /\ Key(u, q) \in Entry /\ Key(u, r) \in Entry
        /\ Key(u, q).type = u /\ Key(u, r).type = u
        /\ Key(u, q).position = q /\ Key(u, r).position = r
    BY TypesAssumption DEF Key, Entry
  <2>2. \A f \in Entry : f # e => index'[f] = index[f]
    BY <1>2, <1>7 DEF IndexType, e, p
  <2>3. CASE u = t
    <3>1. Registered(t) = {}
      BY <2>3 DEF Request, SingletonTaken
    <3>2. index[Key(u, q)] = None /\ index[Key(u, r)] = None
      BY <2>3, <3>1 DEF Registered
    <3>3. Key(u, q) = e /\ Key(u, r) = e
      BY <1>9, <2>1, <2>2, <3>2
    <3> QED
      BY <2>1, <3>3
  <2>4. CASE u # t
    <3>1. Key(u, q) # e /\ Key(u, r) # e
      BY <1>4, <2>1, <2>4
    <3> QED
      BY <1>9, <2>1, <2>2, <3>1 DEF IInv, SingletonExclusive, Exclusive
  <2> QED
    BY <2>3, <2>4
<1> QED
  BY <1>8, <1>9 DEF Exclusive

LEMMA ReleaseStep ==
    ASSUME IInv, NEW t \in PrivilegeTypes, Release(t)
    PROVE  Consistent(details', index') /\ Exclusive(index')
<1>1. Caller \in Contracts /\ ~Unsetting
  BY TopType, RunningNotUnsetting DEF IInv, TypeOK, Release, DispatchMsg, UseGas, Running
<1>2. PICK i \in 1 .. Len(details[Caller]) :
        /\ index' = [index EXCEPT ![details[Caller][i]] = None]
        /\ details' = [details EXCEPT ![Caller] = RemoveAt(@, i)]
  BY ZenonT(30) DEF Release
<1>3. details \in DetailsType /\ index \in IndexType /\ Consistent(details, index)
  BY <1>1 DEF IInv, TypeOK, DetailsType, IndexType, IndexMatchesDetails
<1>4. details[Caller][i] \in Entry
  BY <1>1, <1>2, <1>3 DEF DetailsType
<1>5. Exclusive(index)
  BY DEF IInv, SingletonExclusive
<1> QED
  BY <1>1, <1>2, <1>3, <1>4, <1>5, RemoveKeepsConsistent, DeleteKeepsExclusive, Zenon

(* Import rebuilds the index that was exported.                            *)
LEMMA ImportRestoresIndex ==
    ASSUME IInv, ExportImport
    PROVE  index' = index
<1>1. Consistent(details, index) /\ index \in [Entry -> Contracts \cup {None}]
  BY DEF IInv, TypeOK, IndexMatchesDetails, Unsetting, ExportImport
<1>2. index' = [e \in Entry |-> IF Claimants(e) = {} THEN None
                                ELSE CHOOSE c \in Claimants(e) : TRUE]
  BY DEF ExportImport
<1>3. ASSUME NEW e \in Entry
      PROVE  index'[e] = index[e]
  <2>1. \A c \in Contracts : c \in Claimants(e) <=> index[e] = c
    BY <1>1 DEF Consistent, Claimants
  <2>2. Claimants(e) \subseteq Contracts
    BY DEF Claimants
  <2>3. CASE index[e] = None
    <3>1. Claimants(e) = {}
      BY <2>1, <2>2, <2>3, TypesAssumption
    <3> QED
      BY <1>2, <2>3, <3>1
  <2>4. CASE index[e] \in Contracts
    <3>1. Claimants(e) = {index[e]}
      BY <2>1, <2>2, <2>4
    <3> QED
      BY <1>2, <3>1
  <2> QED
    BY <1>1, <2>3, <2>4
<1> QED
  BY <1>1, <1>2, <1>3

LEMMA InvStep == IInv /\ [Next]_vars => IInv'
<1> SUFFICES ASSUME IInv, [Next]_vars PROVE IInv'
  OBVIOUS
<1>0. TypeOK'
  BY TypeStep DEF IInv
<1>1. ASSUME NEW c \in Contracts, NEW code \in Codes, Instantiate(c, code)
      PROVE  IInv'
  BY <1>0, <1>1, SameStack, RegistrationsUnchanged
  DEF Instantiate, UseGas, Running, Unsetting
<1>2. ASSUME NEW c \in Contracts, Call(c)
      PROVE  IInv'
  BY <1>0, <1>2, PushFrames, RunningNotUnsetting, RegistrationsUnchanged DEF Call, store
<1>3. ASSUME NEW c \in Contracts, NEW code \in Codes, Migrate(c, code)
      PROVE  IInv'
  BY <1>0, <1>3, PushFrames, RunningNotUnsetting, RegistrationsUnchanged DEF Migrate
<1>4. ASSUME NEW c \in Contracts, SetPrivileged(c)
      PROVE  IInv'
  <2>1. ~Unsetting
    BY <1>4, RunningNotUnsetting DEF SetPrivileged, ExecuteGovProposal, Unsetting
  <2> QED
    BY <1>0, <1>4, <2>1, PushFrames, RegistrationsUnchanged DEF SetPrivileged
<1>5. ASSUME NEW c \in Contracts, UnsetPrivileged(c)
      PROVE  IInv'
  BY <1>0, <1>5, PushFrames, RunningNotUnsetting, RegistrationsUnchanged
  DEF UnsetPrivileged, ExecuteGovProposal, store
<1>6. ASSUME NEW t \in PrivilegeTypes, Request(t)
      PROVE  IInv'
  <2>1. ~Unsetting /\ stack' = stack
    BY <1>6, RunningNotUnsetting DEF Request
  <2> QED
    BY <1>0, <1>6, <2>1, SameStack, RequestStep, NewRegistrations
<1>7. ASSUME NEW t \in PrivilegeTypes, RequestOverflow(t)
      PROVE  IInv'
  <2>1. stack' = <<>> /\ details' = stack[1].saved.details /\ index' = stack[1].saved.index
    BY <1>7 DEF RequestOverflow, Restore
  <2>2. 1 \in 1 .. Len(stack)
    BY <1>7, TopType DEF RequestOverflow, DispatchMsg, UseGas, Running, IInv, TypeOK
  <2>3. Consistent(details', index') /\ Exclusive(index')
    BY <2>1, <2>2 DEF IInv, FailureRestoresConsistentStore
  <2>4. ~Unsetting' /\ FailureRestoresConsistentStore'
    BY <2>1, EmptyList DEF Unsetting, Idle, FailureRestoresConsistentStore
  <2> QED
    BY <1>0, <2>3, <2>4, NewRegistrations
<1>8. ASSUME NEW t \in PrivilegeTypes, Release(t)
      PROVE  IInv'
  <2>1. ~Unsetting /\ stack' = stack
    BY <1>8, RunningNotUnsetting DEF Release
  <2> QED
    BY <1>0, <1>8, <2>1, SameStack, ReleaseStep, NewRegistrations
<1>9. ASSUME NEW codes \in SUBSET Codes, PinCodes(codes) \/ UnpinCodes(codes)
      PROVE  IInv'
  BY <1>0, <1>9, SameStack, RunningNotUnsetting, RegistrationsUnchanged
  DEF PinCodes, UnpinCodes, ExecuteGovProposal
<1>10. CASE Return
  <2>1. ~Unsetting /\ ~Idle /\ stack' = Pop
    BY <1>10 DEF Return, Unsetting
  <2> QED
    BY <1>0, <1>10, <2>1, PopFrames, RegistrationsUnchanged DEF Return, store
<1>11. CASE Fail
  <2>1. ~Idle /\ stack' = Pop /\ details' = Top.saved.details /\ index' = Top.saved.index
    BY <1>11 DEF Fail, Restore
  <2>2. Len(stack) \in 1 .. Len(stack)
    BY <2>1, TopType DEF IInv, TypeOK
  <2>3. Consistent(details', index') /\ Exclusive(index')
    BY <2>1, <2>2 DEF IInv, FailureRestoresConsistentStore, Top
  <2> QED
    BY <1>0, <2>1, <2>3, PopFrames, NewRegistrations
<1>12. CASE DemotedReturns
  <2>1. Len(stack) \in Nat \ {0} /\ Top \in Frame
    BY <1>12, TopType DEF DemotedReturns, IInv, TypeOK
  <2>2. stack' = [stack EXCEPT ![Len(stack)] = [Top EXCEPT !.op = "unset"]]
    BY <1>12, <2>1 DEF DemotedReturns, Top
  <2>3. /\ Len(stack') = Len(stack)
        /\ stack'[Len(stack)] = [Top EXCEPT !.op = "unset"]
        /\ \A i \in 1 .. Len(stack) : i # Len(stack) => stack'[i] = stack[i]
    BY <2>1, <2>2 DEF IInv, TypeOK
  <2>4. /\ stack'[Len(stack)].op = "unset"
        /\ stack'[Len(stack)].saved = stack[Len(stack)].saved
    BY <2>1, <2>3 DEF Frame, Top
  <2>5. Unsetting'
    BY <2>1, <2>3, <2>4, EmptyList DEF Unsetting, Top, Idle
  <2>6. FailureRestoresConsistentStore'
    <3>1. ASSUME NEW i \in 1 .. Len(stack')
          PROVE  /\ Consistent(stack'[i].saved.details, stack'[i].saved.index)
                 /\ Exclusive(stack'[i].saved.index)
                 /\ i < Len(stack') => stack'[i].op # "unset"
      <4>1. i \in 1 .. Len(stack) /\ (i < Len(stack') => i # Len(stack))
        BY <2>1, <2>3
      <4>2. stack'[i].saved = stack[i].saved
        BY <2>3, <2>4, <4>1, Zenon
      <4>3. i < Len(stack') => stack'[i].op = stack[i].op
        BY <2>3, <4>1
      <4> QED
        BY <2>3, <4>1, <4>2, <4>3 DEF IInv, FailureRestoresConsistentStore
    <3> QED
      BY <3>1 DEF FailureRestoresConsistentStore
  <2>7. index' = index
    BY <1>12 DEF DemotedReturns
  <2> QED
    BY <1>0, <1>12, <2>5, <2>6, <2>7, LoopStarts
    DEF IInv, IndexMatchesDetails, RemovalTouchesOwnKeysOnly, SingletonExclusive
<1>13. CASE UnsetStep
  <2>1. Unsetting' /\ FailureRestoresConsistentStore'
    BY <1>13, SameStack DEF UnsetStep, Unsetting
  <2>2. Exclusive(index')
    <3> DEFINE e == loop.entries[loop.next]
    <3>1. e \in Entry /\ index \in IndexType /\ Exclusive(index)
      BY <1>13 DEF UnsetStep, IInv, TypeOK, Loop, IndexType, SingletonExclusive
    <3>2. index' = [index EXCEPT ![e] = None]
      BY <1>13 DEF UnsetStep
    <3> QED
      BY <3>1, <3>2, DeleteKeepsExclusive, Zenon
  <2> QED
    BY <1>0, <1>13, <2>1, <2>2, LoopContinues
    DEF IInv, IndexMatchesDetails, RemovalTouchesOwnKeysOnly, SingletonExclusive
<1>14. CASE UnsetDone
  <2>1. ~Idle /\ stack' = Pop /\ index' = index
    BY <1>14 DEF UnsetDone
  <2>2. Exclusive(index')
    BY <2>1 DEF IInv, SingletonExclusive
  <2> QED
    BY <1>0, <1>14, <2>1, <2>2, LoopEnds, PopFrames, NewRegistrations
<1>15. CASE ExportImport
  <2>1. ~Unsetting /\ stack' = stack /\ details' = details
    BY <1>15 DEF ExportImport, Unsetting
  <2> QED
    BY <1>0, <1>15, <2>1, ImportRestoresIndex, SameStack, RegistrationsUnchanged
<1>16. CASE StartChain
  BY <1>0, <1>16, SameStack, RegistrationsUnchanged DEF StartChain, store, Unsetting
<1>17. CASE UNCHANGED vars
  <2>1. /\ details' = details /\ index' = index
        /\ stack' = stack /\ loop' = loop
    BY <1>17 DEF vars, store, control
  <2>2. FailureRestoresConsistentStore' /\ (Unsetting' <=> Unsetting)
    BY <2>1, SameStack DEF Unsetting, Idle, Top
  <2>3. CASE ~Unsetting
    BY <1>0, <2>1, <2>2, <2>3, RegistrationsUnchanged
  <2>4. CASE Unsetting
    <3>1. Caller' = Caller /\ LoopInvariant(Caller)
      BY <2>1, <2>4 DEF Caller, Top, IInv, RemovalTouchesOwnKeysOnly
    <3>2. LoopInvariant(Caller)'
      BY <2>1, <3>1 DEF LoopInvariant
    <3> QED
      BY <1>0, <2>1, <2>2, <2>4, <3>2
      DEF IInv, IndexMatchesDetails, RemovalTouchesOwnKeysOnly, SingletonExclusive, Exclusive
  <2> QED
    BY <2>3, <2>4
<1>18. CASE \E c \in Contracts :
              \/ Call(c)
              \/ SetPrivileged(c)
              \/ UnsetPrivileged(c)
              \/ \E code \in Codes : Instantiate(c, code) \/ Migrate(c, code)
  BY <1>1, <1>2, <1>3, <1>4, <1>5, <1>18
<1>19. CASE \E t \in PrivilegeTypes : Request(t) \/ RequestOverflow(t) \/ Release(t)
  BY <1>6, <1>7, <1>8, <1>19
<1>20. CASE \E codes \in SUBSET Codes : PinCodes(codes) \/ UnpinCodes(codes)
  BY <1>9, <1>20
<1> QED
  BY <1>10, <1>11, <1>12, <1>13, <1>14, <1>15, <1>16, <1>17, <1>18, <1>19, <1>20, Zenon DEF Next

-----------------------------------------------------------------------------
(* The only ways a step changes the index: it deletes a key, a failing     *)
(* call brings an older index back, or a contract registers.               *)
LEMMA IndexChanges ==
    ASSUME IInv, [Next]_vars
    PROVE  \/ index' = index
           \/ \E e \in Entry : index' = [index EXCEPT ![e] = None]
           \/ Len(stack') < Len(stack)
           \/ \E t \in PrivilegeTypes : Request(t)
<1>1. ASSUME NEW c \in Contracts,
             \/ Call(c) \/ SetPrivileged(c) \/ UnsetPrivileged(c)
             \/ \E code \in Codes : Instantiate(c, code) \/ Migrate(c, code)
      PROVE  index' = index
  BY <1>1 DEF Call, SetPrivileged, UnsetPrivileged, Instantiate, Migrate, store
<1>2. ASSUME NEW t \in PrivilegeTypes, RequestOverflow(t)
      PROVE  Len(stack') < Len(stack)
  <2>1. Len(stack) \in Nat \ {0}
    BY <1>2, TopType DEF RequestOverflow, DispatchMsg, UseGas, Running, IInv, TypeOK
  <2>2. stack' = <<>>
    BY <1>2 DEF RequestOverflow
  <2> QED
    BY <2>1, <2>2, EmptyList
<1>3. ASSUME NEW t \in PrivilegeTypes, Release(t)
      PROVE  \E e \in Entry : index' = [index EXCEPT ![e] = None]
  <2>1. Caller \in Contracts
    BY <1>3, TopType DEF IInv, TypeOK, Release, DispatchMsg, UseGas, Running
  <2>2. PICK i \in 1 .. Len(details[Caller]) :
          index' = [index EXCEPT ![details[Caller][i]] = None]
    BY <1>3, Zenon DEF Release
  <2>3. details[Caller][i] \in Entry
    BY <2>1, <2>2 DEF IInv, TypeOK
  <2> QED
    BY <2>2, <2>3, Zenon
<1>4. CASE UnsetStep
  <2>1. loop.entries[loop.next] \in Entry
    BY <1>4 DEF UnsetStep, IInv, TypeOK, Loop
  <2> QED
    BY <1>4, <2>1, Zenon DEF UnsetStep
<1>5. CASE Fail
  BY <1>5, PopFrames, TopType DEF Fail, Pop, IInv, TypeOK
<1>6. ASSUME NEW codes \in SUBSET Codes, PinCodes(codes) \/ UnpinCodes(codes)
      PROVE  index' = index
  BY <1>6 DEF PinCodes, UnpinCodes
<1>7. CASE Return \/ DemotedReturns \/ UnsetDone \/ StartChain \/ UNCHANGED vars
  BY <1>7 DEF Return, DemotedReturns, UnsetDone, StartChain, vars, store
<1>8. CASE ExportImport
  BY <1>8, ImportRestoresIndex
<1> QED
  BY <1>1, <1>2, <1>3, <1>4, <1>5, <1>6, <1>7, <1>8 DEF Next

LEMMA AppendIsLastStep ==
    ASSUME IInv, [Next]_vars, NEW e \in Entry,
           index[e] = None, index'[e] # None, stack' = stack
    PROVE  \A q \in Registered(e.type) : q < e.position
<1>1. index \in [Entry -> Contracts \cup {None}] /\ Len(stack) \in Nat
  BY DEF IInv, TypeOK
<1>2. PICK t \in PrivilegeTypes : Request(t)
  BY <1>1, IndexChanges
<1>3. PICK pos \in 0 .. MaxPos :
        /\ IsLastPosition(t, pos)
        /\ NextPosition(pos) > pos
        /\ index' = [index EXCEPT ![Key(t, NextPosition(pos))] = Caller]
  BY <1>2, Zenon DEF Request
<1>4. e = Key(t, NextPosition(pos))
  BY <1>1, <1>3
<1>5. e.type = t /\ e.position = NextPosition(pos)
  BY <1>4 DEF Key
<1>6. NextPosition(pos) \in Nat
  BY BoundsAssumption DEF NextPosition
<1>7. \A q \in Registered(t) : q \in Nat /\ q <= pos
  BY <1>3 DEF IsLastPosition, Registered, Positions
<1> QED
  BY <1>3, <1>5, <1>6, <1>7

LEMMA OnlyPrivilegedStep ==
    ASSUME IInv, [Next]_vars, NEW e \in Entry, NEW c \in Contracts,
           index[e] # c, index'[e] = c
    PROVE  c \in privileged \/ Len(stack') < Len(stack)
<1>1. index \in [Entry -> Contracts \cup {None}]
  BY DEF IInv, TypeOK
<1>2. SUFFICES ASSUME NEW t \in PrivilegeTypes, Request(t)
               PROVE  c \in privileged
  BY <1>1, IndexChanges, TypesAssumption
<1>3. PICK f : index' = [index EXCEPT ![f] = Caller]
  BY <1>2, Zenon DEF Request
<1>4. c = Caller
  BY <1>1, <1>3
<1> QED
  BY <1>2, <1>4 DEF Request, DispatchMsg

-----------------------------------------------------------------------------
(* Every state of the registry has its type: positions stay within a byte  *)
(* and are never 0, and the removal loop never indexes past its array.     *)
THEOREM TypeCorrect == Spec => []TypeOK
<1>1. Init => TypeOK
  BY TypeInit
<1>2. TypeOK /\ [Next]_vars => TypeOK'
  BY TypeStep
<1> QED
  BY <1>1, <1>2, PTL DEF Spec

(* The inductive invariant of the registry: the two copies agree, or the   *)
(* removal loop is in a state from which they will, and so does every      *)
(* store that a failing call falls back to.                                *)
THEOREM Invariance == Spec => []IInv
<1> QED
  BY InvInit, InvStep, PTL DEF Spec

(* The registrations in a contract's details and the secondary index hold  *)
(* the same pairs whenever UnsetPrivileged is not removing them, whatever  *)
(* the contracts send, however calls nest and whichever of them fail.      *)
THEOREM IndexAgreesWithDetails == Spec => []IndexMatchesDetails
<1>1. IInv => IndexMatchesDetails
  BY DEF IInv
<1> QED
  BY <1>1, Invariance, PTL

(* A singleton privilege has at most one holder.                           *)
THEOREM SingletonsHaveOneHolder == Spec => []SingletonExclusive
<1>1. IInv => SingletonExclusive
  BY DEF IInv
<1> QED
  BY <1>1, Invariance, PTL

(* The removal loop of UnsetPrivileged, which iterates over the array it   *)
(* shrinks and deletes index keys without looking at their owner, never    *)
(* deletes a key of another contract.                                      *)
THEOREM RemovalIsContained == Spec => []RemovalTouchesOwnKeysOnly
<1>1. IInv => RemovalTouchesOwnKeysOnly
  BY DEF IInv
<1> QED
  BY <1>1, Invariance, PTL

(* A failed call, and any number of its callers, fall back to a store in   *)
(* which details and index agree.                                          *)
THEOREM RollbackIsConsistent == Spec => []FailureRestoresConsistentStore
<1>1. IInv => FailureRestoresConsistentStore
  BY DEF IInv
<1> QED
  BY <1>1, Invariance, PTL

(* What ExportGenesis writes, InitGenesis accepts: no position is claimed  *)
(* twice, on which importPrivileged returns an error.                      *)
THEOREM ExportCanBeImported == Spec => []ExportIsImportable
<1>1. ASSUME IInv, Idle PROVE Importable
  <2>1. Consistent(details, index)
    BY <1>1 DEF IInv, IndexMatchesDetails, Unsetting
  <2>2. ASSUME NEW e \in Entry, NEW c \in Claimants(e), NEW d \in Claimants(e)
        PROVE  c = d
    BY <2>1, <2>2 DEF Consistent, Claimants
  <2> QED
    BY <2>2 DEF Importable
<1>2. IInv => ExportIsImportable
  BY <1>1 DEF ExportIsImportable
<1> QED
  BY <1>2, Invariance, PTL

(* A new registration is called after every contract registered before it. *)
THEOREM AppendsAreLast == Spec => AppendIsLast
<1>1. IInv /\ [Next]_vars =>
        [\A e \in Entry :
            index[e] = None /\ index'[e] # None /\ stack' = stack
               => \A q \in Registered(e.type) : q < e.position]_vars
  BY AppendIsLastStep
<1> QED
  BY <1>1, Invariance, PTL DEF Spec, AppendIsLast

(* Only a contract with the privileged flag gains a registration, except   *)
(* where a failed call takes a removal back.                               *)
THEOREM RegistrationNeedsFlag == Spec => OnlyPrivilegedRegister
<1>1. IInv /\ [Next]_vars =>
        [\A e \in Entry, c \in Contracts :
            index[e] # c /\ index'[e] = c
               => c \in privileged \/ Len(stack') < Len(stack)]_vars
  BY OnlyPrivilegedStep
<1> QED
  BY <1>1, Invariance, PTL DEF Spec, OnlyPrivilegedRegister

(* A demotion unpins the contract's code only when no other contract runs  *)
(* it, so the codes of the contracts that stay privileged stay pinned.     *)
THEOREM SharedPinsAreKept == Spec => DemotionKeepsSharedPins
<1>1. ASSUME IInv, [Next]_vars, NEW c \in Contracts,
             Unsetting', c \in privileged', codeOf[c] \in pinned
      PROVE  codeOf'[c] \in pinned'
  <2>1. CASE DemotedReturns
    <3>1. Caller \in Contracts
      BY <1>1, <2>1, TopType DEF DemotedReturns, IInv, TypeOK
    <3>2. c # Caller /\ codeOf' = codeOf /\ pinned' = UnpinUnused(Caller)
      BY <1>1, <2>1 DEF DemotedReturns
    <3> QED
      BY <1>1, <3>1, <3>2 DEF UnpinUnused, InstancesOf
  <2>2. CASE codeOf' = codeOf /\ pinned' = pinned
    BY <1>1, <2>2
  <2>3. ASSUME NEW d \in Contracts, NEW op \in {"run", "promote", "demote"},
               Push(op, d), ~Unsetting
        PROVE  FALSE
    BY <1>1, <2>3, PushFrames
  <2>4. ASSUME NEW d \in Contracts,
               \/ Call(d) \/ SetPrivileged(d) \/ UnsetPrivileged(d)
               \/ \E code \in Codes : Migrate(d, code)
        PROVE  FALSE
    <3>1. ~Unsetting
      BY <2>4, RunningNotUnsetting
      DEF Call, SetPrivileged, UnsetPrivileged, Migrate, ExecuteGovProposal, Unsetting
    <3>2. \E op \in {"run", "promote", "demote"} : Push(op, d)
      BY <2>4 DEF Call, SetPrivileged, UnsetPrivileged, Migrate
    <3> QED
      BY <2>3, <3>1, <3>2
  <2>5. ASSUME stack' = stack, ~Unsetting
        PROVE  FALSE
    BY <1>1, <2>5, SameStack, ZenonT(30)
  <2>6. ASSUME NEW d \in Contracts, NEW code \in Codes, Instantiate(d, code)
        PROVE  FALSE
    BY <2>5, <2>6 DEF Instantiate, UseGas, Running, Unsetting
  <2>7. ASSUME NEW t \in PrivilegeTypes, Request(t) \/ Release(t)
        PROVE  FALSE
    BY <2>5, <2>7, RunningNotUnsetting DEF Request, Release
  <2>8. ASSUME NEW t \in PrivilegeTypes, RequestOverflow(t)
        PROVE  FALSE
    BY <1>1, <2>8 DEF RequestOverflow, Unsetting, Idle
  <2>9. ASSUME NEW codes \in SUBSET Codes, PinCodes(codes) \/ UnpinCodes(codes)
        PROVE  FALSE
    BY <2>5, <2>9, RunningNotUnsetting DEF PinCodes, UnpinCodes, ExecuteGovProposal
  <2>10. CASE Return \/ Fail \/ UnsetDone
    BY <1>1, <2>10, PopFrames DEF Return, Fail, UnsetDone
  <2>11. CASE UnsetStep \/ StartChain \/ UNCHANGED vars
    BY <2>2, <2>11 DEF UnsetStep, StartChain, vars, store
  <2>12. CASE ExportImport
    BY <2>5, <2>12 DEF ExportImport, Unsetting
  <2>13. CASE \E d \in Contracts :
                \/ Call(d)
                \/ SetPrivileged(d)
                \/ UnsetPrivileged(d)
                \/ \E code \in Codes : Instantiate(d, code) \/ Migrate(d, code)
    BY <2>4, <2>6, <2>13
  <2>14. CASE \E t \in PrivilegeTypes : Request(t) \/ RequestOverflow(t) \/ Release(t)
    BY <2>7, <2>8, <2>14
  <2>15. CASE \E codes \in SUBSET Codes : PinCodes(codes) \/ UnpinCodes(codes)
    BY <2>9, <2>15
  <2> QED
    BY <1>1, <2>1, <2>10, <2>11, <2>12, <2>13, <2>14, <2>15 DEF Next
<1>2. IInv /\ [Next]_vars =>
        [\A c \in Contracts :
            /\ Unsetting'
            /\ c \in privileged'
            /\ codeOf[c] \in pinned
            => codeOf'[c] \in pinned']_vars
  BY <1>1
<1> QED
  BY <1>2, Invariance, PTL DEF Spec, DemotionKeepsSharedPins

-----------------------------------------------------------------------------
(* TwasmPrivileges implements PrivilegeRegistry.                           *)

(* A contract holds a type at one position at most.                        *)
OneEach(idx) ==
    \A t \in PrivilegeTypes, p, q \in Positions, c \in Contracts :
        idx[Key(t, p)] = c /\ idx[Key(t, q)] = c => p = q

LEMMA KeyType ==
    ASSUME NEW t \in PrivilegeTypes, NEW p \in Positions
    PROVE  Key(t, p) \in Entry /\ Key(t, p).type = t /\ Key(t, p).position = p
BY DEF Key, Entry

LEMMA KeysAreDistinct ==
    ASSUME NEW t \in PrivilegeTypes, NEW p \in Positions,
           NEW u \in PrivilegeTypes, NEW q \in Positions, Key(t, p) = Key(u, q)
    PROVE  t = u /\ p = q
BY KeyType

LEMMA EntryIsKey ==
    ASSUME NEW e \in Entry
    PROVE  e.type \in PrivilegeTypes /\ e.position \in Positions /\ e = Key(e.type, e.position)
BY DEF Key, Entry

(* Deleting a key takes its holder out of the list of its type.            *)
LEMMA DeleteIsWithout ==
    ASSUME NEW idx \in IndexType, OneEach(idx), NEW c \in Contracts,
           NEW t \in PrivilegeTypes, NEW p \in Positions, idx[Key(t, p)] = c
    PROVE  ListsOf([idx EXCEPT ![Key(t, p)] = None]) = Registry!Without(ListsOf(idx), c, t)
<1> DEFINE new == [idx EXCEPT ![Key(t, p)] = None]
<1>1. \A u \in PrivilegeTypes, q \in Positions :
        new[Key(u, q)] = IF u = t /\ q = p THEN None ELSE idx[Key(u, q)]
  BY KeyType, KeysAreDistinct DEF IndexType
<1> HIDE DEF new
<1>2. \A d \in Contracts : d # None
  BY TypesAssumption
<1>3. \A q \in Positions : idx[Key(t, q)] = c => q = p
  BY DEF OneEach
<1>4. ASSUME NEW q \in Positions, NEW d \in Contracts
      PROVE  new[Key(t, q)] = d <=> idx[Key(t, q)] = d /\ d # c
  BY <1>1, <1>2, <1>3
<1>5. ASSUME NEW u \in PrivilegeTypes, u # t, NEW q \in Positions
      PROVE  new[Key(u, q)] = idx[Key(u, q)]
  BY <1>1, <1>5
<1>6. Holders(new) = [Holders(idx) EXCEPT ![t] = @ \ {c}]
  <2>1. Holders(new)[t] = Holders(idx)[t] \ {c}
    BY <1>4 DEF Holders
  <2>2. \A u \in PrivilegeTypes : u # t => Holders(new)[u] = Holders(idx)[u]
    BY <1>5 DEF Holders
  <2> QED
    BY <2>1, <2>2, Zenon DEF Holders
<1>7. Order(new) = [Order(idx) EXCEPT ![t] = {pair \in @ : pair[1] # c /\ pair[2] # c}]
  <2>1. Order(new)[t] = {pair \in Order(idx)[t] : pair[1] # c /\ pair[2] # c}
    <3>1. ASSUME NEW pair \in Contracts \X Contracts
          PROVE  pair \in Order(new)[t]
                 <=> pair \in Order(idx)[t] /\ pair[1] # c /\ pair[2] # c
      BY <1>4 DEF Order
    <3>2. Order(new)[t] \subseteq Contracts \X Contracts /\ Order(idx)[t] \subseteq Contracts \X Contracts
      BY DEF Order
    <3> QED
      BY <3>1, <3>2
  <2>2. \A u \in PrivilegeTypes : u # t => Order(new)[u] = Order(idx)[u]
    BY <1>5 DEF Order
  <2> QED
    BY <2>1, <2>2, Zenon DEF Order
<1> QED
  BY <1>6, <1>7, Zenon DEF ListsOf, Registry!Without, new

(* A key behind all others of its type puts the contract last in the list. *)
LEMMA AppendIsWith ==
    ASSUME NEW idx \in IndexType, NEW c \in Contracts,
           NEW t \in PrivilegeTypes, NEW p \in Positions,
           \A q \in Positions : idx[Key(t, q)] # None => q < p
    PROVE  ListsOf([idx EXCEPT ![Key(t, p)] = c]) = Registry!With(ListsOf(idx), c, t)
<1> DEFINE new == [idx EXCEPT ![Key(t, p)] = c]
<1>1. \A u \in PrivilegeTypes, q \in Positions :
        new[Key(u, q)] = IF u = t /\ q = p THEN c ELSE idx[Key(u, q)]
  BY KeyType, KeysAreDistinct DEF IndexType
<1> HIDE DEF new
<1>2. \A d \in Contracts : d # None
  BY TypesAssumption
<1>3. Positions \subseteq Int
  BY DEF Positions
<1>4. \A q \in Positions, d \in Contracts : idx[Key(t, q)] = d => q < p
  BY <1>2
<1>5. \A q \in Positions : new[Key(t, q)] = IF q = p THEN c ELSE idx[Key(t, q)]
  BY <1>1
<1>6. ASSUME NEW u \in PrivilegeTypes, u # t, NEW q \in Positions
      PROVE  new[Key(u, q)] = idx[Key(u, q)]
  BY <1>1, <1>6
<1>7. Holders(new) = [Holders(idx) EXCEPT ![t] = @ \cup {c}]
  <2>1. ASSUME NEW d \in Contracts
        PROVE  (\E q \in Positions : new[Key(t, q)] = d)
               <=> (\E q \in Positions : idx[Key(t, q)] = d) \/ d = c
    BY <1>3, <1>4, <1>5
  <2>2. Holders(new)[t] = Holders(idx)[t] \cup {c}
    BY <2>1 DEF Holders
  <2>3. \A u \in PrivilegeTypes : u # t => Holders(new)[u] = Holders(idx)[u]
    BY <1>6 DEF Holders
  <2> QED
    BY <2>2, <2>3, Zenon DEF Holders
<1>8. Order(new) = [Order(idx) EXCEPT ![t] = @ \cup (Holders(idx)[t] \X {c})]
  <2>1. ASSUME NEW a \in Contracts, NEW b \in Contracts
        PROVE  (\E q, r \in Positions : q < r /\ new[Key(t, q)] = a /\ new[Key(t, r)] = b)
               <=> \/ \E q, r \in Positions : q < r /\ idx[Key(t, q)] = a /\ idx[Key(t, r)] = b
                   \/ b = c /\ \E q \in Positions : idx[Key(t, q)] = a
    <3>1. ASSUME NEW q \in Positions, NEW r \in Positions,
                 q < r, new[Key(t, q)] = a, new[Key(t, r)] = b
          PROVE  \/ idx[Key(t, q)] = a /\ idx[Key(t, r)] = b
                 \/ b = c /\ idx[Key(t, q)] = a
      <4>1. CASE q = p
        BY <1>3, <1>4, <1>5, <3>1, <4>1
      <4>2. CASE q # p
        BY <1>5, <3>1, <4>2
      <4> QED
        BY <4>1, <4>2
    <3>2. ASSUME NEW q \in Positions, NEW r \in Positions,
                 q < r, idx[Key(t, q)] = a, idx[Key(t, r)] = b
          PROVE  new[Key(t, q)] = a /\ new[Key(t, r)] = b
      BY <1>3, <1>4, <1>5, <3>2
    <3>3. ASSUME NEW q \in Positions, idx[Key(t, q)] = a, b = c
          PROVE  q < p /\ new[Key(t, q)] = a /\ new[Key(t, p)] = b
      BY <1>3, <1>4, <1>5, <3>3
    <3> QED
      BY <3>1, <3>2, <3>3
  <2>2. Order(new)[t] = Order(idx)[t] \cup (Holders(idx)[t] \X {c})
    <3>1. ASSUME NEW a \in Contracts, NEW b \in Contracts
          PROVE  <<a, b>> \in Order(new)[t]
                 <=> <<a, b>> \in Order(idx)[t] \cup (Holders(idx)[t] \X {c})
      <4>1. <<a, b>> \in Order(new)[t]
            <=> \E q, r \in Positions : q < r /\ new[Key(t, q)] = a /\ new[Key(t, r)] = b
        BY DEF Order
      <4>2. <<a, b>> \in Order(idx)[t]
            <=> \E q, r \in Positions : q < r /\ idx[Key(t, q)] = a /\ idx[Key(t, r)] = b
        BY DEF Order
      <4>3. <<a, b>> \in Holders(idx)[t] \X {c}
            <=> b = c /\ \E q \in Positions : idx[Key(t, q)] = a
        BY DEF Holders
      <4> QED
        BY <2>1, <4>1, <4>2, <4>3
    <3>2. /\ Order(new)[t] \subseteq Contracts \X Contracts
          /\ Order(idx)[t] \subseteq Contracts \X Contracts
          /\ Holders(idx)[t] \subseteq Contracts
      BY DEF Order, Holders
    <3>3. ASSUME NEW pair
          PROVE  pair \in Order(new)[t]
                 <=> pair \in Order(idx)[t] \cup (Holders(idx)[t] \X {c})
      <4>1. CASE pair \in Contracts \X Contracts
        <5>1. PICK a \in Contracts, b \in Contracts : pair = <<a, b>>
          BY <4>1
        <5> QED
          BY <3>1, <5>1
      <4>2. CASE pair \notin Contracts \X Contracts
        BY <3>2, <4>2
      <4> QED
        BY <4>1, <4>2
    <3> QED
      BY <3>3
  <2>3. \A u \in PrivilegeTypes : u # t => Order(new)[u] = Order(idx)[u]
    BY <1>6 DEF Order
  <2> QED
    BY <2>2, <2>3, Zenon DEF Order
<1> QED
  BY <1>7, <1>8, Zenon DEF ListsOf, Registry!With, new

-----------------------------------------------------------------------------
(* The saved lists of the running calls.                                   *)

Saved == [i \in 1 .. Len(stack) |-> ListsOf(stack[i].saved.index)]

LEMMA ConsistentHasOneEach ==
    ASSUME NEW det \in DetailsType, NEW idx \in IndexType, Consistent(det, idx)
    PROVE  OneEach(idx)
<1> SUFFICES ASSUME NEW t \in PrivilegeTypes, NEW p \in Positions, NEW q \in Positions,
                    NEW c \in Contracts, idx[Key(t, p)] = c, idx[Key(t, q)] = c
             PROVE  p = q
  BY DEF OneEach
<1>1. /\ Key(t, p) \in Entry /\ Key(t, p).type = t /\ Key(t, p).position = p
      /\ Key(t, q) \in Entry /\ Key(t, q).type = t /\ Key(t, q).position = q
  BY KeyType
<1>2. PICK i \in 1 .. Len(det[c]) : det[c][i] = Key(t, p)
  BY <1>1 DEF Consistent
<1>3. PICK j \in 1 .. Len(det[c]) : det[c][j] = Key(t, q)
  BY <1>1 DEF Consistent
<1>4. i = j
  BY <1>1, <1>2, <1>3 DEF Consistent
<1> QED
  BY <1>1, <1>2, <1>3, <1>4

(* Also while the removal loop runs.                                       *)
LEMMA InvHasOneEach ==
    ASSUME IInv
    PROVE  OneEach(index)
<1>1. details \in DetailsType /\ index \in IndexType
  BY DEF IInv, TypeOK, DetailsType, IndexType
<1>2. CASE ~Unsetting
  BY <1>1, <1>2, ConsistentHasOneEach DEF IInv, IndexMatchesDetails
<1>3. CASE Unsetting
  <2> SUFFICES ASSUME NEW t \in PrivilegeTypes, NEW p \in Positions, NEW q \in Positions,
                      NEW c \in Contracts, index[Key(t, p)] = c, index[Key(t, q)] = c
               PROVE  p = q
    BY DEF OneEach
  <2>1. LoopInvariant(Caller)
    BY <1>3 DEF IInv, RemovalTouchesOwnKeysOnly
  <2>2. /\ Key(t, p) \in Entry /\ Key(t, p).type = t /\ Key(t, p).position = p
        /\ Key(t, q) \in Entry /\ Key(t, q).type = t /\ Key(t, q).position = q
    BY KeyType
  <2>3. CASE c = Caller
    <3>1. PICK i \in 1 .. loop.len : loop.entries[i] = Key(t, p)
      BY <2>1, <2>2, <2>3 DEF LoopInvariant
    <3>2. PICK j \in 1 .. loop.len : loop.entries[j] = Key(t, q)
      BY <2>1, <2>2, <2>3 DEF LoopInvariant
    <3>3. i = j
      BY <2>1, <2>2, <3>1, <3>2 DEF LoopInvariant
    <3> QED
      BY <2>2, <3>1, <3>2, <3>3
  <2>4. CASE c # Caller
    <3>1. PICK i \in 1 .. Len(details[c]) : details[c][i] = Key(t, p)
      BY <2>1, <2>2, <2>4 DEF LoopInvariant
    <3>2. PICK j \in 1 .. Len(details[c]) : details[c][j] = Key(t, q)
      BY <2>1, <2>2, <2>4 DEF LoopInvariant
    <3>3. i = j
      BY <2>1, <2>2, <2>4, <3>1, <3>2 DEF LoopInvariant
    <3> QED
      BY <2>2, <3>1, <3>2, <3>3
  <2> QED
    BY <2>3, <2>4
<1> QED
  BY <1>2, <1>3

LEMMA ListsType ==
    ASSUME NEW idx
    PROVE  ListsOf(idx) \in Registry!Lists
BY DEF ListsOf, Holders, Order, Registry!Lists

LEMMA SavedLength ==
    ASSUME TypeOK
    PROVE  /\ Len(stack) \in Nat
           /\ Saved \in Seq(Registry!Lists)
           /\ Len(Saved) = Len(stack)
           /\ ~Idle => Saved # <<>> /\ Len(stack) \in Nat \ {0}
<1>1. Len(stack) \in Nat
  BY DEF TypeOK
<1>2. Saved \in [1 .. Len(stack) -> Registry!Lists]
  BY ListsType DEF Saved
<1>3. Saved \in Seq(Registry!Lists)
  BY <1>1, <1>2, ListOf
<1>4. Len(Saved) = Len(stack)
  BY <1>1, <1>2, <1>3, ListShape
<1>5. ~Idle => Len(stack) \in Nat \ {0}
  BY TopType DEF TypeOK
<1>6. ~Idle => Saved # <<>>
  BY <1>4, <1>5, EmptyList
<1> QED
  BY <1>1, <1>3, <1>4, <1>5, <1>6

LEMMA AppendSeq ==
    ASSUME NEW S, NEW s \in Seq(S), NEW x \in S
    PROVE  Append(s, x) = [i \in 1 .. Len(s) + 1 |-> IF i = Len(s) + 1 THEN x ELSE s[i]]
<1> DEFINE r == [i \in 1 .. Len(s) + 1 |-> IF i = Len(s) + 1 THEN x ELSE s[i]]
<1>1. Len(s) \in Nat
  OBVIOUS
<1>2. r \in [1 .. Len(s) + 1 -> S]
  BY <1>1
<1>3. r \in Seq(S)
  BY <1>1, <1>2, ListOf
<1>4. Len(r) = Len(s) + 1
  BY <1>1, <1>2, <1>3, ListShape
<1>5. Append(s, x) \in Seq(S) /\ Len(Append(s, x)) = Len(s) + 1
  BY Appended
<1>6. \A i \in 1 .. Len(s) + 1 : Append(s, x)[i] = r[i]
  BY <1>1, Appended
<1> HIDE DEF r
<1>7. Append(s, x) = r
  BY <1>3, <1>4, <1>5, <1>6, SameList
<1> QED
  BY <1>7 DEF r

(* A call saves the current lists.                                         *)
LEMMA PushIsCall ==
    ASSUME TypeOK, NEW op \in {"run", "promote", "demote"}, NEW c \in Contracts,
           Push(op, c), index' = index
    PROVE  Saved' = Append(Saved, ListsOf(index)) /\ ListsOf(index)' = ListsOf(index)
<1>1. /\ Len(stack') = Len(stack) + 1
      /\ \A i \in 1 .. Len(stack) : stack'[i] = stack[i]
      /\ stack'[Len(stack) + 1] = [op |-> op, contract |-> c, saved |-> Snapshot]
  BY PushType
<1>2. Len(stack) \in Nat /\ Len(Saved) = Len(stack)
  BY SavedLength
<1>3. Saved' = [i \in 1 .. Len(stack) + 1 |-> ListsOf(stack'[i].saved.index)]
  BY <1>1 DEF Saved
<1>4. \A i \in 1 .. Len(stack) : ListsOf(stack'[i].saved.index) = Saved[i]
  BY <1>1 DEF Saved
<1>5. ListsOf(stack'[Len(stack) + 1].saved.index) = ListsOf(index)
  BY <1>1 DEF Snapshot
<1>6. Append(Saved, ListsOf(index)) =
        [i \in 1 .. Len(Saved) + 1 |-> IF i = Len(Saved) + 1 THEN ListsOf(index) ELSE Saved[i]]
  BY SavedLength, ListsType, AppendSeq
<1>7. Saved' = Append(Saved, ListsOf(index))
  BY <1>2, <1>3, <1>4, <1>5, <1>6
<1> QED
  BY <1>7

LEMMA PopIsOuter ==
    ASSUME TypeOK, ~Idle, stack' = Pop
    PROVE  Saved' = [i \in 1 .. Len(Saved) - 1 |-> Saved[i]]
<1>1. /\ Len(stack') = Len(stack) - 1
      /\ \A i \in 1 .. Len(stack) - 1 : stack'[i] = stack[i]
      /\ Len(stack) \in Nat /\ Len(Saved) = Len(stack)
  BY TopType, SavedLength, Zenon DEF TypeOK
<1>2. Saved' = [i \in 1 .. Len(stack) - 1 |-> ListsOf(stack'[i].saved.index)]
  BY <1>1 DEF Saved
<1>3. \A i \in 1 .. Len(stack) - 1 : ListsOf(stack'[i].saved.index) = Saved[i]
  BY <1>1 DEF Saved
<1> QED
  BY <1>1, <1>2, <1>3, Zenon

LEMMA SameIsStutter ==
    ASSUME stack' = stack, index' = index
    PROVE  Saved' = Saved /\ ListsOf(index)' = ListsOf(index)
BY DEF Saved

-----------------------------------------------------------------------------
(* Every step is a step of the registry or leaves its lists alone.         *)

LEMMA RequestRegisters ==
    ASSUME IInv, NEW t \in PrivilegeTypes, Request(t)
    PROVE  Registry!Register(Caller, t)
<1>1. Caller \in Contracts /\ ~Unsetting /\ ~Idle
  BY TopType, RunningNotUnsetting DEF IInv, TypeOK, Request, DispatchMsg, UseGas, Running
<1>2. details \in DetailsType /\ index \in IndexType /\ Consistent(details, index)
  BY <1>1 DEF IInv, TypeOK, DetailsType, IndexType, IndexMatchesDetails
<1>3. PICK pos \in 0 .. MaxPos :
        /\ IsLastPosition(t, pos)
        /\ NextPosition(pos) > pos
        /\ index' = [index EXCEPT ![Key(t, NextPosition(pos))] = Caller]
  BY Zenon DEF Request
<1>4. NextPosition(pos) \in Positions
  BY <1>3, BoundsAssumption DEF NextPosition, Positions
<1>5. \A q \in Positions : index[Key(t, q)] # None => q < NextPosition(pos)
  <2>1. \A q \in Registered(t) : q <= pos
    BY <1>3 DEF IsLastPosition
  <2> QED
    BY <1>3, <1>4, <2>1 DEF Registered, Positions
<1>6. ListsOf(index)' = Registry!With(ListsOf(index), Caller, t)
  <2>1. ListsOf(index') = Registry!With(ListsOf(index), Caller, t)
    BY <1>1, <1>2, <1>3, <1>4, <1>5, AppendIsWith, Zenon
  <2> QED
    BY <2>1, Zenon
<1>7. Caller \notin ListsOf(index).held[t]
  <2>1. \A i \in 1 .. Len(details[Caller]) : details[Caller][i].type # t
    BY DEF Request, HasRegisteredPrivilege
  <2>2. \A p \in Positions : index[Key(t, p)] # Caller
    BY <1>1, <1>2, <2>1, KeyType DEF Consistent
  <2> QED
    BY <2>2 DEF ListsOf, Holders
<1>8. t \in SingletonTypes => ListsOf(index).held[t] = {}
  <2>1. t \in SingletonTypes => \A p \in Positions : index[Key(t, p)] = None
    BY DEF Request, SingletonTaken, Registered
  <2> QED
    BY <2>1, TypesAssumption DEF ListsOf, Holders
<1>9. Saved' = Saved /\ Saved # <<>>
  <2>1. Saved' = Saved
    BY DEF Request, Saved
  <2> QED
    BY <1>1, <2>1, SavedLength DEF IInv
<1> QED
  BY <1>6, <1>7, <1>8, <1>9 DEF Registry!Register, Saved

(* Deleting a key of the caller takes it off one list; deleting a key that *)
(* is gone already changes nothing.                                        *)
LEMMA DeletionUnregisters ==
    ASSUME IInv, ~Idle, NEW e \in Entry, index[e] \in {Caller, None}, Caller \in Contracts,
           index' = [index EXCEPT ![e] = None], stack' = stack
    PROVE  \/ Registry!Unregister(Caller, e.type)
           \/ ListsOf(index)' = ListsOf(index) /\ Saved' = Saved
<1>1. index \in IndexType
  BY DEF IInv, TypeOK, IndexType
<1>2. e.type \in PrivilegeTypes /\ e.position \in Positions /\ e = Key(e.type, e.position)
  BY EntryIsKey
<1>3. Saved' = Saved /\ Saved # <<>>
  <2>1. Saved' = Saved
    BY DEF Saved
  <2> QED
    BY <2>1, SavedLength DEF IInv
<1>4. CASE index[e] = None
  <2>1. index' = index
    BY <1>1, <1>4 DEF IndexType
  <2> QED
    BY <2>1, SameIsStutter
<1>5. CASE index[e] = Caller
  <2>1. OneEach(index)
    BY InvHasOneEach
  <2>2. ListsOf(index') = Registry!Without(ListsOf(index), Caller, e.type)
    <3>1. PICK t \in PrivilegeTypes, p \in Positions : t = e.type /\ e = Key(t, p)
      BY <1>2
    <3>2. index[Key(t, p)] = Caller /\ index' = [index EXCEPT ![Key(t, p)] = None]
      BY <1>5, <3>1, Zenon
    <3>3. ListsOf([index EXCEPT ![Key(t, p)] = None])
            = Registry!Without(ListsOf(index), Caller, t)
      BY <1>1, <2>1, <3>2, DeleteIsWithout, ZenonT(30)
    <3> QED
      BY <3>1, <3>2, <3>3, Zenon
  <2>3. Caller \in ListsOf(index).held[e.type]
    BY <1>2, <1>5 DEF ListsOf, Holders
  <2>4. ListsOf(index)' = Registry!Without(ListsOf(index), Caller, e.type)
    BY <2>2
  <2> QED
    BY <1>3, <2>3, <2>4 DEF Registry!Unregister, Saved
<1> QED
  BY <1>4, <1>5

LEMMA RegistryInit == Init => Registry!Init
<1> SUFFICES ASSUME Init PROVE Registry!Init
  OBVIOUS
<1>1. Saved = <<>>
  <2>1. Len(Saved) = 0 /\ Saved \in Seq(Registry!Lists)
    BY TypeInit, SavedLength, EmptyList DEF Init
  <2> QED
    BY <2>1, EmptyList
<1>2. \A t \in PrivilegeTypes, p \in Positions, c \in Contracts : index[Key(t, p)] # c
  BY KeyType, TypesAssumption DEF Init
<1>3. Holders(index) = [t \in PrivilegeTypes |-> {}]
  BY <1>2 DEF Holders
<1>4. Order(index) = [t \in PrivilegeTypes |-> {}]
  <2>1. \A t \in PrivilegeTypes : Order(index)[t] = {}
    BY <1>2 DEF Order
  <2> QED
    BY <2>1 DEF Order
<1> QED
  BY <1>1, <1>3, <1>4, ZenonT(30) DEF Registry!Init, Registry!Empty, ListsOf, Saved

LEMMA RegistryStep == IInv /\ [Next]_vars => [Registry!Next]_(Registry!vars)
<1> SUFFICES ASSUME IInv, [Next]_vars PROVE Registry!Next \/ UNCHANGED Registry!vars
  OBVIOUS
<1>0. TypeOK
  BY DEF IInv
<1>1. ASSUME Saved' = Saved, ListsOf(index)' = ListsOf(index)
      PROVE  UNCHANGED Registry!vars
  BY <1>1 DEF Registry!vars, Saved
<1>2. ASSUME index' = index, stack' = stack
      PROVE  UNCHANGED Registry!vars
  BY <1>1, <1>2, SameIsStutter
<1>3. ASSUME NEW op \in {"run", "promote", "demote"}, NEW c \in Contracts,
             Push(op, c), index' = index
      PROVE  Registry!Next
  <2>1. Registry!Call
    BY <1>0, <1>3, PushIsCall, ZenonT(30) DEF Registry!Call, Saved
  <2> QED
    BY <2>1 DEF Registry!Next
<1>4. ASSUME NEW c \in Contracts,
             \/ Call(c) \/ SetPrivileged(c) \/ UnsetPrivileged(c)
             \/ \E code \in Codes : Migrate(c, code)
      PROVE  Registry!Next
  <2>1. CASE Call(c)
    BY <1>3, <2>1 DEF Call, store
  <2>2. CASE SetPrivileged(c)
    BY <1>3, <2>2 DEF SetPrivileged
  <2>3. CASE UnsetPrivileged(c)
    BY <1>3, <2>3 DEF UnsetPrivileged, store
  <2>4. CASE \E code \in Codes : Migrate(c, code)
    BY <1>3, <2>4 DEF Migrate
  <2> QED
    BY <1>4, <2>1, <2>2, <2>3, <2>4
<1>5. ASSUME NEW c \in Contracts, NEW code \in Codes, Instantiate(c, code)
      PROVE  UNCHANGED Registry!vars
  BY <1>2, <1>5 DEF Instantiate
<1>6. ASSUME NEW t \in PrivilegeTypes, Request(t)
      PROVE  Registry!Next
  <2>1. Caller \in Contracts
    BY <1>0, <1>6, TopType, ZenonT(30) DEF TypeOK, Request, DispatchMsg, UseGas, Running
  <2> QED
    BY <1>6, <2>1, RequestRegisters DEF Registry!Next
<1>7. ASSUME NEW t \in PrivilegeTypes, RequestOverflow(t)
      PROVE  Registry!Next
  <2>1. ~Idle /\ stack' = <<>> /\ index' = stack[1].saved.index
    BY <1>7 DEF RequestOverflow, Restore, DispatchMsg, UseGas, Running
  <2>2. Len(stack) \in Nat \ {0} /\ Saved # <<>>
    BY <1>0, <2>1, SavedLength
  <2>3. ListsOf(index)' = Saved[1]
    <3>1. ListsOf(index') = Saved[1]
      BY <2>1, <2>2 DEF Saved
    <3> QED
      BY <3>1
  <2>4. Saved' = <<>>
    <3>1. Len(stack') = 0
      BY <2>1
    <3>2. Saved' = [i \in 1 .. 0 |-> ListsOf(stack'[i].saved.index)]
      BY <3>1 DEF Saved
    <3> QED
      BY <3>2
  <2>5. Registry!Panic
    BY <2>2, <2>3, <2>4, Zenon DEF Registry!Panic, Saved
  <2> QED
    BY <2>5 DEF Registry!Next
<1>8. ASSUME NEW c \in Contracts, NEW e \in Entry, c = Caller, ~Idle,
             index[e] \in {Caller, None},
             index' = [index EXCEPT ![e] = None], stack' = stack
      PROVE  Registry!Next \/ UNCHANGED Registry!vars
  <2>1. CASE Registry!Unregister(Caller, e.type)
    BY <1>8, <2>1, EntryIsKey DEF Registry!Next
  <2>2. CASE ListsOf(index)' = ListsOf(index) /\ Saved' = Saved
    BY <1>1, <2>2
  <2> QED
    BY <1>8, <2>1, <2>2, DeletionUnregisters, Zenon
<1>9. ASSUME NEW t \in PrivilegeTypes, Release(t)
      PROVE  Registry!Next \/ UNCHANGED Registry!vars
  <2>1. Caller \in Contracts /\ ~Idle /\ ~Unsetting /\ stack' = stack
    BY <1>0, <1>9, TopType, RunningNotUnsetting
    DEF TypeOK, Release, DispatchMsg, UseGas, Running
  <2>2. PICK i \in 1 .. Len(details[Caller]) :
          index' = [index EXCEPT ![details[Caller][i]] = None]
    BY <1>9, Zenon DEF Release
  <2>3. details[Caller][i] \in Entry
    BY <1>0, <2>1, <2>2 DEF TypeOK
  <2>4. index[details[Caller][i]] = Caller
    BY <2>1, <2>2, <2>3 DEF IInv, IndexMatchesDetails, Consistent
  <2> QED
    BY <1>8, <2>1, <2>2, <2>3, <2>4, Zenon
<1>10. CASE UnsetStep
  <2>1. ~Idle /\ Unsetting /\ stack' = stack /\ loop.next \in 1 .. Len(loop.entries)
    BY <1>0, <1>10 DEF UnsetStep, Unsetting, TypeOK, Loop
  <2>2. Caller \in Contracts
    BY <1>0, <2>1, TopType DEF TypeOK
  <2>3. loop.entries[loop.next] \in Entry
    BY <1>0, <2>1 DEF TypeOK, Loop
  <2>4. index[loop.entries[loop.next]] \in {Caller, None}
    BY <2>1 DEF IInv, RemovalTouchesOwnKeysOnly, LoopInvariant
  <2>5. index' = [index EXCEPT ![loop.entries[loop.next]] = None]
    BY <1>10 DEF UnsetStep
  <2> QED
    BY <1>8, <2>1, <2>2, <2>3, <2>4, <2>5, Zenon
<1>11. CASE Return \/ UnsetDone
  <2>1. ~Idle /\ stack' = Pop /\ index' = index
    BY <1>11, ZenonT(30) DEF Return, UnsetDone, store
  <2>2. Saved # <<>> /\ Saved' = [i \in 1 .. Len(Saved) - 1 |-> Saved[i]]
    BY <1>0, <2>1, SavedLength, PopIsOuter
  <2>3. ListsOf(index)' = ListsOf(index)
    BY <2>1
  <2>4. Registry!Return
    BY <2>2, <2>3, ZenonT(30) DEF Registry!Return, Registry!Outer, Saved
  <2> QED
    BY <2>4 DEF Registry!Next
<1>12. CASE Fail
  <2>1. ~Idle /\ stack' = Pop /\ index' = stack[Len(stack)].saved.index
    BY <1>12 DEF Fail, Restore, Top
  <2>2. Len(stack) \in Nat \ {0} /\ Saved # <<>> /\ Len(Saved) = Len(stack)
    BY <1>0, <2>1, SavedLength
  <2>3. ListsOf(index)' = Saved[Len(Saved)]
    <3>1. ListsOf(index') = Saved[Len(Saved)]
      BY <2>1, <2>2 DEF Saved
    <3> QED
      BY <3>1
  <2>4. Registry!Fail
    BY <1>0, <2>1, <2>2, <2>3, PopIsOuter, Zenon DEF Registry!Fail, Registry!Outer, Saved
  <2> QED
    BY <2>4 DEF Registry!Next
<1>13. CASE DemotedReturns
  <2>1. Len(stack) \in Nat \ {0} /\ Top \in Frame /\ stack \in Seq(Frame)
    BY <1>0, <1>13, TopType DEF DemotedReturns, TypeOK
  <2>2. stack' = [stack EXCEPT ![Len(stack)] = [Top EXCEPT !.op = "unset"]]
    BY <1>13, <2>1 DEF DemotedReturns, Top
  <2>3. Len(stack') = Len(stack) /\ \A i \in 1 .. Len(stack) : stack'[i].saved = stack[i].saved
    BY <2>1, <2>2 DEF Frame, Top
  <2>4. Saved' = Saved
    <3>1. Saved' = [i \in 1 .. Len(stack') |-> ListsOf(stack'[i].saved.index)]
      BY DEF Saved
    <3> QED
      BY <2>3, <3>1 DEF Saved
  <2>5. ListsOf(index)' = ListsOf(index)
    BY <1>13 DEF DemotedReturns
  <2> QED
    BY <1>1, <2>4, <2>5
<1>14. CASE ExportImport
  BY <1>2, <1>14, ImportRestoresIndex DEF ExportImport
<1>15. CASE StartChain \/ UNCHANGED vars
  BY <1>2, <1>15 DEF StartChain, vars, store, control
<1>16. ASSUME NEW codes \in SUBSET Codes, PinCodes(codes) \/ UnpinCodes(codes)
       PROVE  UNCHANGED Registry!vars
  BY <1>2, <1>16 DEF PinCodes, UnpinCodes
<1>17. CASE \E c \in Contracts :
              \/ Call(c)
              \/ SetPrivileged(c)
              \/ UnsetPrivileged(c)
              \/ \E code \in Codes : Instantiate(c, code) \/ Migrate(c, code)
  BY <1>4, <1>5, <1>17
<1>18. CASE \E t \in PrivilegeTypes : Request(t) \/ RequestOverflow(t) \/ Release(t)
  BY <1>6, <1>7, <1>9, <1>18
<1> QED
  BY <1>10, <1>11, <1>12, <1>13, <1>14, <1>15, <1>16, <1>17, <1>18 DEF Next

-----------------------------------------------------------------------------
(* The two copies of the registrations, the byte positions, the removal    *)
(* loop over a shrinking array and the dropped stores of failed calls      *)
(* behave like one list of contracts per privilege type, in the order of   *)
(* registration, with nested calls that take effect whole or not at all.   *)
THEOREM Refinement == Spec => ImplementsRegistry
<1>1. Init => Registry!Init
  BY RegistryInit
<1>2. IInv /\ [Next]_vars => [Registry!Next]_(Registry!vars)
  BY RegistryStep
<1> QED
  BY <1>1, <1>2, Invariance, PTL DEF Spec, ImplementsRegistry, Registry!Spec

=============================================================================
