--------------------------- MODULE BlockCycleProof ---------------------------
(***************************************************************************)
(* Proofs about BlockCycle, for every set of contracts, validators and     *)
(* votes, any number of registrations and any number of crashes.           *)
(***************************************************************************)
EXTENDS BlockCycle, TLAPS

(* Tendermint's set after an update.                                       *)
Updated(vals, d) == (vals \cup d.add) \ d.remove

(* The valset contract's view and Tendermint's differ by exactly the       *)
(* update that is under way.                                               *)
InSync ==
    /\ appDone => pc \in {"save", "down"} /\ app.active = Updated(tmVals, diff)
    /\ ~appDone => pc # "save" /\ tmVals = app.active
    /\ pc \in {"idle", "save", "down"} => work = app
    /\ pc \in {"begin", "deliver"} \/ (pc = "end" /\ turn <= 2)
          => work.active = tmVals /\ ~updated
    /\ (pc = "end" /\ turn = 3) \/ pc = "commit"
          => /\ work.active = Updated(tmVals, diff)
             /\ updated => work.active = work.members

(* Contracts run only after the keeper's votes are those of the block.     *)
VotesFirst ==
    /\ ReadsOwnVotes
    /\ block = None => reads = {}
    /\ pc \in {"begin", "deliver", "end"} => block # None
    /\ (pc = "begin" /\ turn >= 2) \/ pc \in {"deliver", "end"} => votes = block

(* The iterator has left no position behind that stayed registered.        *)
NoneSkipped ==
    /\ iter.open => (pc = "begin" /\ turn = 2) \/ (pc = "end" /\ turn = 1)
    /\ iter.open => \A p \in iter.kept : p <= iter.cursor => p \in iter.called

IInv == TypeOK /\ InSync /\ VotesFirst /\ NoneSkipped

-----------------------------------------------------------------------------
LEMMA Turns ==
    ASSUME turn \in 1 .. 3
    PROVE  /\ InTurn("begin", "poe") => pc = "begin" /\ turn = 1
           /\ InTurn("begin", "twasm") => pc = "begin" /\ turn = 2
           /\ InTurn("end", "twasm") => pc = "end" /\ turn = 1
           /\ InTurn("end", "poe") => pc = "end" /\ turn = 2
<1>1. turn = 1 \/ turn = 2 \/ turn = 3
  OBVIOUS
<1> QED
  BY <1>1 DEF InTurn, BeginOrder, EndOrder

LEMMA ClosedType == Closed \in Iterator /\ ~Closed.open
<1>1. NoRegistrations \in Registrations
  BY DEF NoRegistrations, Registrations
<1>2. 0 \in 0 .. MaxPos
  BY CycleAssumption
<1> QED
  BY <1>1, <1>2 DEF Closed, Iterator

LEMMA NoDiffType == NoDiff \in Diff
BY DEF NoDiff, Diff

(* Whatever a contract does, the state keeps its type and the validators   *)
(* it has reported.                                                        *)
LEMMA EffectsType ==
    ASSUME NEW s \in AppState, NEW r \in Effects(s)
    PROVE  r \in AppState /\ r.active = s.active
<1>1. CASE r = s
  BY <1>1
<1>2. CASE r = [s EXCEPT !.updater = ~@]
  BY <1>2, Zenon DEF AppState
<1>3. ASSUME NEW m \in ValidatorSets, r = [s EXCEPT !.members = m]
      PROVE  r \in AppState /\ r.active = s.active
  BY <1>3 DEF AppState
<1>4. ASSUME NEW t \in CallbackTypes,
             NEW g \in RegisterChanges(s.regs[t]) \cup ReleaseChanges(s.regs[t]),
             r = [s EXCEPT !.regs[t] = g]
      PROVE  r \in AppState /\ r.active = s.active
  <2>1. s.regs[t] \in Registrations
    BY DEF AppState
  <2>2. g \in Registrations
    BY <2>1 DEF RegisterChanges, ReleaseChanges, Used, Registrations
  <2> QED
    BY <1>4, <2>2 DEF AppState
<1> QED
  BY <1>1, <1>2, <1>3, <1>4 DEF Effects

-----------------------------------------------------------------------------
LEMMA InvInit == Init => IInv
<1> SUFFICES ASSUME Init PROVE IInv
  OBVIOUS
<1>1. app \in AppState /\ app.active \in ValidatorSets
  <2>1. [t \in CallbackTypes |-> NoRegistrations] \in [CallbackTypes -> Registrations]
    BY DEF NoRegistrations, Registrations
  <2> QED
    BY <2>1, Zenon DEF Init, AppState
<1>2. TypeOK
  <2>1. /\ app \in AppState /\ work \in AppState
        /\ votes \in Votes \cup {None} /\ block \in Votes \cup {None}
        /\ tmVals \in ValidatorSets /\ reads \in SUBSET (Votes \cup {None})
    BY <1>1 DEF Init
  <2>2. turn \in 1 .. 3 /\ crashes \in 0 .. MaxCrashes
    BY CycleAssumption DEF Init
  <2>3. iter \in Iterator /\ ~iter.open /\ diff \in Diff
    BY ClosedType, NoDiffType DEF Init
  <2>4. /\ pc \in {"idle", "begin", "deliver", "end", "commit", "save", "down"}
        /\ appDone \in BOOLEAN /\ updated \in BOOLEAN
    BY Zenon DEF Init
  <2> QED
    BY <2>1, <2>2, <2>3, <2>4 DEF TypeOK
<1>3. InSync
  BY DEF Init, InSync
<1>4. VotesFirst /\ NoneSkipped
  BY ClosedType DEF Init, VotesFirst, ReadsOwnVotes, NoneSkipped
<1> QED
  BY <1>2, <1>3, <1>4 DEF IInv

LEMMA InvStep == IInv /\ [Next]_vars => IInv'
<1> SUFFICES ASSUME IInv, [Next]_vars PROVE IInv'
  OBVIOUS
<1>0. TypeOK /\ InSync /\ VotesFirst /\ NoneSkipped
  BY DEF IInv
<1>1. CASE StartBlock
  <2>1. block' \in Votes /\ block' # None
    BY <1>0, <1>1, CycleAssumption DEF StartBlock, TypeOK
  <2>2. TypeOK'
    <3>1. /\ app' \in AppState /\ work' \in AppState /\ votes' \in Votes \cup {None}
          /\ tmVals' \in ValidatorSets /\ reads' \in SUBSET (Votes \cup {None})
          /\ iter' \in Iterator /\ crashes' \in 0 .. MaxCrashes /\ appDone' \in BOOLEAN
      BY <1>0, <1>1 DEF StartBlock, TypeOK
    <3>2. pc' = "begin" /\ turn' = 1 /\ diff' = NoDiff /\ updated' = FALSE
      BY <1>1 DEF StartBlock
    <3>3. turn' \in 1 .. 3 /\ diff' \in Diff
      BY <3>2, NoDiffType
    <3>4. updated' \in BOOLEAN
      BY <3>2, Zenon
    <3> QED
      BY <2>1, <3>1, <3>2, <3>3, <3>4 DEF TypeOK, CallbackTypes
  <2>3. InSync'
    BY <1>0, <1>1 DEF StartBlock, InSync
  <2>4. VotesFirst'
    BY <1>0, <1>1, <2>1 DEF StartBlock, VotesFirst, ReadsOwnVotes
  <2>5. NoneSkipped'
    BY <1>0, <1>1 DEF StartBlock, NoneSkipped
  <2> QED
    BY <2>2, <2>3, <2>4, <2>5 DEF IInv
<1>2. CASE PoEBeginBlocker
  <2>1. pc = "begin" /\ turn = 1 /\ turn' = 2
    BY <1>0, <1>2, Turns DEF PoEBeginBlocker, TypeOK
  <2>2. TypeOK'
    BY <1>0, <1>2, <2>1 DEF PoEBeginBlocker, TypeOK
  <2>3. InSync'
    BY <1>0, <1>2, <2>1 DEF PoEBeginBlocker, InSync
  <2>4. VotesFirst'
    BY <1>0, <1>2, <2>1 DEF PoEBeginBlocker, VotesFirst, ReadsOwnVotes
  <2>5. NoneSkipped'
    BY <1>0, <1>2, <2>1 DEF PoEBeginBlocker, NoneSkipped
  <2> QED
    BY <2>2, <2>3, <2>4, <2>5 DEF IInv
<1>3. ASSUME NEW t \in CallbackTypes, OpenIterator(t)
      PROVE  IInv'
  <2>1. (pc = "begin" /\ turn = 2) \/ (pc = "end" /\ turn = 1)
    BY <1>0, <1>3, Turns DEF OpenIterator, TypeOK, CallbackTypes
  <2>2. iter' \in Iterator
    <3>1. work.regs[t] \in Registrations
      BY <1>0 DEF TypeOK, AppState
    <3>2. 0 \in 0 .. MaxPos /\ Used(work.regs[t]) \in SUBSET Positions
      BY CycleAssumption DEF Used
    <3> QED
      BY <1>3, <3>1, <3>2 DEF OpenIterator, Iterator
  <2>3. TypeOK'
    BY <1>0, <1>3, <2>1, <2>2 DEF OpenIterator, TypeOK, CallbackTypes
  <2>4. InSync'
    BY <1>0, <1>3 DEF OpenIterator, InSync
  <2>5. VotesFirst'
    BY <1>0, <1>3 DEF OpenIterator, VotesFirst, ReadsOwnVotes
  <2>6. NoneSkipped'
    <3>1. iter'.cursor = 0 /\ iter'.kept \subseteq Positions
      BY <1>3 DEF OpenIterator, Used
    <3>2. \A p \in iter'.kept : ~(p <= iter'.cursor)
      BY <3>1 DEF Positions
    <3> QED
      BY <1>3, <2>1, <3>2 DEF OpenIterator, NoneSkipped
  <2> QED
    BY <2>3, <2>4, <2>5, <2>6 DEF IInv
<1>4. ASSUME NEW p \in Positions, NEW ok \in BOOLEAN, Callback(p, ok)
      PROVE  IInv'
  <2>1. iter.open /\ ((pc = "begin" /\ turn = 2) \/ (pc = "end" /\ turn = 1))
    BY <1>0, <1>4 DEF Callback, NoneSkipped
  <2>2. work' \in AppState /\ work'.active = work.active
    BY <1>0, <1>4, EffectsType DEF Callback, TypeOK
  <2>3. /\ iter' \in Iterator
        /\ iter'.cursor = p
        /\ iter'.kept \subseteq iter.kept
        /\ iter'.called = iter.called \cup {p}
    <3> DEFINE still == {q \in iter.kept : work'.regs[pc][q] = iter.snapshot[q]}
    <3>1. iter' = [iter EXCEPT !.cursor = p, !.kept = still, !.called = @ \cup {p}]
      BY <1>4 DEF Callback, NextCursor
    <3>2. iter \in Iterator /\ still \subseteq iter.kept /\ p \in 0 .. MaxPos
      BY <1>0, CycleAssumption DEF TypeOK, Positions
    <3> HIDE DEF still
    <3> QED
      BY <3>1, <3>2, Zenon DEF Iterator
  <2>4. votes = block /\ block # None
    BY <1>0, <2>1 DEF VotesFirst
  <2>5. TypeOK'
    BY <1>0, <1>4, <2>1, <2>2, <2>3 DEF Callback, TypeOK, CallbackTypes
  <2>6. InSync'
    BY <1>0, <1>4, <2>1, <2>2 DEF Callback, InSync
  <2>7. VotesFirst'
    BY <1>0, <1>4, <2>4 DEF Callback, VotesFirst, ReadsOwnVotes
  <2>8. NoneSkipped'
    <3>1. ASSUME NEW q \in iter'.kept, q <= iter'.cursor
          PROVE  q \in iter'.called
      <4>1. q \in iter.kept /\ q \in Int /\ p \in Int /\ iter.cursor \in Int /\ q <= p
        BY <1>0, <2>3, <3>1 DEF TypeOK, Iterator, Positions
      <4>2. CASE q <= iter.cursor
        BY <1>0, <2>1, <2>3, <4>1, <4>2 DEF NoneSkipped
      <4>3. CASE q > iter.cursor
        <5>1. q \in Pending
          BY <4>1, <4>3 DEF Pending
        <5>2. p <= q
          BY <1>4, <5>1 DEF Callback, Visible
        <5> QED
          BY <2>3, <4>1, <5>2
      <4> QED
        BY <4>1, <4>2, <4>3
    <3> QED
      BY <1>4, <2>1, <3>1 DEF Callback, NoneSkipped
  <2> QED
    BY <2>5, <2>6, <2>7, <2>8 DEF IInv
<1>5. CASE CloseIterator
  <2>1. \/ pc = "begin" /\ turn = 2 /\ turn' = 3
        \/ pc = "end" /\ turn = 1 /\ turn' = 2
    BY <1>0, <1>5 DEF CloseIterator, NoneSkipped
  <2>2. TypeOK'
    BY <1>0, <1>5, <2>1, ClosedType DEF CloseIterator, TypeOK
  <2>3. InSync'
    BY <1>0, <1>5, <2>1 DEF CloseIterator, InSync
  <2>4. VotesFirst'
    BY <1>0, <1>5, <2>1 DEF CloseIterator, VotesFirst, ReadsOwnVotes
  <2>5. NoneSkipped'
    BY <1>5, ClosedType DEF CloseIterator, NoneSkipped
  <2> QED
    BY <2>2, <2>3, <2>4, <2>5 DEF IInv
<1>6. CASE BeginDone
  <2>1. ~iter.open
    BY <1>0, <1>6 DEF BeginDone, NoneSkipped
  <2>2. TypeOK'
    BY <1>0, <1>6, <2>1 DEF BeginDone, TypeOK
  <2>3. InSync'
    BY <1>0, <1>6 DEF BeginDone, InSync
  <2>4. VotesFirst'
    BY <1>0, <1>6 DEF BeginDone, VotesFirst, ReadsOwnVotes
  <2>5. NoneSkipped'
    BY <1>6, <2>1 DEF BeginDone, NoneSkipped
  <2> QED
    BY <2>2, <2>3, <2>4, <2>5 DEF IInv
<1>7. CASE DeliverTx
  <2>1. work' \in AppState /\ work'.active = work.active
    BY <1>0, <1>7, EffectsType DEF DeliverTx, TypeOK
  <2>2. TypeOK'
    BY <1>0, <1>7, <2>1 DEF DeliverTx, TypeOK
  <2>3. InSync'
    BY <1>0, <1>7, <2>1 DEF DeliverTx, InSync
  <2>4. VotesFirst'
    BY <1>0, <1>7 DEF DeliverTx, VotesFirst, ReadsOwnVotes
  <2>5. NoneSkipped'
    BY <1>0, <1>7 DEF DeliverTx, NoneSkipped
  <2> QED
    BY <2>2, <2>3, <2>4, <2>5 DEF IInv
<1>8. CASE EndBlock
  <2>1. ~iter.open
    BY <1>0, <1>8 DEF EndBlock, NoneSkipped
  <2>2. TypeOK'
    BY <1>0, <1>8, <2>1 DEF EndBlock, TypeOK
  <2>3. InSync'
    BY <1>0, <1>8 DEF EndBlock, InSync
  <2>4. VotesFirst'
    BY <1>0, <1>8 DEF EndBlock, VotesFirst, ReadsOwnVotes
  <2>5. NoneSkipped'
    BY <1>8, <2>1 DEF EndBlock, NoneSkipped
  <2> QED
    BY <2>2, <2>3, <2>4, <2>5 DEF IInv
<1>9. CASE ValsetOk
  <2>1. pc = "end" /\ turn = 2 /\ turn' = 3 /\ ~iter.open
    BY <1>0, <1>9, Turns DEF ValsetOk, TypeOK, NoneSkipped
  <2>2. work.active = tmVals /\ work.active \in ValidatorSets /\ work.members \in ValidatorSets
    BY <1>0, <2>1 DEF InSync, TypeOK, AppState
  <2>3. /\ work' \in AppState
        /\ work'.active = work.members
        /\ work'.members = work.members
        /\ diff' \in Diff
        /\ Updated(tmVals, diff') = work.members
    BY <1>0, <1>9, <2>2 DEF ValsetOk, TypeOK, AppState, Diff, Updated, ValidatorSets
  <2>4. TypeOK'
    BY <1>0, <1>9, <2>1, <2>3 DEF ValsetOk, TypeOK
  <2>5. InSync'
    BY <1>0, <1>9, <2>1, <2>3 DEF ValsetOk, InSync, Updated
  <2>6. VotesFirst'
    BY <1>0, <1>9, <2>1 DEF ValsetOk, VotesFirst, ReadsOwnVotes
  <2>7. NoneSkipped'
    BY <1>9, <2>1 DEF ValsetOk, NoneSkipped
  <2> QED
    BY <2>4, <2>5, <2>6, <2>7 DEF IInv
<1>10. CASE ValsetNone
  <2>1. pc = "end" /\ turn = 2 /\ turn' = 3 /\ ~iter.open
    BY <1>0, <1>10, Turns DEF ValsetNone, TypeOK, NoneSkipped
  <2>2. work' = work /\ diff' = NoDiff
    BY <1>10 DEF ValsetNone, AfterFailure
  <2>3. TypeOK'
    BY <1>0, <1>10, <2>1, <2>2, NoDiffType DEF ValsetNone, TypeOK
  <2>4. InSync'
    BY <1>0, <1>10, <2>1, <2>2 DEF ValsetNone, InSync, Updated, NoDiff
  <2>5. VotesFirst'
    BY <1>0, <1>10, <2>1 DEF ValsetNone, VotesFirst, ReadsOwnVotes
  <2>6. NoneSkipped'
    BY <1>10, <2>1 DEF ValsetNone, NoneSkipped
  <2> QED
    BY <2>3, <2>4, <2>5, <2>6 DEF IInv
<1>11. CASE EndDone
  <2>1. ~iter.open
    BY <1>0, <1>11 DEF EndDone, NoneSkipped
  <2>2. TypeOK'
    BY <1>0, <1>11, <2>1 DEF EndDone, TypeOK
  <2>3. InSync'
    BY <1>0, <1>11 DEF EndDone, InSync, Updated
  <2>4. VotesFirst'
    BY <1>0, <1>11 DEF EndDone, VotesFirst, ReadsOwnVotes
  <2>5. NoneSkipped'
    BY <1>11, <2>1 DEF EndDone, NoneSkipped
  <2> QED
    BY <2>2, <2>3, <2>4, <2>5 DEF IInv
<1>12. CASE Commit
  <2>1. ~iter.open
    BY <1>0, <1>12 DEF Commit, NoneSkipped
  <2>2. TypeOK'
    BY <1>0, <1>12, <2>1 DEF Commit, TypeOK
  <2>3. InSync'
    BY <1>0, <1>12 DEF Commit, InSync, Updated
  <2>4. VotesFirst'
    BY <1>0, <1>12 DEF Commit, VotesFirst, ReadsOwnVotes
  <2>5. NoneSkipped'
    BY <1>12, <2>1 DEF Commit, NoneSkipped
  <2> QED
    BY <2>2, <2>3, <2>4, <2>5 DEF IInv
<1>13. CASE SaveState
  <2>1. ~iter.open
    BY <1>0, <1>13 DEF SaveState, NoneSkipped
  <2>2. appDone /\ tmVals' = app.active /\ app.active \in ValidatorSets
    BY <1>0, <1>13 DEF SaveState, InSync, Updated, TypeOK, AppState
  <2>3. TypeOK'
    BY <1>0, <1>13, <2>1, <2>2, Zenon DEF SaveState, TypeOK
  <2>4. InSync'
    BY <1>0, <1>13, <2>2 DEF SaveState, InSync
  <2>5. VotesFirst'
    BY <1>0, <1>13 DEF SaveState, VotesFirst, ReadsOwnVotes
  <2>6. NoneSkipped'
    BY <1>13, <2>1 DEF SaveState, NoneSkipped
  <2> QED
    BY <2>3, <2>4, <2>5, <2>6 DEF IInv
<1>14. CASE Crash
  <2>1. TypeOK'
    BY <1>0, <1>14, ClosedType, CycleAssumption DEF Crash, TypeOK
  <2>2. InSync'
    BY <1>0, <1>14 DEF Crash, InSync, Updated
  <2>3. VotesFirst'
    BY <1>0, <1>14 DEF Crash, VotesFirst, ReadsOwnVotes
  <2>4. NoneSkipped'
    BY <1>14, ClosedType DEF Crash, NoneSkipped
  <2> QED
    BY <2>1, <2>2, <2>3, <2>4 DEF IInv
<1>15. CASE Restart
  <2>1. ~iter.open
    BY <1>0, <1>15 DEF Restart, NoneSkipped
  <2>2. TypeOK'
    BY <1>0, <1>15, <2>1 DEF Restart, TypeOK
  <2>3. InSync'
    BY <1>0, <1>15 DEF Restart, InSync, Updated
  <2>4. VotesFirst'
    BY <1>0, <1>15 DEF Restart, VotesFirst, ReadsOwnVotes
  <2>5. NoneSkipped'
    BY <1>15, <2>1 DEF Restart, NoneSkipped
  <2> QED
    BY <2>2, <2>3, <2>4, <2>5 DEF IInv
<1>16. CASE UNCHANGED vars
  <2>1. TypeOK' /\ InSync'
    BY <1>0, <1>16, SMTT(30) DEF vars, TypeOK, InSync, Updated
  <2>2. VotesFirst' /\ NoneSkipped'
    BY <1>0, <1>16 DEF vars, VotesFirst, ReadsOwnVotes, NoneSkipped
  <2> QED
    BY <2>1, <2>2 DEF IInv
<1>17. CASE Iterate
  BY <1>3, <1>4, <1>5, <1>17 DEF Iterate
<1> QED
  BY <1>1, <1>2, <1>6, <1>7, <1>8, <1>9, <1>10, <1>11, <1>12, <1>13, <1>14, <1>15,
     <1>16, <1>17 DEF Next

-----------------------------------------------------------------------------
(* The inductive invariant of the block cycle.                             *)
THEOREM Invariance == Spec => []IInv
BY InvInit, InvStep, PTL DEF Spec

(* The phases follow each other in order, and an iterator is open only     *)
(* while its module is in turn.                                            *)
THEOREM TypeCorrect == Spec => []TypeOK
<1>1. IInv => TypeOK
  BY DEF IInv
<1> QED
  BY <1>1, Invariance, PTL

(* Between blocks Tendermint's validators are the ones the valset contract *)
(* believes to be active, however the node crashes and replays.            *)
THEOREM ValsetStaysInSync == Spec => []ValsetInSync
<1>1. IInv => ValsetInSync
  BY DEF IInv, InSync, ValsetInSync
<1> QED
  BY <1>1, Invariance, PTL

(* The validator update covers every change made in the block.             *)
THEOREM UpdateCoversBlock == Spec => []UpdateIsFinal
<1>1. IInv => UpdateIsFinal
  BY DEF IInv, InSync, UpdateIsFinal
<1> QED
  BY <1>1, Invariance, PTL

(* Contracts read the votes of the block they run in, also in a replay.    *)
THEOREM VotesAreOfTheBlock == Spec => []ReadsOwnVotes
<1>1. IInv => ReadsOwnVotes
  BY DEF IInv, VotesFirst
<1> QED
  BY <1>1, Invariance, PTL

(* A contract that stays registered is called, whichever other callbacks   *)
(* fail, panic or change the registrations.                                *)
THEOREM NobodyIsSkipped == Spec => []AllAreCalled
<1>1. ASSUME IInv, iter.open, Pending = {}, NEW p \in iter.kept
      PROVE  p \in iter.called
  <2>1. p \in Int /\ iter.cursor \in Int
    BY <1>1 DEF IInv, TypeOK, Iterator, Positions
  <2>2. p <= iter.cursor
    BY <1>1, <2>1 DEF Pending
  <2> QED
    BY <1>1, <2>2 DEF IInv, NoneSkipped
<1>2. IInv => AllAreCalled
  BY <1>1 DEF AllAreCalled
<1> QED
  BY <1>2, Invariance, PTL
=============================================================================
