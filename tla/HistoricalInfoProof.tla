------------------------- MODULE HistoricalInfoProof -------------------------
(***************************************************************************)
(* Proofs about HistoricalInfo, for every set of parameter values and      *)
(* every number of blocks.                                                 *)
(***************************************************************************)
EXTENDS HistoricalInfo, TLAPS

(* Once a header is stored, the latest one is: the range that pruning      *)
(* walks down starts inside the stored range.                              *)
LatestStored == entries # {} => height \in entries

HInv == TypeOK /\ KeepsOnlyWindow /\ ContinuousRange /\ LatestStored

LEMMA TypeInit == Init => TypeOK
BY MaxHeightAssumption DEF Init, TypeOK

LEMMA TypeStep == TypeOK /\ [Next]_vars => TypeOK'
<1> SUFFICES ASSUME TypeOK, [Next]_vars PROVE TypeOK'
  OBVIOUS
<1> USE MaxHeightAssumption, EntryNumsAssumption
<1>1. CASE BeginBlock
  <2>1. height' = height + 1 /\ height' \in 0 .. MaxHeight
    BY <1>1 DEF TypeOK, BeginBlock
  <2>2. entries' \subseteq entries \cup {height + 1}
    BY <1>1 DEF BeginBlock, TrackHistoricalInfo
  <2>3. entries' \subseteq 1 .. height'
    BY <2>1, <2>2 DEF TypeOK
  <2> QED
    BY <1>1, <2>1, <2>3 DEF TypeOK, BeginBlock
<1>2. ASSUME NEW n \in EntryNums, SetParams(n) PROVE TypeOK'
  BY <1>2 DEF TypeOK, SetParams
<1>3. CASE ExportImport
  BY <1>3 DEF TypeOK, ExportImport
<1>4. CASE UNCHANGED vars
  BY <1>4 DEF TypeOK, vars
<1> QED
  BY <1>1, <1>2, <1>3, <1>4 DEF Next

(* The heart of TrackHistoricalInfo: what is left after pruning a          *)
(* continuous range that ends at the previous height lies in the window.   *)
LEMMA BeginBlockStep ==
    ASSUME HInv, BeginBlock, 0 \notin EntryNums
    PROVE  KeepsOnlyWindow' /\ ContinuousRange' /\ LatestStored'
<1> DEFINE h == height + 1
           n == entryNum
<1>1. height \in Nat /\ n \in Nat \ {0} /\ entries \in SUBSET (1 .. height)
  BY EntryNumsAssumption DEF HInv, TypeOK
<1>2. height' = h /\ applied' = n
  BY DEF BeginBlock
<1>3. entries' = (entries \ Pruned(h, n)) \cup {h}
  BY <1>1 DEF BeginBlock, TrackHistoricalInfo
<1> HIDE DEF h, n
<1>4. \A i \in entries : \A k \in i .. height : k \in entries
  BY DEF HInv, ContinuousRange, LatestStored
<1>5. ASSUME NEW i \in entries, i <= h - n
      PROVE  i \in Pruned(h, n)
  <2>1. i \in Int /\ h - n <= height
    BY <1>1 DEF h
  <2>2. \A j \in i .. h - n : j \in entries
    BY <1>1, <1>4, <2>1 DEF h
  <2> QED
    BY <1>5, <2>2 DEF Pruned
<1>6. ASSUME NEW i \in entries' PROVE i > h - n /\ i \in 1 .. h
  BY <1>1, <1>3, <1>5 DEF h
<1>7. \A i \in Pruned(h, n) : i <= h - n
  BY DEF Pruned
<1>8. ASSUME NEW i \in entries', NEW j \in entries', NEW k \in i .. j
      PROVE  k \in entries'
  <2>1. k \in 1 .. h /\ k > h - n /\ i \in 1 .. h /\ j \in 1 .. h
    BY <1>1, <1>6 DEF h
  <2>2. CASE k = h
    BY <1>3, <2>2
  <2>3. CASE k # h
    <3>1. k \in i .. height /\ i # h
      BY <1>1, <2>1, <2>3 DEF h
    <3>2. k \in entries
      BY <1>3, <1>4, <3>1
    <3>3. k \notin Pruned(h, n)
      BY <1>1, <1>7, <2>1 DEF h
    <3> QED
      BY <1>3, <3>2, <3>3
  <2> QED
    BY <2>2, <2>3
<1> QED
  BY <1>2, <1>3, <1>6, <1>8 DEF KeepsOnlyWindow, ContinuousRange, LatestStored

LEMMA HInvStep ==
    ASSUME 0 \notin EntryNums
    PROVE  HInv /\ [Next]_vars => HInv'
<1> SUFFICES ASSUME HInv, [Next]_vars PROVE HInv'
  OBVIOUS
<1>1. TypeOK'
  BY TypeStep DEF HInv
<1>2. CASE BeginBlock
  BY <1>1, <1>2, BeginBlockStep DEF HInv
<1>3. ASSUME NEW n \in EntryNums, SetParams(n) PROVE HInv'
  BY <1>1, <1>3 DEF HInv, SetParams, KeepsOnlyWindow, ContinuousRange, LatestStored
<1>4. CASE ExportImport
  BY <1>1, <1>4 DEF HInv, ExportImport, KeepsOnlyWindow, ContinuousRange, LatestStored
<1>5. CASE UNCHANGED vars
  BY <1>1, <1>5 DEF HInv, vars, KeepsOnlyWindow, ContinuousRange, LatestStored
<1> QED
  BY <1>2, <1>3, <1>4, <1>5 DEF Next

(* The inductive invariant of TrackHistoricalInfo, for parameters above 0. *)
THEOREM HistoryInvariance ==
    ASSUME 0 \notin EntryNums
    PROVE  Spec => []HInv
<1>1. Init => HInv
  BY TypeInit DEF HInv, Init, KeepsOnlyWindow, ContinuousRange, LatestStored
<1> QED
  BY <1>1, HInvStep, PTL DEF Spec

(* While governance never sets the window to 0, TrackHistoricalInfo leaves *)
(* nothing older than the window in the store, whatever values the         *)
(* parameter takes from block to block.                                    *)
THEOREM OnlyWindowIsKept ==
    ASSUME 0 \notin EntryNums
    PROVE  Spec => []KeepsOnlyWindow
<1>1. HInv => KeepsOnlyWindow
  BY DEF HInv
<1> QED
  BY <1>1, HistoryInvariance, PTL

(* The assumption in the comment of TrackHistoricalInfo, that the stored   *)
(* heights have no gap, holds while the window is never 0.                 *)
THEOREM StoredRangeIsContinuous ==
    ASSUME 0 \notin EntryNums
    PROVE  Spec => []ContinuousRange
<1>1. HInv => ContinuousRange
  BY DEF HInv
<1> QED
  BY <1>1, HistoryInvariance, PTL

(* A block never drops a header inside the window, for any values of the   *)
(* parameter, 0 included.                                                  *)
THEOREM WindowIsKept == Spec => KeepsWindow
<1>1. TypeOK /\ [Next]_vars =>
        [height' = height + 1
            => \A i \in entries : i > height' - entryNum => i \in entries']_vars
  <2> SUFFICES ASSUME TypeOK, [Next]_vars, height' = height + 1,
                      NEW i \in entries, i > height' - entryNum
               PROVE  i \in entries'
    OBVIOUS
  <2>1. height \in Nat /\ i \in Nat /\ entryNum \in Nat
    BY EntryNumsAssumption DEF TypeOK
  <2>2. BeginBlock
    BY <2>1 DEF Next, SetParams, ExportImport, vars
  <2>3. i \notin Pruned(height + 1, entryNum)
    BY <2>1, <2>2 DEF Pruned, BeginBlock
  <2> QED
    BY <2>2, <2>3 DEF BeginBlock, TrackHistoricalInfo
<1> QED
  BY <1>1, TypeInit, TypeStep, PTL DEF Spec, KeepsWindow
=============================================================================
