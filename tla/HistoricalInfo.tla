--------------------------- MODULE HistoricalInfo ---------------------------
(***************************************************************************)
(* The block headers that x/poe keeps for IBC.  Every BeginBlock prunes    *)
(* the headers that fell out of the window of HistoricalEntries blocks and *)
(* stores the header of the new block.  The window is a parameter that     *)
(* governance changes while the chain runs.  A header is represented by    *)
(* its height: the validator set stored with it is always empty.           *)
(***************************************************************************)
EXTENDS Integers

CONSTANTS
    EntryNums,  \* values governance gives to the parameter HistoricalEntries
    MaxHeight   \* bound: the number of blocks

ASSUME EntryNumsAssumption == EntryNums \subseteq Nat /\ EntryNums # {}
ASSUME MaxHeightAssumption == MaxHeight \in Nat

VARIABLES
    height,    \* height of the last block begun, 0 before the first
    entryNum,  \* the parameter HistoricalEntries
    applied,   \* its value at the last BeginBlock
    entries    \* heights with a stored historical info

vars == <<height, entryNum, applied, entries>>

(* Only heights of blocks of this chain are stored.                        *)
TypeOK ==
    /\ height \in 0 .. MaxHeight
    /\ entryNum \in EntryNums
    /\ applied \in EntryNums
    /\ entries \in SUBSET (1 .. height)

(* Mutant: the loop starts one height too early.                           *)
PrunedTooMany(h, n) ==
    {i \in entries : i <= h - n + 1 /\ \A j \in i .. h - n + 1 : j \in entries}

(* Mutant: only the most recent height out of the window is deleted.       *)
PrunedOne(h, n) == {i \in entries : i = h - n}

(* The loop goes down from the most recent height out of the window and    *)
(* stops at the first one without an entry.                                *)
Pruned(h, n) ==
    {i \in entries : i <= h - n /\ \A j \in i .. h - n : j \in entries}

TrackHistoricalInfo(h) ==
    entries' = (entries \ Pruned(h, entryNum)) \cup (IF entryNum = 0 THEN {} ELSE {h})

BeginBlock ==
    /\ height < MaxHeight
    /\ height' = height + 1
    /\ TrackHistoricalInfo(height + 1)
    /\ applied' = entryNum
    /\ UNCHANGED entryNum

(* A parameter change proposal.                                            *)
SetParams(n) ==
    /\ entryNum' = n
    /\ UNCHANGED <<height, applied, entries>>

(* The state is exported and a new chain starts from it.  Historical infos *)
(* are not part of the export.                                             *)
ExportImport ==
    /\ entries' = {}
    /\ height' \in {0, height}
    /\ applied' = entryNum
    /\ UNCHANGED entryNum

Init ==
    /\ height = 0
    /\ entryNum \in EntryNums
    /\ applied = entryNum
    /\ entries = {}

Next ==
    \/ BeginBlock
    \/ \E n \in EntryNums : SetParams(n)
    \/ ExportImport

Spec == Init /\ [][Next]_vars

-----------------------------------------------------------------------------
(* "Prune store to ensure we only have parameter-defined historical        *)
(* entries": after BeginBlock nothing older than the window is stored,     *)
(* however the parameter was lowered and raised before.                    *)
KeepsOnlyWindow == \A i \in entries : i > height - applied

(* "the entries to be deleted are always in a continuous range", on which  *)
(* stopping at the first missing entry relies.                             *)
ContinuousRange ==
    \A i, j \in entries : \A k \in i .. j : k \in entries

(* A header is never dropped while it is inside the current window: IBC    *)
(* can look up the last HistoricalEntries headers of this chain.           *)
KeepsWindow ==
    [][height' = height + 1
          => \A i \in entries : i > height' - entryNum => i \in entries']_vars
=============================================================================
