-------------------------- MODULE Execution_proofs --------------------------
(***************************************************************************)
(* Execution: what is on disk and in the application at every step of      *)
(* executeBlock and after every crash, for all bounds, adapters and        *)
(* failing calls.                                                          *)
(***************************************************************************)
EXTENDS Execution, Ascending_proofs

(***************************************************************************)
(* The inductive invariant, in six parts.                                  *)
(***************************************************************************)
\* From its saving on, the block in hand is recorded.
AfterRecord == {"recorded", "blockOpen", "blockSaved", "checkpointed", "checkpointOpen",
                "checkpointSaved", "stateOpen", "stateSaved"}
AfterBlock == AfterRecord \ {"recorded", "blockOpen"}

HandRecorded == pc \in AfterRecord => current \in recorded

\* It is on disk before its checkpoint and the state are saved.
HandSaved == pc \in AfterBlock => Whole(disk, BlockFile(current)) \/ current \in unsaved

\* What was recorded is on disk, or its saving failed or is under way.
RecordedOnDisk ==
  \A h \in recorded :
    \/ Whole(disk, BlockFile(h))
    \/ h \in unsaved
    \/ pc \in {"recorded", "blockOpen"} /\ current = h

\* What the state file says, whether or not the validator runs.
StateFilePast ==
  Whole(disk, StateFile) =>
    /\ disk[StateFile].last \in recorded
    /\ adapter = "remote" => disk[StateFile].appHash \subseteq appCommitted
    /\ status = "up" => view >= disk[StateFile].view

\* The working state of the application against the committed one, and the
\* answer of FinalizeBlock against both.
AppInHand ==
  /\ appCommitted \subseteq appState
  /\ pc \in {"finalized", "appCommitted"} =>
       Writes(current, TxsPerBlock) \subseteq appState /\ result \subseteq appState
  /\ pc = "appCommitted" =>
       Writes(current, TxsPerBlock) \subseteq appCommitted /\ result \subseteq appCommitted

\* A block whose last transaction is written was handed to the application: it is
\* recorded, given up, or in hand.
LastWritten ==
  /\ lateBlocks \subseteq cut
  /\ TxsPerBlock > 0 => \A h \in Heights : <<h, TxsPerBlock>> \in appState =>
       h \in recorded \cup cut \/ (pc \in {"finalized", "appCommitted"} /\ current = h)

\* What was recorded is applied.
RecordedApplied ==
  /\ recovered <= Len(committedBlocks)
  /\ ExecutedHere \subseteq Applied
  /\ adapter = "remote" => recorded \subseteq Applied /\ lastAppHash \subseteq appCommitted

OnDisk ==
  /\ HandRecorded /\ HandSaved /\ RecordedOnDisk /\ StateFilePast
  /\ NothingPointsAhead /\ NoBlockForgotten

InApp == AppInHand /\ LastWritten /\ RecordedApplied

IInv == TypeOK /\ OnDisk /\ InApp

-----------------------------------------------------------------------------
(***************************************************************************)
(* Files: the largest height, and the blocks in ascending order.           *)
(***************************************************************************)
\* GetLatestBlockHeight is a height above which there is no file.
LEMMA LatestFact ==
  ASSUME NEW d
  PROVE  /\ LatestBlockHeight(d) \in 0 .. MaxHeight
         /\ \A k \in Heights : Exists(d, BlockFile(k)) => k <= LatestBlockHeight(d)
<1>1. PICK T : T = {h \in 0 .. MaxHeight : h # 0 => Exists(d, BlockFile(h))}
  OBVIOUS
<1>2. 0 \in T /\ T \subseteq 0 .. MaxHeight
  BY <1>1, MaxHeightAssumption
<1>3. PICK x \in T : \A y \in T : y <= x
  BY <1>2, MaxHeightAssumption, LargestExists
<1>4. \A k \in Heights : Exists(d, BlockFile(k)) => k \in T
  BY <1>1, MaxHeightAssumption DEF Heights
<1>5. \E h \in 0 .. MaxHeight :
        /\ h # 0 => Exists(d, BlockFile(h))
        /\ \A k \in Heights : Exists(d, BlockFile(k)) => k <= h
  BY <1>1, <1>3, <1>4
<1> QED BY <1>5 DEF LatestBlockHeight

\* LoadedBlocks lists heights, and among them every block that is whole on disk.
LEMMA LoadedFact ==
  /\ LoadedBlocks \in Seq(Heights)
  /\ \A h \in Heights : Whole(disk, BlockFile(h)) =>
       \E i \in 1 .. Len(LoadedBlocks) : LoadedBlocks[i] = h
<1> DEFINE to == LatestBlockHeight(disk)
           S == {h \in 1 .. to : Whole(disk, BlockFile(h))}
<1>1. to \in 0 .. MaxHeight /\ \A k \in Heights : Exists(disk, BlockFile(k)) => k <= to
  BY LatestFact
<1>2. S \subseteq Heights
  BY <1>1, MaxHeightAssumption DEF Heights
<1>3. LoadedBlocks = Ascending(S)
  BY DEF LoadedBlocks, LoadBlocks
<1>4. \A h \in Heights : Whole(disk, BlockFile(h)) => h \in S
  <2>1. ASSUME NEW h \in Heights, Whole(disk, BlockFile(h)) PROVE h \in 1 .. to
    <3>1. h <= to
      BY <1>1, <2>1 DEF Whole, Exists
    <3>2. h \in 1 .. MaxHeight /\ to \in 0 .. MaxHeight
      BY <1>1 DEF Heights
    <3> HIDE DEF to
    <3> QED BY <3>1, <3>2, MaxHeightAssumption
  <2> QED BY <2>1
<1> HIDE DEF S, to
<1>5. S \subseteq Nat /\ IsFiniteSet(S)
  <2>1. IsFiniteSet(1 .. MaxHeight)
    BY MaxHeightAssumption, FS_Interval
  <2>2. S \in SUBSET (1 .. MaxHeight)
    BY <1>2 DEF Heights
  <2>3. IsFiniteSet(S)
    BY <2>1, <2>2, FS_Subset
  <2> QED BY <2>2, <2>3
<1>6. /\ LoadedBlocks \in Seq(S)
      /\ \A h \in S : \E i \in 1 .. Len(LoadedBlocks) : LoadedBlocks[i] = h
  BY <1>3, <1>5, AscendingFact
<1>7. Seq(S) \subseteq Seq(Heights)
  BY <1>2
<1> QED BY <1>4, <1>6, <1>7

-----------------------------------------------------------------------------
(***************************************************************************)
(* Writing one file, and steps that leave the disk or the application be.  *)
(***************************************************************************)
DiskOK(d) ==
  /\ d = [f \in Files |-> d[f]]
  /\ d[StateFile] \in SavedStates \cup {NoFile, Torn}
  /\ \A h \in Heights : /\ d[BlockFile(h)] \in {NoFile, Torn, h}
                        /\ d[CheckpointFile(h)] \in {NoFile, Torn, h}

\* TypeOK without the disk.
TypeRest ==
  /\ adapter \in Adapters
  /\ status \in {"up", "down"}
  /\ view \in 0 .. MaxView
  /\ decided \subseteq Heights
  /\ lowWaterMark \in 0 .. MaxHeight
  /\ checkpoints \subseteq Heights
  /\ committedBlocks \in Seq(Heights)
  /\ {lastAppHash, appState, appCommitted, result} \subseteq SUBSET (Heights \X (1 .. TxsPerBlock))
  /\ lateBlocks \subseteq Heights
  /\ lateCommit \in BOOLEAN
  /\ pc \in Steps
  /\ current \in 0 .. MaxHeight
  /\ pc # "idle" => current \in Heights /\ status = "up"
  /\ crashes \in 0 .. MaxCrashes
  /\ {recorded, unsaved, cut} \subseteq SUBSET Heights
  /\ recovered \in Nat

LEMMA FileNames ==
  /\ \A h, k : BlockFile(h) = BlockFile(k) => h = k
  /\ \A h, k : CheckpointFile(h) = CheckpointFile(k) => h = k
  /\ \A h, k : BlockFile(h) # CheckpointFile(k)
  /\ \A h : BlockFile(h) # StateFile /\ CheckpointFile(h) # StateFile
  /\ \A h \in Heights : BlockFile(h) \in Files /\ CheckpointFile(h) \in Files
  /\ StateFile \in Files
BY DEF BlockFile, CheckpointFile, StateFile, Files

\* The content of file f becomes x, all others stay.
OnlyFile(d, e, f, x) ==
  /\ e = [g \in Files |-> e[g]]
  /\ e[f] = x
  /\ \A g \in Files : g # f => e[g] = d[g]

LEMMA WriteOne ==
  ASSUME NEW d, d = [f \in Files |-> d[f]], NEW f \in Files, NEW x
  PROVE  OnlyFile(d, [d EXCEPT ![f] = x], f, x)
<1> DEFINE e == [d EXCEPT ![f] = x]
<1>1. e = [g \in Files |-> IF g = f THEN x ELSE d[g]]
  OBVIOUS
<1> HIDE DEF e
<1>2. e = [g \in Files |-> e[g]]
  BY <1>1
<1>3. e[f] = x /\ \A g \in Files : g # f => e[g] = d[g]
  BY <1>1
<1> QED BY <1>2, <1>3 DEF OnlyFile, e

LEMMA WriteBlock ==
  ASSUME DiskOK(disk), NEW k \in Heights, NEW x \in {Torn, k},
         disk' = [disk EXCEPT ![BlockFile(k)] = x]
  PROVE  /\ DiskOK(disk')
         /\ disk'[BlockFile(k)] = x
         /\ \A h \in Heights : h # k => disk'[BlockFile(h)] = disk[BlockFile(h)]
         /\ \A h \in Heights : disk'[CheckpointFile(h)] = disk[CheckpointFile(h)]
         /\ disk'[StateFile] = disk[StateFile]
<1>1. OnlyFile(disk, disk', BlockFile(k), x)
  BY WriteOne, FileNames DEF DiskOK
<1>2. \A h \in Heights : h # k => disk'[BlockFile(h)] = disk[BlockFile(h)]
  BY <1>1, FileNames DEF OnlyFile
<1>3. \A h \in Heights : disk'[CheckpointFile(h)] = disk[CheckpointFile(h)]
  BY <1>1, FileNames DEF OnlyFile
<1>4. disk'[StateFile] = disk[StateFile]
  BY <1>1, FileNames DEF OnlyFile
<1>5. disk'[BlockFile(k)] = x /\ disk' = [f \in Files |-> disk'[f]]
  BY <1>1 DEF OnlyFile
<1> QED BY <1>2, <1>3, <1>4, <1>5 DEF DiskOK

LEMMA WriteCheckpoint ==
  ASSUME DiskOK(disk), NEW k \in Heights, NEW x \in {Torn, k},
         disk' = [disk EXCEPT ![CheckpointFile(k)] = x]
  PROVE  /\ DiskOK(disk')
         /\ disk'[CheckpointFile(k)] = x
         /\ \A h \in Heights : h # k => disk'[CheckpointFile(h)] = disk[CheckpointFile(h)]
         /\ \A h \in Heights : disk'[BlockFile(h)] = disk[BlockFile(h)]
         /\ disk'[StateFile] = disk[StateFile]
<1>1. OnlyFile(disk, disk', CheckpointFile(k), x)
  BY WriteOne, FileNames DEF DiskOK
<1>2. \A h \in Heights : h # k => disk'[CheckpointFile(h)] = disk[CheckpointFile(h)]
  BY <1>1, FileNames DEF OnlyFile
<1>3. \A h \in Heights : disk'[BlockFile(h)] = disk[BlockFile(h)]
  BY <1>1, FileNames DEF OnlyFile
<1>4. disk'[StateFile] = disk[StateFile]
  BY <1>1, FileNames DEF OnlyFile
<1>5. disk'[CheckpointFile(k)] = x /\ disk' = [f \in Files |-> disk'[f]]
  BY <1>1 DEF OnlyFile
<1> QED BY <1>2, <1>3, <1>4, <1>5 DEF DiskOK

LEMMA WriteState ==
  ASSUME DiskOK(disk), NEW x \in SavedStates \cup {Torn},
         disk' = [disk EXCEPT ![StateFile] = x]
  PROVE  /\ DiskOK(disk')
         /\ disk'[StateFile] = x
         /\ \A h \in Heights : disk'[BlockFile(h)] = disk[BlockFile(h)]
         /\ \A h \in Heights : disk'[CheckpointFile(h)] = disk[CheckpointFile(h)]
<1>1. OnlyFile(disk, disk', StateFile, x)
  BY WriteOne, FileNames DEF DiskOK
<1>2. \A h \in Heights : disk'[BlockFile(h)] = disk[BlockFile(h)]
  BY <1>1, FileNames DEF OnlyFile
<1>3. \A h \in Heights : disk'[CheckpointFile(h)] = disk[CheckpointFile(h)]
  BY <1>1, FileNames DEF OnlyFile
<1>4. disk'[StateFile] = x /\ disk' = [f \in Files |-> disk'[f]]
  BY <1>1 DEF OnlyFile
<1> QED BY <1>2, <1>3, <1>4 DEF DiskOK

\* A step of the engine or the application that writes no file and records
\* nothing leaves what is said of the disk true.
DiskFrame ==
  /\ UNCHANGED <<disk, status, adapter, committedBlocks, recorded, unsaved>>
  /\ view' >= view
  /\ appCommitted \subseteq appCommitted'
  /\ pc' \in AfterRecord => pc \in AfterRecord /\ current' = current
  /\ pc' \in AfterBlock => pc \in AfterBlock
  /\ pc \in {"recorded", "blockOpen"} => pc' = pc

LEMMA DiskStays ==
  ASSUME TypeOK, TypeOK', OnDisk, DiskFrame
  PROVE  OnDisk'
<1>1. HandRecorded' /\ HandSaved'
  BY DEF OnDisk, DiskFrame, HandRecorded, HandSaved, AfterBlock, Whole, BlockFile
<1>2. RecordedOnDisk'
  BY DEF OnDisk, DiskFrame, RecordedOnDisk, AfterRecord, Whole, BlockFile
<1>3. StateFilePast'
  <2>1. ASSUME Whole(disk, StateFile) PROVE disk[StateFile].view \in Nat
    <3>1. disk[StateFile] \in SavedStates
      BY <2>1 DEF TypeOK, Whole
    <3> QED BY <3>1 DEF SavedStates
  <2>2. view \in Nat /\ view' \in Nat
    BY DEF TypeOK
  <2> QED BY <2>1, <2>2 DEF OnDisk, DiskFrame, StateFilePast, Whole
<1>4. NothingPointsAhead'
  BY DEF OnDisk, DiskFrame, NothingPointsAhead, AfterRecord, Whole, BlockFile, CheckpointFile
<1>5. NoBlockForgotten'
  BY DEF OnDisk, DiskFrame, NoBlockForgotten, InBlockList
<1> QED BY <1>1, <1>2, <1>3, <1>4, <1>5 DEF OnDisk

\* A step outside FinalizeBlock, Commit and the append leaves what is said of
\* the application true.
AppFrame ==
  /\ UNCHANGED <<app, lastAppHash, committedBlocks,
                 recovered, recorded, cut>>
  /\ {pc, pc'} \cap {"finalized", "appCommitted"} = {}

LEMMA AppStays ==
  ASSUME InApp, AppFrame
  PROVE  InApp'
<1>1. AppInHand'
  BY DEF InApp, AppFrame, app, AppInHand
<1>2. LastWritten'
  BY DEF InApp, AppFrame, app, late, LastWritten
<1>3. RecordedApplied'
  BY DEF InApp, AppFrame, app, RecordedApplied, ExecutedHere, Applied, Writes
<1> QED BY <1>1, <1>2, <1>3 DEF InApp

-----------------------------------------------------------------------------
(***************************************************************************)
(* Init and the steps, one lemma each.                                     *)
(***************************************************************************)
LEMMA TypeParts ==
  /\ TypeOK <=> TypeRest /\ DiskOK(disk)
  /\ TypeOK' <=> TypeRest' /\ DiskOK(disk')
BY DEF TypeOK, TypeRest, DiskOK

LEMMA InitHolds == Init => IInv
<1> SUFFICES ASSUME Init PROVE IInv
  OBVIOUS
<1>1. DiskOK(disk)
  <2>1. disk = [f \in Files |-> NoFile]
    BY DEF Init, EmptyDisk
  <2>2. disk = [f \in Files |-> disk[f]] /\ \A f \in Files : disk[f] = NoFile
    BY <2>1
  <2> QED BY <2>2, FileNames DEF DiskOK
<1>2. \A f \in Files : ~Whole(disk, f)
  BY DEF Init, EmptyDisk, Whole
<1>3. TypeRest
  <2>1. {lastAppHash, appState, appCommitted, result} \subseteq SUBSET (Heights \X (1 .. TxsPerBlock))
    BY DEF Init
  <2>2. lateBlocks \subseteq Heights /\ lateCommit \in BOOLEAN /\ pc \in Steps
    BY DEF Init, Steps
  <2> QED BY <2>1, <2>2, MaxHeightAssumption, ConfigAssumption DEF Init, TypeRest
<1>4. OnDisk
  BY <1>2, FileNames DEF Init, OnDisk, HandRecorded, HandSaved, RecordedOnDisk, StateFilePast,
     NothingPointsAhead, NoBlockForgotten, AfterRecord, AfterBlock
<1>5. InApp
  <2>1. Len(committedBlocks) = 0 /\ recovered = 0
    BY DEF Init
  <2>2. ExecutedHere = {}
    BY <2>1 DEF ExecutedHere
  <2> QED BY <2>1, <2>2 DEF Init, InApp, AppInHand, LastWritten, RecordedApplied
<1> QED BY <1>1, <1>3, <1>4, <1>5, TypeParts DEF IInv

\* The writes of some transactions of a block.
LEMMA WritesFact ==
  ASSUME NEW h \in Heights, NEW k \in 0 .. TxsPerBlock
  PROVE  /\ Writes(h, k) \subseteq Heights \X (1 .. TxsPerBlock)
         /\ \A g \in Heights : <<g, TxsPerBlock>> \in Writes(h, k) => g = h /\ k = TxsPerBlock
BY ConfigAssumption DEF Writes

LEMMA Finalized ==
  ASSUME IInv, NEW h \in Heights, FinalizeBlock(h)
  PROVE  IInv'
<1>1. PICK k \in 0 .. TxsPerBlock : /\ appState' \in {appState, appState \cup Writes(h, k)}
                                    /\ h \in cut' \/ k < TxsPerBlock \/ (pc' = "finalized" /\ current' = h)
  <2>1. TxsPerBlock \in Nat
    BY ConfigAssumption
  <2>2. CASE appState' = appState \cup Writes(h, TxsPerBlock) /\ pc' = "finalized" /\ current' = h
    <3>1. TxsPerBlock \in 0 .. TxsPerBlock
      BY <2>1
    <3> QED BY <2>2, <3>1
  <2>3. CASE \E k \in 0 .. TxsPerBlock - 1 : appState' = appState \cup Writes(h, k)
    <3>1. \A k \in 0 .. TxsPerBlock - 1 : k \in 0 .. TxsPerBlock /\ k < TxsPerBlock
      BY <2>1
    <3> QED BY <2>3, <3>1
  <2>4. CASE appState' = appState /\ cut' = cut \cup {h}
    BY <2>1, <2>4
  <2> QED BY <2>2, <2>3, <2>4 DEF FinalizeBlock
<1>2. TypeOK'
  <2>1. TypeRest
    BY TypeParts DEF IInv
  <2>2. appState' \subseteq Heights \X (1 .. TxsPerBlock)
    BY <1>1, <2>1, WritesFact DEF TypeRest
  <2>3. /\ pc' \in Steps /\ current' \in 0 .. MaxHeight
        /\ pc' # "idle" => current' \in Heights /\ status' = "up"
    BY <2>1, MaxHeightAssumption DEF FinalizeBlock, TypeRest, Steps, Heights
  <2>4. /\ result' \in {result, appState'} /\ cut' \subseteq Heights
        /\ lateBlocks' \subseteq Heights /\ lateCommit' = lateCommit
    BY <2>1 DEF FinalizeBlock, TypeRest, late
  <2>5. TypeRest'
    BY <2>1, <2>2, <2>3, <2>4 DEF FinalizeBlock, TypeRest
  <2> QED BY <2>5, TypeParts DEF IInv, FinalizeBlock
<1>3. OnDisk'
  <2>1. DiskFrame
    <3>1. view' = view /\ view \in Int
      BY ConfigAssumption DEF FinalizeBlock, IInv, TypeOK
    <3> QED BY <3>1 DEF FinalizeBlock, DiskFrame, AfterRecord, AfterBlock
  <2> QED BY <1>2, <2>1, DiskStays DEF IInv
<1>4. InApp'
  <2>1. AppInHand'
    BY DEF FinalizeBlock, IInv, InApp, AppInHand
  <2>2. LastWritten'
    <3>1. lateBlocks' \subseteq cut' /\ cut \subseteq cut' /\ recorded' = recorded
      BY DEF FinalizeBlock, late, IInv, InApp, LastWritten
    <3>2. ASSUME TxsPerBlock > 0, NEW g \in Heights, <<g, TxsPerBlock>> \in appState'
          PROVE  \/ g \in recorded' \cup cut'
                 \/ pc' \in {"finalized", "appCommitted"} /\ current' = g
      <4>1. CASE <<g, TxsPerBlock>> \in appState
        BY <3>1, <3>2, <4>1 DEF FinalizeBlock, IInv, InApp, LastWritten
      <4>2. CASE <<g, TxsPerBlock>> \in Writes(h, k)
        <5>1. g = h /\ ~(k < TxsPerBlock)
          BY <4>2, WritesFact, ConfigAssumption
        <5> QED BY <1>1, <5>1
      <4> QED BY <1>1, <3>2, <4>1, <4>2
    <3> QED BY <3>1, <3>2 DEF LastWritten
  <2>3. RecordedApplied'
    BY DEF FinalizeBlock, IInv, InApp, RecordedApplied, ExecutedHere, Applied, Writes
  <2> QED BY <2>1, <2>2, <2>3 DEF InApp
<1> QED BY <1>2, <1>3, <1>4 DEF IInv

LEMMA AppCommitted ==
  ASSUME IInv, CommitApp
  PROVE  IInv'
<1>1. TypeOK'
  <2>1. TypeRest /\ DiskOK(disk) /\ current \in Heights /\ status = "up"
    BY TypeParts DEF IInv, TypeRest, CommitApp
  <2>2. /\ pc' \in Steps /\ cut' \subseteq Heights /\ appCommitted' \in {appState, appCommitted}
        /\ lateCommit' \in BOOLEAN
    BY <2>1 DEF CommitApp, TypeRest, Steps
  <2>3. TypeRest'
    BY <2>1, <2>2 DEF CommitApp, engine, TypeRest
  <2> QED BY <2>1, <2>3, TypeParts DEF CommitApp
<1>2. OnDisk'
  <2>1. DiskFrame
    <3>1. view' = view /\ view \in Int
      BY ConfigAssumption DEF CommitApp, engine, IInv, TypeOK
    <3> QED BY <3>1 DEF CommitApp, engine, DiskFrame, AfterRecord, AfterBlock, IInv, InApp, AppInHand
  <2> QED BY <1>1, <2>1, DiskStays DEF IInv
<1>3. InApp'
  <2>1. AppInHand'
    BY DEF CommitApp, IInv, InApp, AppInHand, Writes
  <2>2. LastWritten'
    BY DEF CommitApp, IInv, InApp, LastWritten
  <2>3. RecordedApplied'
    BY DEF CommitApp, engine, IInv, InApp, AppInHand, RecordedApplied, ExecutedHere, Applied, Writes
  <2> QED BY <2>1, <2>2, <2>3 DEF InApp
<1> QED BY <1>1, <1>2, <1>3 DEF IInv

LEMMA CarriedOutLate ==
  ASSUME IInv, LateCall
  PROVE  IInv'
<1>1. TypeRest /\ DiskOK(disk)
  BY TypeParts DEF IInv
<1>2. lateBlocks \subseteq Heights /\ lateBlocks \subseteq cut /\ appCommitted \subseteq appState
  BY <1>1 DEF TypeRest, IInv, InApp, LastWritten, AppInHand
<1>3. /\ appState \subseteq appState' /\ appState' \subseteq Heights \X (1 .. TxsPerBlock)
      /\ appCommitted \subseteq appCommitted' /\ appCommitted' \subseteq appState'
      /\ \A g \in Heights : <<g, TxsPerBlock>> \in appState' =>
           <<g, TxsPerBlock>> \in appState \/ g \in cut
  <2>1. appState \subseteq Heights \X (1 .. TxsPerBlock)
    BY <1>1 DEF TypeRest
  <2>2. ASSUME NEW h \in lateBlocks, NEW k \in 1 .. TxsPerBlock,
               appState' = appState \cup Writes(h, k), appCommitted' = appCommitted
        PROVE  /\ appState \subseteq appState' /\ appState' \subseteq Heights \X (1 .. TxsPerBlock)
               /\ appCommitted \subseteq appCommitted' /\ appCommitted' \subseteq appState'
               /\ \A g \in Heights : <<g, TxsPerBlock>> \in appState' =>
                    <<g, TxsPerBlock>> \in appState \/ g \in cut
    <3>1. k \in 0 .. TxsPerBlock
      BY ConfigAssumption
    <3> QED BY <1>2, <2>1, <2>2, <3>1, WritesFact
  <2>3. CASE appState' = appState /\ appCommitted' = appState
    BY <1>2, <2>1, <2>3
  <2> QED BY <2>2, <2>3 DEF LateCall
<1>4. TypeOK'
  <2>1. TypeRest'
    BY <1>1, <1>3 DEF LateCall, engine, late, history, TypeRest
  <2> QED BY <1>1, <2>1, TypeParts DEF LateCall
<1>5. OnDisk'
  <2>1. DiskFrame
    <3>1. view' = view /\ view \in Int
      BY <1>1, ConfigAssumption DEF LateCall, engine, TypeRest
    <3> QED BY <1>3, <3>1 DEF LateCall, engine, history, DiskFrame
  <2> QED BY <1>4, <2>1, DiskStays DEF IInv
<1>6. InApp'
  <2>1. AppInHand'
    BY <1>3 DEF LateCall, IInv, InApp, AppInHand
  <2>2. LastWritten'
    BY <1>3 DEF LateCall, late, history, IInv, InApp, LastWritten
  <2>3. RecordedApplied'
    BY <1>3 DEF LateCall, engine, history, IInv, InApp, RecordedApplied, ExecutedHere, Applied
  <2> QED BY <2>1, <2>2, <2>3 DEF InApp
<1> QED BY <1>4, <1>5, <1>6 DEF IInv

LEMMA Recorded ==
  ASSUME IInv, RecordBlock
  PROVE  IInv'
<1> DEFINE list == committedBlocks
<1>1. /\ TypeRest /\ DiskOK(disk) /\ current \in Heights
      /\ list \in Seq(Heights) /\ Len(list) \in Nat /\ recovered \in Nat
  BY TypeParts DEF IInv, TypeRest, RecordBlock, Record
<1>2. /\ list' \in Seq(Heights) /\ Len(list') = Len(list) + 1
      /\ \A i \in 1 .. Len(list) : list'[i] = list[i]
      /\ list'[Len(list) + 1] = current
  BY <1>1 DEF RecordBlock, Record
<1>3. TypeOK'
  <2>1. TypeRest'
    BY <1>1, <1>2 DEF RecordBlock, Record, TypeRest, Steps, app, late
  <2> QED BY <1>1, <2>1, TypeParts DEF RecordBlock, Record
<1>4. OnDisk'
  <2>1. HandRecorded' /\ HandSaved'
    BY DEF RecordBlock, Record, HandRecorded, HandSaved, AfterBlock
  <2>2. RecordedOnDisk'
    BY DEF RecordBlock, Record, IInv, OnDisk, RecordedOnDisk
  <2>3. StateFilePast'
    BY DEF RecordBlock, Record, app, IInv, OnDisk, StateFilePast
  <2>4. NothingPointsAhead'
    BY DEF RecordBlock, Record, IInv, OnDisk, NothingPointsAhead
  <2>5. NoBlockForgotten'
    <3>1. InBlockList \subseteq InBlockList' /\ current \in InBlockList'
      BY <1>1, <1>2 DEF InBlockList
    <3> QED BY <3>1 DEF RecordBlock, Record, IInv, OnDisk, NoBlockForgotten
  <2> QED BY <2>1, <2>2, <2>3, <2>4, <2>5 DEF OnDisk
<1>5. InApp'
  <2>1. AppInHand'
    BY DEF RecordBlock, Record, app, IInv, InApp, AppInHand
  <2>2. LastWritten'
    BY DEF RecordBlock, Record, app, late, IInv, InApp, LastWritten
  <2>3. RecordedApplied'
    <3>1. Applied' = Applied /\ current \in Applied
      BY <1>1 DEF RecordBlock, Record, app, IInv, InApp, AppInHand, Applied, Writes
    <3>2. recovered <= Len(list) /\ ExecutedHere \subseteq Applied
      BY DEF IInv, InApp, RecordedApplied
    <3>3. ExecutedHere' \subseteq ExecutedHere \cup {current}
      <4>1. recovered' = recovered
        BY DEF RecordBlock, Record
      <4>2. ASSUME NEW i \in recovered + 1 .. Len(list) + 1
            PROVE  list'[i] \in ExecutedHere \cup {current}
        <5>1. CASE i = Len(list) + 1
          BY <5>1, <1>2
        <5>2. CASE i # Len(list) + 1
          <6>1. i \in recovered + 1 .. Len(list) /\ i \in 1 .. Len(list)
            BY <5>2, <1>1
          <6> QED BY <6>1, <1>2 DEF ExecutedHere
        <5> QED BY <5>1, <5>2
      <4> QED BY <4>1, <4>2, <1>2 DEF ExecutedHere
    <3> QED BY <1>1, <1>2, <3>1, <3>2, <3>3
         DEF RecordBlock, Record, app, IInv, InApp, AppInHand, RecordedApplied
  <2> QED BY <2>1, <2>2, <2>3 DEF InApp
<1> QED BY <1>3, <1>4, <1>5 DEF IInv

LEMMA BlockSaved ==
  ASSUME IInv, SaveBlock
  PROVE  IInv'
<1>1. TypeRest /\ DiskOK(disk) /\ current \in Heights /\ OnDisk /\ current \in recorded
  BY TypeParts DEF IInv, TypeRest, SaveBlock, Truncates, Fills, GivesUp, OnDisk, HandRecorded,
     AfterRecord
<1>2. TypeRest' /\ InApp'
  <2>1. TypeRest'
    BY <1>1 DEF SaveBlock, Truncates, Fills, GivesUp, TypeRest, Steps, engine, app, late, history
  <2>2. AppFrame
    BY DEF SaveBlock, Truncates, Fills, GivesUp, AppFrame, engine, app, history
  <2> QED BY <2>1, <2>2, AppStays DEF IInv
<1>3. CASE Truncates("recorded", "blockOpen", BlockFile(current))
  <2>1. /\ DiskOK(disk')
        /\ \A h \in Heights : h # current => disk'[BlockFile(h)] = disk[BlockFile(h)]
        /\ \A h \in Heights : disk'[CheckpointFile(h)] = disk[CheckpointFile(h)]
        /\ disk'[StateFile] = disk[StateFile]
    <3>1. disk' = [disk EXCEPT ![BlockFile(current)] = Torn]
      BY <1>3 DEF Truncates, Truncate
    <3> QED BY <1>1, <3>1, WriteBlock
  <2>2. TypeOK'
    BY <1>2, <2>1, TypeParts
  <2>3. OnDisk'
    BY <1>1, <2>1, <1>3 DEF Truncates, engine, app, history, OnDisk, HandRecorded, HandSaved,
       RecordedOnDisk, StateFilePast, NothingPointsAhead, NoBlockForgotten, InBlockList,
       AfterRecord, AfterBlock, TypeRest, Whole
  <2> QED BY <1>2, <2>2, <2>3 DEF IInv
<1>4. CASE Fills("blockOpen", "blockSaved", BlockFile(current), current)
  <2>1. /\ DiskOK(disk') /\ disk'[BlockFile(current)] = current
        /\ \A h \in Heights : h # current => disk'[BlockFile(h)] = disk[BlockFile(h)]
        /\ \A h \in Heights : disk'[CheckpointFile(h)] = disk[CheckpointFile(h)]
        /\ disk'[StateFile] = disk[StateFile]
    <3>1. disk' = [disk EXCEPT ![BlockFile(current)] = current]
      BY <1>4 DEF Fills, WriteFile
    <3> QED BY <1>1, <3>1, WriteBlock
  <2>2. current # NoFile /\ current # Torn
    BY <1>1, FileAssumption, MaxHeightAssumption DEF Heights
  <2>3. TypeOK'
    BY <1>2, <2>1, TypeParts
  <2>4. OnDisk'
    BY <1>1, <2>1, <2>2, <1>4 DEF Fills, engine, app, history, OnDisk, HandRecorded, HandSaved,
       RecordedOnDisk, StateFilePast, NothingPointsAhead, NoBlockForgotten, InBlockList,
       AfterRecord, AfterBlock, TypeRest, Whole
  <2> QED BY <1>2, <2>3, <2>4 DEF IInv
<1>5. CASE GivesUp("recorded", "blockOpen", "blockSaved") /\ unsaved' = unsaved \cup {current}
  <2>1. TypeOK'
    BY <1>1, <1>2, <1>5, TypeParts DEF GivesUp
  <2>2. OnDisk'
    BY <1>1, <1>5 DEF GivesUp, engine, app, OnDisk, HandRecorded, HandSaved,
       RecordedOnDisk, StateFilePast, NothingPointsAhead, NoBlockForgotten, InBlockList,
       AfterRecord, AfterBlock, TypeRest, Whole
  <2> QED BY <1>2, <2>1, <2>2 DEF IInv
<1> QED BY <1>3, <1>4, <1>5 DEF SaveBlock

LEMMA CheckpointCreated ==
  ASSUME IInv, CreateCheckpoint
  PROVE  IInv'
<1>1. TypeRest /\ DiskOK(disk) /\ current \in Heights
  BY TypeParts DEF IInv, TypeRest, CreateCheckpoint
<1>2. TypeOK'
  <2>1. checkpoints' \subseteq Heights
    BY <1>1 DEF CreateCheckpoint, KeepNewest, TypeRest
  <2>2. TypeRest'
    BY <1>1, <2>1 DEF CreateCheckpoint, TypeRest, Steps, app, late, history
  <2> QED BY <1>1, <2>2, TypeParts DEF CreateCheckpoint
<1>3. OnDisk'
  <2>1. DiskFrame
    <3>1. view' = view /\ view \in Int
      BY <1>1, ConfigAssumption DEF CreateCheckpoint, TypeRest
    <3> QED BY <3>1 DEF CreateCheckpoint, app, history, DiskFrame, AfterRecord, AfterBlock
  <2> QED BY <1>2, <2>1, DiskStays DEF IInv
<1>4. InApp'
  <2>1. AppFrame
    BY DEF CreateCheckpoint, AppFrame, app, history
  <2> QED BY <2>1, AppStays DEF IInv
<1> QED BY <1>2, <1>3, <1>4 DEF IInv

LEMMA CheckpointSaved ==
  ASSUME IInv, SaveCheckpoint
  PROVE  IInv'
<1>1. TypeRest /\ DiskOK(disk) /\ current \in Heights /\ OnDisk
  BY TypeParts DEF IInv, TypeRest, SaveCheckpoint, Truncates, Fills, GivesUp
<1>2. TypeRest' /\ InApp'
  <2>1. TypeRest'
    BY <1>1 DEF SaveCheckpoint, Truncates, Fills, GivesUp, TypeRest, Steps, engine, app, late, history
  <2>2. AppFrame
    BY DEF SaveCheckpoint, Truncates, Fills, GivesUp, AppFrame, engine, app, history
  <2> QED BY <2>1, <2>2, AppStays DEF IInv
<1>3. ASSUME NEW x \in {Torn, current}, disk' = [disk EXCEPT ![CheckpointFile(current)] = x],
             pc \in {"checkpointed", "checkpointOpen"},
             pc' \in {"checkpointOpen", "checkpointSaved"},
             UNCHANGED <<status, engine, current, app, crashes, history>>
      PROVE  IInv'
  <2>1. /\ DiskOK(disk')
        /\ \A h \in Heights : h # current => disk'[CheckpointFile(h)] = disk[CheckpointFile(h)]
        /\ \A h \in Heights : disk'[BlockFile(h)] = disk[BlockFile(h)]
        /\ disk'[StateFile] = disk[StateFile]
    BY <1>1, <1>3, WriteCheckpoint
  <2>2. TypeOK'
    BY <1>2, <2>1, TypeParts
  <2>3. Whole(disk, BlockFile(current)) \/ current \in unsaved
    BY <1>1, <1>3 DEF OnDisk, HandSaved, AfterBlock, AfterRecord
  <2>4. OnDisk'
    BY <1>1, <1>3, <2>1, <2>3 DEF engine, app, history, OnDisk, HandRecorded, HandSaved,
       RecordedOnDisk, StateFilePast, NothingPointsAhead, NoBlockForgotten, InBlockList,
       AfterRecord, AfterBlock, TypeRest, Whole
  <2> QED BY <1>2, <2>2, <2>4 DEF IInv
<1>4. CASE GivesUp("checkpointed", "checkpointOpen", "checkpointSaved") /\ UNCHANGED unsaved
  <2>1. TypeOK'
    BY <1>1, <1>2, <1>4, TypeParts DEF GivesUp
  <2>2. DiskFrame
    <3>1. view' = view /\ view \in Int
      BY <1>1, <1>4, ConfigAssumption DEF GivesUp, engine, TypeRest
    <3> QED BY <1>4, <3>1 DEF GivesUp, engine, app, DiskFrame, AfterRecord, AfterBlock
  <2> QED BY <1>1, <1>2, <2>1, <2>2, DiskStays DEF IInv
<1> QED BY <1>3, <1>4 DEF SaveCheckpoint, Truncates, Truncate, Fills, WriteFile

LEMMA StateSaved ==
  ASSUME IInv, SaveState
  PROVE  IInv'
<1>1. TypeRest /\ DiskOK(disk) /\ current \in Heights /\ OnDisk
  BY TypeParts DEF IInv, TypeRest, SaveState, Truncates, Fills, GivesUp
<1>2. TypeRest' /\ InApp'
  <2>1. TypeRest'
    BY <1>1 DEF SaveState, Truncates, Fills, GivesUp, TypeRest, Steps, engine, app, late, history
  <2>2. AppFrame
    BY DEF SaveState, Truncates, Fills, GivesUp, AppFrame, engine, app, history
  <2> QED BY <2>1, <2>2, AppStays DEF IInv
<1>3. StateToSave \in SavedStates
  <2>1. Len(committedBlocks) \in Nat
    BY <1>1 DEF TypeRest
  <2> QED BY <1>1, <2>1 DEF StateToSave, SavedStates, TypeRest
<1>4. ASSUME NEW x \in {Torn, StateToSave}, disk' = [disk EXCEPT ![StateFile] = x],
             pc \in {"checkpointSaved", "stateOpen"},
             pc' \in {"stateOpen", "stateSaved"},
             UNCHANGED <<status, engine, current, app, crashes, history>>
      PROVE  IInv'
  <2>1. /\ DiskOK(disk') /\ disk'[StateFile] = x
        /\ \A h \in Heights : disk'[CheckpointFile(h)] = disk[CheckpointFile(h)]
        /\ \A h \in Heights : disk'[BlockFile(h)] = disk[BlockFile(h)]
    BY <1>1, <1>3, <1>4, WriteState
  <2>2. TypeOK'
    BY <1>2, <2>1, TypeParts
  <2>3. /\ Whole(disk, BlockFile(current)) \/ current \in unsaved
        /\ current \in recorded
    BY <1>1, <1>4 DEF OnDisk, HandSaved, HandRecorded, AfterBlock, AfterRecord
  <2>4. Whole(disk', StateFile) => disk'[StateFile] = StateToSave
    BY <1>4, <2>1 DEF Whole
  <2>5. /\ StateToSave.last = current /\ StateToSave.view = view
        /\ StateToSave.appHash = lastAppHash
    BY DEF StateToSave
  <2>6. StateFilePast'
    <3>1. adapter = "remote" => lastAppHash \subseteq appCommitted
      BY DEF IInv, InApp, RecordedApplied
    <3>2. view >= view
      BY <1>1, ConfigAssumption DEF TypeRest
    <3>3. UNCHANGED <<status, adapter, appCommitted, recorded, view>>
      BY <1>4 DEF engine, app, history
    <3> HIDE DEF StateToSave
    <3> QED BY <2>3, <2>4, <2>5, <3>1, <3>2, <3>3 DEF StateFilePast
  <2>7. NothingPointsAhead'
    <3>1. ASSUME NEW h \in Heights,
                 \/ Whole(disk', CheckpointFile(h))
                 \/ Whole(disk', StateFile) /\ disk'[StateFile].last = h
          PROVE  Whole(disk', BlockFile(h)) \/ h \in unsaved'
      <4>1. h = current \/ Whole(disk, CheckpointFile(h))
        BY <2>1, <2>4, <2>5, <3>1 DEF Whole
      <4>2. Whole(disk, BlockFile(h)) \/ h \in unsaved
        BY <1>1, <1>4, <2>3, <4>1 DEF OnDisk, NothingPointsAhead
      <4> QED BY <1>4, <2>1, <4>2 DEF Whole, history
    <3> QED BY <3>1 DEF NothingPointsAhead
  <2>8. HandRecorded' /\ HandSaved' /\ RecordedOnDisk' /\ NoBlockForgotten'
    BY <1>1, <1>4, <2>1, <2>3 DEF engine, app, history, OnDisk, HandRecorded, HandSaved,
       RecordedOnDisk, NoBlockForgotten, InBlockList, AfterRecord, AfterBlock, TypeRest, Whole
  <2> QED BY <1>2, <2>2, <2>6, <2>7, <2>8 DEF IInv, OnDisk
<1>5. CASE GivesUp("checkpointSaved", "stateOpen", "stateSaved") /\ UNCHANGED unsaved
  <2>1. TypeOK'
    BY <1>1, <1>2, <1>5, TypeParts DEF GivesUp
  <2>2. DiskFrame
    <3>1. view' = view /\ view \in Int
      BY <1>1, <1>5, ConfigAssumption DEF GivesUp, engine, TypeRest
    <3> QED BY <1>5, <3>1 DEF GivesUp, engine, app, DiskFrame, AfterRecord, AfterBlock
  <2> QED BY <1>1, <1>2, <2>1, <2>2, DiskStays DEF IInv
<1> QED BY <1>4, <1>5 DEF SaveState, Truncates, Truncate, Fills, WriteFile

LEMMA WatermarksAdvanced ==
  ASSUME IInv, AdvanceWatermarks
  PROVE  IInv'
<1>1. TypeRest /\ DiskOK(disk) /\ current \in Heights
  BY TypeParts DEF IInv, TypeRest, AdvanceWatermarks
<1>2. TypeOK'
  <2>1. TypeRest'
    BY <1>1 DEF AdvanceWatermarks, TypeRest, Steps, app, late, history
  <2> QED BY <1>1, <2>1, TypeParts DEF AdvanceWatermarks
<1>3. DiskFrame
  <2>1. view' = view /\ view \in Int
    BY <1>1, ConfigAssumption DEF AdvanceWatermarks, TypeRest
  <2> QED BY <2>1 DEF AdvanceWatermarks, app, history, DiskFrame, AfterRecord, AfterBlock
<1>4. AppFrame
  BY DEF AdvanceWatermarks, AppFrame, app, history
<1> QED BY <1>2, <1>3, <1>4, DiskStays, AppStays DEF IInv

LEMMA ViewEntered ==
  ASSUME IInv, EnterView
  PROVE  IInv'
<1>1. TypeRest /\ DiskOK(disk)
  BY TypeParts DEF IInv
<1>2. TypeOK'
  <2>1. decided' \subseteq Heights /\ view' \in 0 .. MaxView
    BY <1>1, ConfigAssumption DEF EnterView, TypeRest
  <2>2. TypeRest'
    BY <1>1, <2>1 DEF EnterView, TypeRest, app, late, history
  <2> QED BY <1>1, <2>2, TypeParts DEF EnterView
<1>3. DiskFrame
  <2>1. view' >= view
    BY <1>1, ConfigAssumption DEF EnterView, TypeRest
  <2> QED BY <2>1 DEF EnterView, app, history, DiskFrame, AfterRecord, AfterBlock
<1>4. AppFrame
  BY DEF EnterView, AppFrame, app, history
<1> QED BY <1>2, <1>3, <1>4, DiskStays, AppStays DEF IInv

LEMMA Crashed ==
  ASSUME IInv, Crash
  PROVE  IInv'
<1>1. TypeRest /\ DiskOK(disk)
  BY TypeParts DEF IInv
<1>2. /\ \/ adapter = "local" /\ appState' = {} /\ appCommitted' = {}
         \/ adapter # "local" /\ UNCHANGED <<appState, appCommitted>>
      /\ adapter' = adapter /\ result' = {} /\ lateBlocks' = lateBlocks
      /\ lateCommit' \in BOOLEAN
  BY <1>1 DEF Crash, TypeRest
<1>3. /\ unsaved \subseteq unsaved' /\ cut \subseteq cut'
      /\ pc \in {"recorded", "blockOpen"} => current \in unsaved'
      /\ pc \in {"finalized", "appCommitted"} => current \in cut'
      /\ unsaved' \subseteq Heights /\ cut' \subseteq Heights
  BY <1>1 DEF Crash, TypeRest
<1>4. committedBlocks' = <<>> /\ recovered' = 0 /\ pc' = "idle" /\ status' = "down"
  BY DEF Crash
<1>5. TypeOK'
  <2>1. view' = 0 /\ 0 \in 0 .. MaxView /\ lowWaterMark' = 0 /\ 0 \in 0 .. MaxHeight
    BY ConfigAssumption, MaxHeightAssumption DEF Crash
  <2>2. crashes' \in 0 .. MaxCrashes
    BY <1>1, ConfigAssumption DEF Crash, TypeRest
  <2>3. TypeRest'
    BY <1>1, <1>2, <1>3, <2>1, <2>2 DEF Crash, TypeRest, Steps
  <2> QED BY <1>1, <2>3, TypeParts DEF Crash
<1>6. OnDisk'
  <2>1. RecordedOnDisk'
    BY <1>3 DEF Crash, IInv, OnDisk, RecordedOnDisk
  <2>2. StateFilePast'
    BY <1>2, <1>4 DEF Crash, IInv, OnDisk, StateFilePast
  <2>3. NothingPointsAhead'
    BY <1>3 DEF Crash, IInv, OnDisk, NothingPointsAhead
  <2>4. HandRecorded' /\ HandSaved' /\ NoBlockForgotten'
    BY <1>4 DEF HandRecorded, HandSaved, NoBlockForgotten, AfterRecord, AfterBlock
  <2> QED BY <2>1, <2>2, <2>3, <2>4 DEF OnDisk
<1>7. InApp'
  <2>1. AppInHand'
    BY <1>2, <1>4 DEF IInv, InApp, AppInHand
  <2>2. LastWritten'
    BY <1>2, <1>3 DEF Crash, IInv, InApp, LastWritten
  <2>3. RecordedApplied'
    <3>1. Len(committedBlocks') = 0
      BY <1>4
    <3>2. ExecutedHere' = {}
      BY <1>4, <3>1 DEF ExecutedHere
    <3> QED BY <1>2, <1>4, <3>1, <3>2
         DEF Crash, IInv, InApp, RecordedApplied, Applied, Writes
  <2> QED BY <2>1, <2>2, <2>3 DEF InApp
<1> QED BY <1>5, <1>6, <1>7 DEF IInv

LEMMA Recovers ==
  ASSUME IInv, Recover
  PROVE  IInv'
<1>1. TypeRest /\ DiskOK(disk) /\ pc = "idle"
  BY TypeParts DEF IInv, TypeRest, Recover
<1>2. Whole(disk, StateFile) => disk[StateFile] \in SavedStates
  BY <1>1 DEF DiskOK, Whole
<1>3. /\ LoadedView \in 0 .. MaxView
      /\ LoadedAppHash \subseteq Heights \X (1 .. TxsPerBlock)
  BY <1>2, ConfigAssumption DEF LoadedView, LoadedAppHash, SavedStates
<1>4. /\ LoadedBlocks \in Seq(Heights) /\ Len(LoadedBlocks) \in Nat
      /\ \A h \in Heights : Whole(disk, BlockFile(h)) =>
           \E i \in 1 .. Len(LoadedBlocks) : LoadedBlocks[i] = h
  BY LoadedFact
<1>5. committedBlocks' = LoadedBlocks /\ recovered' = Len(committedBlocks')
  BY DEF Recover
<1>6. TypeOK'
  <2>1. checkpoints' \subseteq Heights
    BY DEF Recover, LoadCheckpoints
  <2>2. TypeRest'
    BY <1>1, <1>3, <1>4, <2>1 DEF Recover, TypeRest, app, late
  <2> QED BY <1>1, <2>2, TypeParts DEF Recover
<1>7. OnDisk'
  <2>1. NoBlockForgotten'
    <3>1. \A h \in recorded : h \in Heights /\ (Whole(disk, BlockFile(h)) \/ h \in unsaved)
      BY <1>1 DEF IInv, OnDisk, RecordedOnDisk, TypeRest
    <3>2. \A h \in recorded : h \in InBlockList' \/ h \in unsaved
      BY <1>4, <1>5, <3>1 DEF InBlockList
    <3> QED BY <3>2 DEF Recover, NoBlockForgotten
  <2>2. StateFilePast'
    <3>1. Whole(disk, StateFile) => view' >= disk[StateFile].view
      BY <1>2, ConfigAssumption DEF Recover, LoadedView, SavedStates
    <3> QED BY <3>1 DEF Recover, app, IInv, OnDisk, StateFilePast
  <2>3. HandRecorded' /\ HandSaved' /\ RecordedOnDisk' /\ NothingPointsAhead'
    BY <1>1 DEF Recover, IInv, OnDisk, HandRecorded, HandSaved, RecordedOnDisk,
       NothingPointsAhead, AfterRecord, AfterBlock
  <2> QED BY <2>1, <2>2, <2>3 DEF OnDisk
<1>8. InApp'
  <2>1. AppInHand' /\ LastWritten'
    BY DEF Recover, app, late, IInv, InApp, AppInHand, LastWritten
  <2>2. ExecutedHere' = {}
    BY <1>4, <1>5 DEF ExecutedHere
  <2>3. adapter = "remote" => LoadedAppHash \subseteq appCommitted
    BY DEF IInv, OnDisk, StateFilePast, LoadedAppHash
  <2>4. RecordedApplied'
    BY <1>4, <1>5, <2>2, <2>3 DEF Recover, app, IInv, InApp, RecordedApplied, Applied, Writes
  <2> QED BY <2>1, <2>4 DEF InApp
<1> QED BY <1>6, <1>7, <1>8 DEF IInv

\* A step that changes nothing.
LEMMA Stutters ==
  ASSUME IInv, UNCHANGED vars
  PROVE  IInv'
<1>1. TypeOK'
  BY TypeParts DEF IInv, TypeRest, vars, engine, app, late, history
<1>2. OnDisk'
  BY DEF IInv, OnDisk, vars, engine, app, history, HandRecorded, HandSaved, RecordedOnDisk,
     StateFilePast, NothingPointsAhead, NoBlockForgotten, InBlockList
<1>3. InApp'
  BY DEF IInv, InApp, vars, engine, app, late, history, AppInHand, LastWritten, RecordedApplied,
     ExecutedHere, Applied, Writes
<1> QED BY <1>1, <1>2, <1>3 DEF IInv

-----------------------------------------------------------------------------
(***************************************************************************)
(* The theorems.                                                           *)
(***************************************************************************)
\* The invariant holds throughout, whatever fails and however often the process
\* stops (executeBlock, createCheckpoint, Recover).
THEOREM RecoveryInvariant == Spec => []IInv
<1>1. Init => IInv
  BY InitHolds
<1>2. IInv /\ [Next]_vars => IInv'
  <2> SUFFICES ASSUME IInv, [Next]_vars PROVE IInv'
    OBVIOUS
  <2>1. ASSUME NEW h \in Heights, FinalizeBlock(h) PROVE IInv'
    BY <2>1, Finalized
  <2>2. CASE CommitApp
    BY <2>2, AppCommitted
  <2>3. CASE LateCall
    BY <2>3, CarriedOutLate
  <2>4. CASE RecordBlock
    BY <2>4, Recorded
  <2>5. CASE SaveBlock
    BY <2>5, BlockSaved
  <2>6. CASE CreateCheckpoint
    BY <2>6, CheckpointCreated
  <2>7. CASE SaveCheckpoint
    BY <2>7, CheckpointSaved
  <2>8. CASE SaveState
    BY <2>8, StateSaved
  <2>9. CASE AdvanceWatermarks
    BY <2>9, WatermarksAdvanced
  <2>10. CASE EnterView
    BY <2>10, ViewEntered
  <2>11. CASE Crash
    BY <2>11, Crashed
  <2>12. CASE Recover
    BY <2>12, Recovers
  <2>13. CASE UNCHANGED vars
    BY <2>13, Stutters
  <2> QED BY <2>1, <2>2, <2>3, <2>4, <2>5, <2>6, <2>7, <2>8, <2>9, <2>10, <2>11, <2>12, <2>13 DEF Next
<1> QED BY <1>1, <1>2, PTL DEF Spec

\* The state of a validator and of its disk stays well formed.
THEOREM RecoveryTypeCorrect == Spec => []TypeOK
<1>1. IInv => TypeOK
  BY DEF IInv
<1> QED BY <1>1, RecoveryInvariant, PTL

\* Checkpoint and state files never point at a block that is not on disk, but for
\* blocks whose saving failed or was cut short (the order of executeBlock's saves).
THEOREM DiskPointsBack == Spec => []NothingPointsAhead
<1>1. IInv => NothingPointsAhead
  BY DEF IInv, OnDisk
<1> QED BY <1>1, RecoveryInvariant, PTL

\* Recover brings back every recorded block whose save did not fail (LoadBlocks).
THEOREM RecoveryComplete == Spec => []NoBlockForgotten
<1>1. IInv => NoBlockForgotten
  BY DEF IInv, OnDisk
<1> QED BY <1>1, RecoveryInvariant, PTL

\* Engine and application agree on what is committed, whichever of the two stops
\* (FinalizeBlock and Commit of the adapters).
THEOREM ApplicationAgrees == Spec => []AppAgrees
<1>1. IInv => AppAgrees
  <2> SUFFICES ASSUME IInv PROVE AppAgrees
    OBVIOUS
  <2>1. ASSUME TxsPerBlock > 0, NEW h \in Applied
        PROVE  \/ h \in recorded \cup cut
               \/ pc \in {"finalized", "appCommitted"} /\ current = h
    <3>1. h \in Heights /\ <<h, TxsPerBlock>> \in appCommitted
      BY <2>1, ConfigAssumption DEF Applied, Writes
    <3> QED BY <2>1, <3>1 DEF IInv, InApp, AppInHand, LastWritten
  <2> QED BY <2>1 DEF IInv, InApp, RecordedApplied, AppAgrees
<1> QED BY <1>1, RecoveryInvariant, PTL

\* What the state file says has happened (SaveState, LoadState).
THEOREM SavedStateHappened == Spec => []SavedStateIsPast
<1>1. IInv => SavedStateIsPast
  BY DEF IInv, OnDisk, StateFilePast, NoBlockForgotten, SavedStateIsPast
<1> QED BY <1>1, RecoveryInvariant, PTL
=============================================================================
