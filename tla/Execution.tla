----------------------------- MODULE Execution -----------------------------
(***************************************************************************)
(* One validator from a commit quorum to the disk, and back after a crash: *)
(* executeBlock, createCheckpoint, SaveState and Recover of the engine     *)
(* (consensus/pbft/engine_v2.go) on a FileStore, with the key-value        *)
(* application behind an ABCI adapter.                                     *)
(*                                                                         *)
(* run executes one block at a time, so pc and current follow the block in *)
(* hand through executeBlock; the process may stop between any two steps.  *)
(* Which block is decided for a height is PBFT's concern: here it is the   *)
(* height alone, and quorums complete in any order.                        *)
(***************************************************************************)
EXTENDS Store

CONSTANTS CheckpointInterval,  \* Config.CheckpointInterval
          WindowSize,          \* Config.WindowSize
          TxsPerBlock,         \* transactions in a block
          Adapters,            \* "local": the application stops with the engine, or "remote"
          AppFaults,           \* the ABCI calls that may return an error
          StoreFaults,         \* writing a file may fail
          MaxBlocks,           \* bound on the length of the block list
          MaxView,             \* bound on the views entered
          MaxCrashes           \* bound on the crashes

ASSUME ConfigAssumption ==
  /\ CheckpointInterval \in Nat \ {0}
  /\ {WindowSize, TxsPerBlock, MaxBlocks, MaxView, MaxCrashes} \subseteq Nat
  /\ StoreFaults \in BOOLEAN
  /\ Adapters \subseteq {"local", "remote"}
  /\ AppFaults \subseteq {"FinalizeBlock", "Commit"}

VARIABLES
  adapter,          \* the adapter of e.abciAdapter: LocalABCIAdapter or ABCIAdapter
  status,           \* "up", or "down" from a crash to a successful Recover
  view,             \* e.view
  decided,          \* heights whose state has reached the phase Committed
  lowWaterMark,     \* e.stateLog.LowWaterMark
  checkpoints,      \* the keys of e.checkpoints
  committedBlocks,  \* e.committedBlocks
  lastAppHash,      \* e.lastAppHash: the application state it is the hash of
  pc,               \* where executeBlock is, "idle" outside it
  current,          \* the height it executes, 0 at first
  appState,         \* Application.state: the writes it holds
  appCommitted,     \* Application.committedState
  result,           \* ABCIExecutionResult.AppHash: the state it is the hash of
  lateBlocks,       \* blocks with a FinalizeBlock call given up at a remote application
  lateCommit,       \* there is a Commit call given up at a remote application
  disk,             \* the FileStore
  crashes,          \* crashes so far
  recorded,         \* history: heights ever appended to committedBlocks
  recovered,        \* how many of them the last Recover loaded
  unsaved,          \* history: heights whose SaveBlock failed or was cut short
  cut               \* history: heights given up between FinalizeBlock's call and the append

engine == <<view, decided, lowWaterMark, checkpoints, committedBlocks, lastAppHash>>
late == <<lateBlocks, lateCommit>>
app == <<adapter, appState, appCommitted, result, late>>
history == <<recorded, recovered, unsaved, cut>>
vars == <<status, engine, pc, current, app, disk, crashes, history>>

\* The writes of the first k transactions of block h; a transaction writes a
\* key of its own.
Writes(h, k) == {h} \X (1 .. k)

\* ConsensusState, the content of the state file.
SavedStates == [view : 0 .. MaxView, height : Nat, last : Heights,
                appHash : SUBSET (Heights \X (1 .. TxsPerBlock))]

Init ==
  /\ adapter \in Adapters
  /\ status = "up" /\ pc = "idle" /\ current = 0
  /\ view = 0
  /\ decided = {} /\ lowWaterMark = 0 /\ checkpoints = {}
  /\ committedBlocks = <<>> /\ lastAppHash = {}
  /\ appState = {} /\ appCommitted = {} /\ result = {}
  /\ lateBlocks = {} /\ lateCommit = FALSE
  /\ disk = EmptyDisk
  /\ crashes = 0
  /\ recorded = {} /\ recovered = 0 /\ unsaved = {} /\ cut = {}

\* The heights executed since the process started, whose states are marked so.
ExecutedHere == {committedBlocks[i] : i \in recovered + 1 .. Len(committedBlocks)}

-----------------------------------------------------------------------------

(***************************************************************************)
(* A commit quorum for h completes (handleCommit) and executeBlock asks    *)
(* the application.  In the same process ExecuteBlock ends with a          *)
(* transaction that fails, the writes of those before it in place.  A      *)
(* remote call ends with its context or its connection whatever the        *)
(* application has done or is still to do with it.  executeBlock returns   *)
(* in both cases.  handlePrePrepare begins no state outside the window;    *)
(* reprocessPrePrepare, after a NEW-VIEW, does not ask.                    *)
(***************************************************************************)
FinalizeBlock(h) ==
  /\ status = "up" /\ pc = "idle"
  /\ h \notin decided
  /\ h \in lowWaterMark + 1 .. lowWaterMark + WindowSize \/ view > 0
  /\ Len(committedBlocks) < MaxBlocks
  /\ decided' = decided \cup {h}
  /\ \/ /\ appState' = appState \cup Writes(h, TxsPerBlock)
        /\ result' = appState'
        /\ pc' = "finalized" /\ current' = h
        /\ UNCHANGED <<late, cut>>
     \/ /\ "FinalizeBlock" \in AppFaults /\ adapter = "local"
        /\ \E k \in 0 .. TxsPerBlock - 1 : appState' = appState \cup Writes(h, k)
        /\ UNCHANGED <<pc, current, result, late, cut>>
     \/ /\ "FinalizeBlock" \in AppFaults /\ adapter = "remote"
        /\ lateBlocks' = lateBlocks \cup {h}
        /\ cut' = cut \cup {h}
        /\ UNCHANGED <<pc, current, appState, result, lateCommit>>
  /\ UNCHANGED <<status, view, lowWaterMark, checkpoints, committedBlocks,
                 lastAppHash, adapter, appCommitted, disk, crashes,
                 recorded, recovered, unsaved>>

\* The adapter's Commit: the application's state becomes the committed one.  In
\* the same process it returns no error.
CommitApp ==
  /\ pc = "finalized"
  /\ \/ /\ appCommitted' = appState
        /\ pc' = "appCommitted"
        /\ UNCHANGED <<lateCommit, cut>>
     \/ /\ "Commit" \in AppFaults /\ adapter = "remote"
        /\ pc' = "idle"
        /\ lateCommit' = TRUE
        /\ cut' = cut \cup {current}
        /\ UNCHANGED appCommitted
  /\ UNCHANGED <<status, engine, current, adapter, appState, result, lateBlocks,
                 disk, crashes, recorded, recovered, unsaved>>

(***************************************************************************)
(* The remote application carries out a call the engine has given up, at   *)
(* any time and all or part of it, or never does.  Several given up for    *)
(* the same block are not told apart, so none is ever crossed off.         *)
(***************************************************************************)
LateCall ==
  /\ \/ /\ \E h \in lateBlocks, k \in 1 .. TxsPerBlock :
             appState' = appState \cup Writes(h, k)
        /\ UNCHANGED appCommitted
     \/ /\ lateCommit
        /\ appCommitted' = appState
        /\ UNCHANGED appState
  /\ UNCHANGED <<status, engine, pc, current, adapter, result, late, disk, crashes, history>>

\* The app hash, MarkExecuted and the block list (and the pool's Update, which
\* is Mempool's): the step from "before" to "after".
Record(before, after) ==
  /\ pc \in before
  /\ pc' = after
  /\ lastAppHash' = result
  /\ committedBlocks' = Append(committedBlocks, current)
  /\ recorded' = recorded \cup {current}
  /\ UNCHANGED <<status, view, decided, lowWaterMark, checkpoints, current, app,
                 disk, crashes, recovered, unsaved, cut>>

\* Mutant: a block that a checkpoint follows is not saved by itself.
RecordBlockUnsaved ==
  Record({"appCommitted"},
         IF current % CheckpointInterval = 0 THEN "blockSaved" ELSE "recorded")

\* Mutant: the block is recorded without waiting for the application's Commit.
RecordBlockEarly == Record({"finalized", "appCommitted"}, "recorded")

RecordBlock == Record({"appCommitted"}, "recorded")

-----------------------------------------------------------------------------

(***************************************************************************)
(* A save of the engine: it truncates file f, fills it with the content    *)
(* and goes on at "after"; with an error it logs and goes on there too.    *)
(***************************************************************************)
Truncates(before, opened, f) ==
  /\ pc = before
  /\ pc' = opened
  /\ disk' = Truncate(disk, f)
  /\ UNCHANGED <<status, engine, current, app, crashes, history>>

Fills(opened, after, f, content) ==
  /\ pc = opened
  /\ pc' = after
  /\ disk' = WriteFile(disk, f, content)
  /\ UNCHANGED <<status, engine, current, app, crashes, history>>

GivesUp(before, opened, after) ==
  /\ StoreFaults
  /\ pc \in {before, opened}
  /\ pc' = after
  /\ UNCHANGED <<status, engine, current, app, disk, crashes, recorded, recovered, cut>>

SaveBlock ==
  \/ Truncates("recorded", "blockOpen", BlockFile(current))
  \/ Fills("blockOpen", "blockSaved", BlockFile(current), current)
  \/ /\ GivesUp("recorded", "blockOpen", "blockSaved")
     /\ unsaved' = unsaved \cup {current}

\* The rest of executeBlock: createCheckpoint, every CheckpointInterval heights.
KeepNewest(cps) ==
  IF Cardinality(cps) > 3 THEN {c \in cps : \E d \in cps : d < c} ELSE cps

CreateCheckpoint ==
  /\ pc = "blockSaved"
  /\ IF current % CheckpointInterval = 0
     THEN /\ checkpoints' = KeepNewest(checkpoints \cup {current})
          /\ pc' = "checkpointed"
     ELSE /\ pc' = "idle"
          /\ UNCHANGED checkpoints
  /\ UNCHANGED <<status, view, decided, lowWaterMark, committedBlocks, lastAppHash,
                 current, app, disk, crashes, history>>

SaveCheckpoint ==
  \/ Truncates("checkpointed", "checkpointOpen", CheckpointFile(current))
  \/ Fills("checkpointOpen", "checkpointSaved", CheckpointFile(current), current)
  \/ /\ GivesUp("checkpointed", "checkpointOpen", "checkpointSaved")
     /\ UNCHANGED unsaved

\* What SaveState writes; current is the last of committedBlocks.
StateToSave ==
  [view |-> view, height |-> Len(committedBlocks), last |-> current,
   appHash |-> lastAppHash]

SaveState ==
  \/ Truncates("checkpointSaved", "stateOpen", StateFile)
  \/ Fills("stateOpen", "stateSaved", StateFile, StateToSave)
  \/ /\ GivesUp("checkpointSaved", "stateOpen", "stateSaved")
     /\ UNCHANGED unsaved

\* StateLog.AdvanceWatermarks.
AdvanceWatermarks ==
  /\ pc = "stateSaved"
  /\ pc' = "idle"
  /\ IF current > lowWaterMark
     THEN /\ lowWaterMark' = current
          /\ decided' = {h \in decided : h > current}
     ELSE UNCHANGED <<lowWaterMark, decided>>
  /\ UNCHANGED <<status, view, checkpoints, committedBlocks, lastAppHash, current,
                 app, disk, crashes, history>>

-----------------------------------------------------------------------------

\* onViewChangeComplete, called from run between two messages.  Of the blocks
\* that are decided and not executed the NEW-VIEW may re-issue any.
EnterView ==
  /\ status = "up" /\ pc = "idle" /\ view < MaxView
  /\ view' = view + 1
  /\ \E reissued \in SUBSET (decided \ ExecutedHere) : decided' = decided \ reissued
  /\ UNCHANGED <<status, lowWaterMark, checkpoints, committedBlocks,
                 lastAppHash, pc, current, app, disk, crashes, history>>

(***************************************************************************)
(* The process stops: the engine's memory is gone, and with it that of an  *)
(* application in the same process.  A remote one may have the Commit      *)
(* before it.                                                              *)
(***************************************************************************)
Crash ==
  /\ status = "up" /\ crashes < MaxCrashes
  /\ status' = "down" /\ pc' = "idle" /\ crashes' = crashes + 1
  /\ view' = 0 /\ decided' = {} /\ lowWaterMark' = 0 /\ checkpoints' = {}
  /\ committedBlocks' = <<>> /\ lastAppHash' = {} /\ recovered' = 0
  /\ IF adapter = "local"
     THEN appState' = {} /\ appCommitted' = {} /\ UNCHANGED lateCommit
     ELSE /\ lateCommit' = (lateCommit \/ pc = "finalized")
          /\ UNCHANGED <<appState, appCommitted>>
  /\ result' = {}
  /\ unsaved' = IF pc \in {"recorded", "blockOpen"} THEN unsaved \cup {current} ELSE unsaved
  /\ cut' = IF pc \in {"finalized", "appCommitted"} THEN cut \cup {current} ELSE cut
  /\ UNCHANGED <<current, adapter, lateBlocks, disk, recorded>>

(***************************************************************************)
(* NewEngineV2 and Recover: LoadState, LoadBlocks, LoadCheckpoints.  It    *)
(* fails on the first file that cannot be decoded.  The water marks, the   *)
(* Executed flags and the sequence number start again from nothing.        *)
(***************************************************************************)
\* Mutant: the saved view is not taken over.
LoadedViewForgotten == 0

LoadedView == IF Whole(disk, StateFile) THEN disk[StateFile].view ELSE 0

LoadedAppHash == IF Whole(disk, StateFile) THEN disk[StateFile].appHash ELSE {}

\* Mutant: as many blocks as the saved state counts.
LoadedBlocksCounted ==
  LoadBlocks(disk, 1, IF Whole(disk, StateFile) THEN disk[StateFile].height ELSE 0)

LoadedBlocks == LoadBlocks(disk, 1, LatestBlockHeight(disk))

Recover ==
  /\ status = "down"
  /\ disk[StateFile] # Torn
  /\ BlocksReadable(disk, 1, LatestBlockHeight(disk))
  /\ CheckpointsReadable(disk)
  /\ status' = "up"
  /\ view' = LoadedView
  /\ lastAppHash' = LoadedAppHash
  /\ committedBlocks' = LoadedBlocks
  /\ recovered' = Len(LoadedBlocks)
  /\ checkpoints' = LoadCheckpoints(disk)
  /\ UNCHANGED <<decided, lowWaterMark, pc, current, app, disk, crashes,
                 recorded, unsaved, cut>>

Next ==
  \/ \E h \in Heights : FinalizeBlock(h)
  \/ CommitApp
  \/ LateCall
  \/ RecordBlock
  \/ SaveBlock
  \/ CreateCheckpoint
  \/ SaveCheckpoint
  \/ SaveState
  \/ AdvanceWatermarks
  \/ EnterView
  \/ Crash
  \/ Recover

Spec == Init /\ [][Next]_vars
-----------------------------------------------------------------------------
(***************************************************************************)
(* Properties.                                                             *)
(***************************************************************************)
InBlockList == {committedBlocks[i] : i \in 1 .. Len(committedBlocks)}

\* The blocks all of whose writes the application has committed.
Applied == {h \in Heights : Writes(h, TxsPerBlock) \subseteq appCommitted}

Steps == {"idle", "finalized", "appCommitted", "recorded", "blockOpen", "blockSaved",
          "checkpointed", "checkpointOpen", "checkpointSaved", "stateOpen", "stateSaved"}

\* Every variable holds values of its type; block and checkpoint files hold
\* the block or checkpoint they are named after.
TypeOK ==
  /\ adapter \in Adapters
  /\ status \in {"up", "down"}
  /\ view \in 0 .. MaxView
  /\ decided \subseteq Heights
  /\ lowWaterMark \in 0 .. MaxHeight
  /\ checkpoints \subseteq Heights
  /\ committedBlocks \in Seq(Heights)
  /\ {lastAppHash, appState, appCommitted, result} \subseteq SUBSET (Heights \X (1 .. TxsPerBlock))
  /\ lateBlocks \subseteq Heights
  /\ lateCommit \in BOOLEAN
  /\ pc \in Steps
  /\ current \in 0 .. MaxHeight
  /\ pc # "idle" => current \in Heights /\ status = "up"
  /\ disk = [f \in Files |-> disk[f]]
  /\ disk[StateFile] \in SavedStates \cup {NoFile, Torn}
  /\ \A h \in Heights : /\ disk[BlockFile(h)] \in {NoFile, Torn, h}
                        /\ disk[CheckpointFile(h)] \in {NoFile, Torn, h}
  /\ crashes \in 0 .. MaxCrashes
  /\ recorded \subseteq Heights
  /\ recovered \in Nat
  /\ unsaved \subseteq Heights
  /\ cut \subseteq Heights

\* On disk nothing points ahead, at whatever step the process stopped: the
\* block of a checkpoint file and the last block of the state file are on disk
\* themselves (executeBlock saves the block, then the checkpoint, then the
\* state), but for blocks whose saving failed or was cut short and a block
\* that is just being saved again.
NothingPointsAhead ==
  \A h \in Heights :
    \/ Whole(disk, CheckpointFile(h))
    \/ Whole(disk, StateFile) /\ disk[StateFile].last = h
    => \/ Whole(disk, BlockFile(h))
       \/ h \in unsaved
       \/ pc = "blockOpen" /\ current = h

\* A running validator has every block it ever recorded in its block list, over
\* any number of crashes and in whatever order the heights were executed, but
\* for those whose saving failed or was cut short (LoadBlocks goes up to the
\* highest file, not to the height in the state file).
NoBlockForgotten ==
  status = "up" => recorded \subseteq InBlockList \cup unsaved

\* The application and the engine agree on what is committed: all that was
\* recorded since the application started is in its committed state, the app
\* hash kept is one it has committed, and a block it has committed and the
\* engine has not recorded is the one in hand or one executeBlock gave up, at a
\* call that failed or with the process (the early returns of executeBlock; a
\* call given up may be carried out all the same, LateCall).
AppAgrees ==
  /\ ExecutedHere \subseteq Applied
  /\ adapter = "remote" => recorded \subseteq Applied /\ lastAppHash \subseteq appCommitted
  /\ TxsPerBlock > 0 =>
       Applied \subseteq recorded \cup cut
         \cup (IF pc \in {"finalized", "appCommitted"} THEN {current} ELSE {})

\* What the state file says has happened: a running validator, restarted or not,
\* is in the saved view or beyond, has the saved block in its list unless that
\* was never saved itself, and the saved app hash is one of a state the
\* application has committed (SaveState, LoadState).
SavedStateIsPast ==
  status = "up" /\ Whole(disk, StateFile) =>
    /\ view >= disk[StateFile].view
    /\ disk[StateFile].last \in InBlockList \cup unsaved
    /\ adapter = "remote" => disk[StateFile].appHash \subseteq appCommitted
=============================================================================
