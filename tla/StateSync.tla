----------------------------- MODULE StateSync -----------------------------
(***************************************************************************)
(* StateSyncer (persistence/sync.go): Sync and SyncFromCheckpoint of one   *)
(* node, called by several goroutines, on a FileStore that outlives        *)
(* crashes.  The blocks come from a BlockProvider, which the repository    *)
(* uses and does not implement: here a peer that serves what its engine    *)
(* has (SyncState, GetBlocksFromHeight, GetCheckpoints): all its blocks    *)
(* from a height on, in the order it has executed them, which need not be  *)
(* that of the heights.  It fails, grows, and may miss blocks.             *)
(* onBlockReceived hands a block to the application and may fail.  The     *)
(* progress counters, which no decision reads, are left out.               *)
(***************************************************************************)
EXTENDS Store, FiniteSetsExt

CONSTANTS Calls,               \* the goroutines that call Sync or SyncFromCheckpoint
          BatchSize,           \* batchSize
          CheckpointInterval,  \* the peer's Config.CheckpointInterval
          PeerMisses           \* heights the peer's engine may not have executed

ASSUME SyncAssumption ==
  /\ {BatchSize, CheckpointInterval} \subseteq Nat \ {0}
  /\ PeerMisses \subseteq Heights

VARIABLES
  syncing,     \* ss.syncing
  pc,          \* where each call is, "idle" outside
  localHeight, \* localHeight of each call
  height,      \* its loop variable
  target,      \* its targetHeight
  blocks,      \* the answered blocks it has not finished with
  hand,        \* the one processBlock is at, 0 outside
  disk,        \* ss.store
  applied,     \* heights onBlockReceived has accepted
  peerHeight,  \* the peer's latest height
  missed,      \* history: heights some answer has left out
  cut,         \* history: heights whose processing a failure or a crash cut short
  behind       \* history: answered heights such an end left behind, not above the highest file

loop == <<localHeight, height, target, blocks, hand>>
lost == <<missed, cut, behind>>
vars == <<syncing, pc, loop, disk, applied, peerHeight, lost>>

Init ==
  /\ syncing = FALSE
  /\ pc = [c \in Calls |-> "idle"]
  /\ localHeight = [c \in Calls |-> 0]
  /\ height = [c \in Calls |-> 1]
  /\ target = [c \in Calls |-> 0]
  /\ blocks = [c \in Calls |-> {}]
  /\ hand = [c \in Calls |-> 0]
  /\ disk = EmptyDisk
  /\ applied = {}
  /\ peerHeight \in 0 .. MaxHeight
  /\ missed = {} /\ cut = {} /\ behind = {}

Goes(c, from, to) == pc[c] = from /\ pc' = [pc EXCEPT ![c] = to]

-----------------------------------------------------------------------------

(***************************************************************************)
(* The entry of both methods.  A call that finds the flag set returns an   *)
(* error and changes nothing.                                              *)
(***************************************************************************)
\* Mutant: the flag is read and set without the lock in between.
BeginUnlocked(c, first) ==
  /\ Goes(c, "idle", first)
  /\ syncing' = TRUE
  /\ UNCHANGED <<loop, disk, applied, peerHeight, lost>>

Begin(c, first) ==
  /\ Goes(c, "idle", first)
  /\ ~syncing
  /\ syncing' = TRUE
  /\ UNCHANGED <<loop, disk, applied, peerHeight, lost>>

\* The locals of a call end with it, and with them the blocks it has not come to.
\* The next call starts above the highest file and does not look for those below.
Forget(C) ==
  /\ localHeight' = [c \in Calls |-> IF c \in C THEN 0 ELSE localHeight[c]]
  /\ height' = [c \in Calls |-> IF c \in C THEN 1 ELSE height[c]]
  /\ target' = [c \in Calls |-> IF c \in C THEN 0 ELSE target[c]]
  /\ blocks' = [c \in Calls |-> IF c \in C THEN {} ELSE blocks[c]]
  /\ hand' = [c \in Calls |-> IF c \in C THEN 0 ELSE hand[c]]
  /\ behind' = behind \cup {h \in UNION {blocks[c] : c \in C} : h <= LatestBlockHeight(disk)}

\* Returning, with or without an error: the deferred function clears the flag.
\* Mutant: an error return leaves it set.
ReturnKeepsFlag(c, from) ==
  /\ Goes(c, from, "idle")
  /\ syncing' = (syncing /\ from \notin {"nothing", "complete"})
  /\ Forget({c})
  /\ UNCHANGED <<disk, applied, peerHeight, missed>>

Return(c, from) ==
  /\ Goes(c, from, "idle")
  /\ syncing' = FALSE
  /\ Forget({c})
  /\ UNCHANGED <<disk, applied, peerHeight, missed>>

\* The store or the peer ends the call.
Fails(c) ==
  \E from \in {"getLocal", "getCheckpoints", "getTarget"} :
    Return(c, from) /\ UNCHANGED cut

(***************************************************************************)
(* Where the loop starts: after the highest block file (Sync), or after    *)
(* the peer's latest checkpoint once that is saved (SyncFromCheckpoint).   *)
(***************************************************************************)
GetLocalHeight(c) ==
  /\ Goes(c, "getLocal", "getTarget")
  /\ localHeight' = [localHeight EXCEPT ![c] = LatestBlockHeight(disk)]
  /\ UNCHANGED <<syncing, height, target, blocks, hand, disk, applied, peerHeight, lost>>

\* What GetCheckpoints of the peer answers.
PeerCheckpoints == {h \in 1 .. peerHeight : h % CheckpointInterval = 0}

\* Without a checkpoint the method calls Sync, which finds the flag of its own
\* caller set and returns the error.
NoCheckpoints(c) ==
  /\ PeerCheckpoints = {}
  /\ Return(c, "getCheckpoints")
  /\ UNCHANGED cut

GetCheckpoints(c) ==
  /\ PeerCheckpoints # {}
  /\ Goes(c, "getCheckpoints", "saveCheckpoint")
  /\ localHeight' = [localHeight EXCEPT ![c] = Max(PeerCheckpoints)]
  /\ disk' = Truncate(disk, CheckpointFile(Max(PeerCheckpoints)))
  /\ UNCHANGED <<syncing, height, target, blocks, hand, applied, peerHeight, lost>>

SaveCheckpoint(c) ==
  \/ /\ Goes(c, "saveCheckpoint", "getTarget")
     /\ disk' = WriteFile(disk, CheckpointFile(localHeight[c]), localHeight[c])
     /\ UNCHANGED <<syncing, loop, applied, peerHeight, lost>>
  \/ Return(c, "saveCheckpoint") /\ UNCHANGED cut

\* With nothing to fetch the call returns nil without onSyncComplete.
GetTarget(c) ==
  /\ Goes(c, "getTarget", IF localHeight[c] >= peerHeight THEN "nothing" ELSE "batch")
  /\ target' = [target EXCEPT ![c] = peerHeight]
  /\ height' = [height EXCEPT ![c] = localHeight[c] + 1]
  /\ UNCHANGED <<syncing, localHeight, blocks, hand, disk, applied, peerHeight, lost>>

-----------------------------------------------------------------------------

(***************************************************************************)
(* The loop over batches and, within a batch, processBlock.                *)
(***************************************************************************)
\* Mutant: the loop ends at the target instead of after it.
MoreBatchesShort(c) == height[c] < target[c]

MoreBatches(c) == height[c] <= target[c]

\* The context is cancelled, or GetBlocks fails.
BatchFails(c) == MoreBatches(c) /\ Return(c, "batch") /\ UNCHANGED cut

EndHeight(c) == Min({height[c] + BatchSize - 1, target[c]})

\* GetBlocks: the blocks of the batch, or further ones too, that the peer has.
GetBlocks(c) ==
  /\ MoreBatches(c)
  /\ Goes(c, "batch", "blocks")
  /\ \E last \in EndHeight(c) .. MaxHeight :
     \E left \in SUBSET ((height[c] .. last) \cap PeerMisses) :
       /\ blocks' = [blocks EXCEPT ![c] = (height[c] .. last) \ left]
       /\ missed' = missed \cup left
  /\ UNCHANGED <<syncing, localHeight, height, target, hand, disk, applied, peerHeight, cut, behind>>

\* The blocks are taken in the order of the answer, here any.
OpenBlock(c) ==
  /\ Goes(c, "blocks", "writing")
  /\ \E h \in blocks[c] :
       /\ hand' = [hand EXCEPT ![c] = h]
       /\ disk' = Truncate(disk, BlockFile(h))
  /\ UNCHANGED <<syncing, localHeight, height, target, blocks, applied, peerHeight, lost>>

\* SaveBlock completes, or fails before or after it has opened the file and ends
\* the call.
SaveBlock(c) ==
  \/ /\ Goes(c, "writing", "stored")
     /\ disk' = WriteFile(disk, BlockFile(hand[c]), hand[c])
     /\ UNCHANGED <<syncing, loop, applied, peerHeight, lost>>
  \/ blocks[c] # {} /\ Return(c, "blocks") /\ UNCHANGED cut
  \/ Return(c, "writing") /\ cut' = cut \cup {hand[c]}

\* onBlockReceived has returned nil.
Handled(c) ==
  /\ Goes(c, "stored", "blocks")
  /\ blocks' = [blocks EXCEPT ![c] = @ \ {hand[c]}]
  /\ hand' = [hand EXCEPT ![c] = 0]
  /\ UNCHANGED <<syncing, localHeight, height, target, disk, peerHeight, lost>>

\* onBlockReceived takes the block, or fails and ends the call.
\* Mutant: its error is passed over.
OnBlockReceivedIgnored(c) ==
  /\ Handled(c)
  /\ applied' \in {applied, applied \cup {hand[c]}}

OnBlockReceived(c) ==
  \/ Handled(c) /\ applied' = applied \cup {hand[c]}
  \/ Return(c, "stored") /\ cut' = cut \cup {hand[c]}

\* Mutant: one height is passed over between two batches.
NextHeightSkips(c) == EndHeight(c) + 2

NextHeight(c) == EndHeight(c) + 1

EndBatch(c) ==
  /\ blocks[c] = {}
  /\ Goes(c, "blocks", "batch")
  /\ height' = [height EXCEPT ![c] = NextHeight(c)]
  /\ UNCHANGED <<syncing, localHeight, target, blocks, hand, disk, applied, peerHeight, lost>>

\* onSyncComplete is called, then the call returns nil.
Complete(c) ==
  /\ ~MoreBatches(c)
  /\ Goes(c, "batch", "complete")
  /\ UNCHANGED <<syncing, loop, disk, applied, peerHeight, lost>>

Finish(c) == (Return(c, "nothing") \/ Return(c, "complete")) /\ UNCHANGED cut

-----------------------------------------------------------------------------

PeerGrows ==
  /\ peerHeight < MaxHeight
  /\ peerHeight' = peerHeight + 1
  /\ UNCHANGED <<syncing, pc, loop, disk, applied, lost>>

\* The process stops and starts again: the files and the application stay.
Crash ==
  /\ pc' = [c \in Calls |-> "idle"]
  /\ syncing' = FALSE
  /\ cut' = cut \cup {hand[c] : c \in {d \in Calls : pc[d] \in {"writing", "stored"}}}
  /\ Forget(Calls)
  /\ UNCHANGED <<disk, applied, peerHeight, missed>>

Start(c) == Begin(c, "getLocal") \/ Begin(c, "getCheckpoints")

Step(c) ==
  \/ Fails(c)
  \/ GetLocalHeight(c)
  \/ NoCheckpoints(c)
  \/ GetCheckpoints(c)
  \/ SaveCheckpoint(c)
  \/ GetTarget(c)
  \/ BatchFails(c)
  \/ GetBlocks(c)
  \/ OpenBlock(c)
  \/ SaveBlock(c)
  \/ OnBlockReceived(c)
  \/ EndBatch(c)
  \/ Complete(c)
  \/ Finish(c)

Next ==
  \/ \E c \in Calls : Start(c) \/ Step(c)
  \/ PeerGrows
  \/ Crash

Spec == Init /\ [][Next]_vars

\* A goroutine inside a call is scheduled; provider calls carry a context and
\* return.
LiveSpec == Spec /\ \A c \in Calls : WF_vars(Step(c))
-----------------------------------------------------------------------------
(***************************************************************************)
(* Properties.                                                             *)
(***************************************************************************)
Working == {c \in Calls : pc[c] # "idle"}

\* The heights no call need look for: on disk, behind a checkpoint taken over,
\* not had from the peer, given up in a failure, or left behind by one.
Accounted ==
  {h \in Heights :
    \/ Whole(disk, BlockFile(h))
    \/ \E k \in Heights : k >= h /\ Exists(disk, CheckpointFile(k))
    \/ h \in missed \cup cut \cup behind}

\* Every variable holds values of its type, and a file what it is named after.
TypeOK ==
  /\ syncing \in BOOLEAN
  /\ pc \in [Calls -> {"idle", "getLocal", "getCheckpoints", "saveCheckpoint", "getTarget",
                       "nothing", "batch", "blocks", "writing", "stored", "complete"}]
  /\ height \in [Calls -> 1 .. MaxHeight + 1]
  /\ {localHeight, target, hand} \subseteq [Calls -> 0 .. MaxHeight]
  /\ blocks \in [Calls -> SUBSET Heights]
  /\ disk = [f \in Files |-> disk[f]]
  /\ \A h \in Heights : /\ disk[BlockFile(h)] \in {NoFile, Torn, h}
                        /\ disk[CheckpointFile(h)] \in {NoFile, Torn, h}
  /\ peerHeight \in 0 .. MaxHeight
  /\ {applied, missed, cut, behind} \subseteq SUBSET Heights

\* One call works at a time and the flag is set as long as one does, though a
\* method may call the other and every error has a return of its own
\* (ss.syncing, the deferred functions).
OneAtATime ==
  /\ \A c, d \in Working : c = d
  /\ syncing <=> Working # {}

\* Below the highest block on disk every height is accounted for or about to be
\* processed, in whatever order the answers come and whatever batches, failures,
\* crashes and checkpoints lie in between: a later Sync starts above the highest
\* and does not come back (height, endHeight, GetLatestBlockHeight).
NoHoles ==
  \A h \in 1 .. LatestBlockHeight(disk) : h \in Accounted \/ \E c \in Calls : h \in blocks[c]

\* When onSyncComplete is called, every height above the one the call started
\* from up to its target that the peer has is on disk and with the application,
\* whatever earlier calls have lost and in whatever order the blocks came (the
\* loop's condition, processBlock's errors).
CompleteIsComplete ==
  \A c \in Calls : pc[c] = "complete" =>
    \A h \in (localHeight[c] + 1 .. target[c]) \ PeerMisses :
      Whole(disk, BlockFile(h)) /\ h \in applied

\* The application gets every block on disk, and none that is not, but for those
\* whose processing was cut short: they are not fetched again (processBlock).
StoredIsApplied ==
  \A h \in Heights :
    \/ Whole(disk, BlockFile(h)) <=> h \in applied
    \/ h \in cut
    \/ \E c \in Calls : pc[c] \in {"writing", "stored"} /\ hand[c] = h

\* Whatever fails, the flag is released in the end: a node never locks itself
\* out of synchronising.
FlagReleased == syncing ~> ~syncing
=============================================================================
