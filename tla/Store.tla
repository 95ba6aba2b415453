------------------------------- MODULE Store -------------------------------
(***************************************************************************)
(* FileStore (persistence/store.go) as operators on the contents of its    *)
(* directory.  A block or a checkpoint is one JSON file, named by its      *)
(* number; the consensus state is one file that every save overwrites.     *)
(* os.WriteFile truncates the file and then fills it: a process that stops *)
(* in between, or an error, leaves a file that exists and cannot be        *)
(* decoded (Torn).  The store's mutex makes each load one step.            *)
(***************************************************************************)
EXTENDS Integers, Sequences, FiniteSets, Ascending

CONSTANTS MaxHeight,   \* bound on the heights of blocks
          NoFile,      \* no such file
          Torn         \* a file whose writing was interrupted

ASSUME MaxHeightAssumption == MaxHeight \in Nat

ASSUME FileAssumption ==
  /\ NoFile # Torn
  /\ {NoFile, Torn} \cap (0 .. MaxHeight) = {}

Heights == 1 .. MaxHeight

BlockFile(h) == <<"block", h>>
\* Mutant: the file is named by the checkpoint's rank.
CheckpointFileRanked(c) == <<"checkpoint", (c + 1) \div 2>>

CheckpointFile(c) == <<"checkpoint", c>>
StateFile == <<"state", 0>>

Files == ({"block", "checkpoint"} \X Heights) \cup {StateFile}

\* NewFileStore, on an empty directory.
EmptyDisk == [f \in Files |-> NoFile]

\* The two halves of os.WriteFile.
Truncate(disk, f) == [disk EXCEPT ![f] = Torn]
WriteFile(disk, f, content) == [disk EXCEPT ![f] = content]

Exists(disk, f) == disk[f] # NoFile
Whole(disk, f) == disk[f] # NoFile /\ disk[f] # Torn

(***************************************************************************)
(* GetLatestBlockHeight goes by the names of the files, whatever is in     *)
(* them; LoadBlocks passes over missing files and fails on a torn one; the *)
(* blocks come in ascending order.                                         *)
(***************************************************************************)
LatestBlockHeight(disk) ==
  CHOOSE h \in 0 .. MaxHeight :
    /\ h # 0 => Exists(disk, BlockFile(h))
    /\ \A k \in Heights : Exists(disk, BlockFile(k)) => k <= h

BlocksReadable(disk, from, to) ==
  \A h \in from .. to : disk[BlockFile(h)] # Torn

LoadBlocks(disk, from, to) ==
  Ascending({h \in from .. to : Whole(disk, BlockFile(h))})

CheckpointsReadable(disk) == \A c \in Heights : disk[CheckpointFile(c)] # Torn

LoadCheckpoints(disk) == {c \in Heights : Whole(disk, CheckpointFile(c))}
=============================================================================
