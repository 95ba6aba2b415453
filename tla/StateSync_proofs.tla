-------------------------- MODULE StateSync_proofs --------------------------
(***************************************************************************)
(* StateSync: one call at a time, and what its batches leave on disk and   *)
(* in the application, for every number of calls, batch size and peer.     *)
(***************************************************************************)
EXTENDS StateSync, Ascending_proofs

(***************************************************************************)
(* The inductive invariant.  CallOK(c) says where the loop of call c       *)
(* stands: all heights below the batch in hand are accounted for, and of   *)
(* the batch and up to the last block answered all but those still to      *)
(* process.  LoopOK(c) says the same of what the call itself has stored    *)
(* and handed over.                                                        *)
(***************************************************************************)
PCs == {"idle", "getLocal", "getCheckpoints", "saveCheckpoint", "getTarget",
        "nothing", "batch", "blocks", "writing", "stored", "complete"}

Early == {"idle", "getLocal", "getCheckpoints", "saveCheckpoint", "getTarget"}
InBatch == {"blocks", "writing", "stored"}

\* The heights the answer of the batch is about.
Answered(c) ==
  {h \in height[c] .. MaxHeight : h <= EndHeight(c) \/ \E b \in blocks[c] : h <= b}

CallOK(c) ==
  /\ pc[c] = "idle" => height[c] = 1 /\ localHeight[c] = 0
  /\ pc[c] = "saveCheckpoint" => localHeight[c] \in Heights
  /\ pc[c] = "batch" => height[c] <= target[c] + 1
  /\ pc[c] = "complete" => target[c] < height[c]
  /\ pc[c] \notin InBatch => blocks[c] = {}
  /\ pc[c] \in InBatch => /\ height[c] <= target[c]
                          /\ \A b \in blocks[c] : height[c] <= b
                          /\ Answered(c) \ blocks[c] \subseteq Accounted
  /\ pc[c] \in {"writing", "stored"} => hand[c] \in blocks[c]
  /\ pc[c] = "writing" => Exists(disk, BlockFile(hand[c]))
  /\ pc[c] = "stored" => Whole(disk, BlockFile(hand[c]))
  /\ pc[c] \in Early => 1 .. localHeight[c] \subseteq Accounted
  /\ 1 .. height[c] - 1 \subseteq Accounted

Got(h) == Whole(disk, BlockFile(h)) /\ h \in applied

LoopOK(c) ==
  /\ pc[c] \notin Early =>
       /\ localHeight[c] < height[c]
       /\ \A h \in (localHeight[c] + 1 .. height[c] - 1) \ PeerMisses : Got(h)
  /\ pc[c] \in InBatch =>
       \A h \in (height[c] .. EndHeight(c)) \ PeerMisses : h \in blocks[c] \/ Got(h)

\* The heights some call has still to process, and those it is processing.
Pending(h) == \E d \in Calls : h \in blocks[d]
InProgress(h) == \E d \in Calls : pc[d] \in {"writing", "stored"} /\ hand[d] = h

IInv ==
  /\ TypeOK /\ OneAtATime /\ NoHoles /\ StoredIsApplied
  /\ \A c \in Calls : CallOK(c) /\ LoopOK(c)

-----------------------------------------------------------------------------
(***************************************************************************)
(* Smallest and largest elements, and the files.                           *)
(***************************************************************************)
\* The library's Min picks the smallest element.
LEMMA MinFact ==
  ASSUME NEW T, T \subseteq Nat, T # {}
  PROVE  Min(T) \in T /\ \A y \in T : Min(T) <= y
BY SmallestExists DEF Min

\* Its Max picks the largest of a set of heights.
LEMMA MaxFact ==
  ASSUME NEW T, T \subseteq 0 .. MaxHeight, T # {}
  PROVE  Max(T) \in T /\ \A y \in T : y <= Max(T)
<1>1. T \subseteq Nat
  BY MaxHeightAssumption
<1>2. PICK x \in T : \A y \in T : x >= y
  BY <1>1, MaxHeightAssumption, LargestExists
<1> QED BY <1>1, <1>2 DEF Max

\* GetLatestBlockHeight is the height of an existing file above no other, or 0.
LEMMA LatestFact ==
  ASSUME NEW d
  PROVE  /\ LatestBlockHeight(d) \in 0 .. MaxHeight
         /\ LatestBlockHeight(d) # 0 => Exists(d, BlockFile(LatestBlockHeight(d)))
         /\ \A k \in Heights : Exists(d, BlockFile(k)) => k <= LatestBlockHeight(d)
<1>1. PICK T : T = {h \in 0 .. MaxHeight : h # 0 => Exists(d, BlockFile(h))}
  OBVIOUS
<1>2. 0 \in T /\ T \subseteq 0 .. MaxHeight
  BY <1>1, MaxHeightAssumption
<1>3. PICK x \in T : \A y \in T : y <= x
  BY <1>2, MaxHeightAssumption, LargestExists
<1>4. \A k \in Heights : Exists(d, BlockFile(k)) => k \in T
  BY <1>1, MaxHeightAssumption DEF Heights
<1>5. \E h \in 0 .. MaxHeight :
        /\ h # 0 => Exists(d, BlockFile(h))
        /\ \A k \in Heights : Exists(d, BlockFile(k)) => k <= h
  BY <1>1, <1>3, <1>4
<1> QED BY <1>5 DEF LatestBlockHeight

\* Files of different names.
LEMMA FileNames ==
  /\ \A h, k : BlockFile(h) = BlockFile(k) => h = k
  /\ \A h, k : CheckpointFile(h) = CheckpointFile(k) => h = k
  /\ \A h, k : BlockFile(h) # CheckpointFile(k)
  /\ \A h \in Heights : BlockFile(h) \in Files /\ CheckpointFile(h) \in Files
BY DEF BlockFile, CheckpointFile, Files

\* What writing one file leaves of the others.
FilesOK(d) ==
  /\ d = [f \in Files |-> d[f]]
  /\ \A h \in Heights : /\ d[BlockFile(h)] \in {NoFile, Torn, h}
                        /\ d[CheckpointFile(h)] \in {NoFile, Torn, h}

LEMMA WriteCheckpoint ==
  ASSUME TypeOK, NEW k \in Heights, NEW x \in {Torn, k},
         disk' = [disk EXCEPT ![CheckpointFile(k)] = x]
  PROVE  /\ FilesOK(disk')
         /\ Exists(disk', CheckpointFile(k))
         /\ \A h \in Heights : disk'[BlockFile(h)] = disk[BlockFile(h)]
         /\ \A h \in Heights : Exists(disk, CheckpointFile(h)) => Exists(disk', CheckpointFile(h))
<1>1. PICK f \in Files : f = CheckpointFile(k)
  BY FileNames
<1>2. disk' = [g \in Files |-> IF g = f THEN x ELSE disk[g]]
  BY <1>1 DEF TypeOK
<1>3. x # NoFile
  BY FileAssumption, MaxHeightAssumption DEF Heights
<1>4. \A h \in Heights : /\ disk'[BlockFile(h)] = disk[BlockFile(h)]
                         /\ disk'[CheckpointFile(h)] = IF h = k THEN x ELSE disk[CheckpointFile(h)]
  BY <1>1, <1>2, FileNames
<1>5. FilesOK(disk')
  BY <1>2, <1>4 DEF FilesOK, TypeOK
<1> QED BY <1>3, <1>4, <1>5 DEF Exists

LEMMA WriteBlock ==
  ASSUME TypeOK, NEW k \in Heights, NEW x \in {Torn, k},
         disk' = [disk EXCEPT ![BlockFile(k)] = x]
  PROVE  /\ FilesOK(disk')
         /\ disk'[BlockFile(k)] = x /\ x # NoFile
         /\ \A h \in Heights : h # k => disk'[BlockFile(h)] = disk[BlockFile(h)]
         /\ \A h \in Heights : disk'[CheckpointFile(h)] = disk[CheckpointFile(h)]
<1>1. PICK f \in Files : f = BlockFile(k)
  BY FileNames
<1>2. disk' = [g \in Files |-> IF g = f THEN x ELSE disk[g]]
  BY <1>1 DEF TypeOK
<1>3. x # NoFile
  BY FileAssumption, MaxHeightAssumption DEF Heights
<1>4. \A h \in Heights : /\ disk'[CheckpointFile(h)] = disk[CheckpointFile(h)]
                         /\ disk'[BlockFile(h)] = IF h = k THEN x ELSE disk[BlockFile(h)]
  BY <1>1, <1>2, FileNames
<1>5. FilesOK(disk')
  BY <1>2, <1>4 DEF FilesOK, TypeOK
<1> QED BY <1>3, <1>4, <1>5

-----------------------------------------------------------------------------
(***************************************************************************)
(* Facts every step uses.                                                  *)
(***************************************************************************)

\* What stays accounted for: a whole file, an existing checkpoint file, and the
\* histories.
LEMMA AccountedGrows ==
  ASSUME NEW h \in Accounted,
         Whole(disk, BlockFile(h)) => Whole(disk', BlockFile(h)),
         \A k \in Heights : Exists(disk, CheckpointFile(k)) => Exists(disk', CheckpointFile(k)),
         missed \subseteq missed', cut \subseteq cut', behind \subseteq behind'
  PROVE  h \in Accounted'
BY DEF Accounted

\* The calls that wait hold nothing.
LEMMA IdleCall ==
  ASSUME NEW d \in Calls, pc'[d] = "idle", height'[d] = 1, blocks'[d] = {}, localHeight'[d] = 0
  PROVE  CallOK(d)' /\ LoopOK(d)'
<1>1. 1 .. height'[d] - 1 = {} /\ 1 .. localHeight'[d] = {}
  OBVIOUS
<1>2. CallOK(d)'
  BY <1>1 DEF CallOK, InBatch
<1> QED BY <1>2 DEF LoopOK, InBatch, Early

\* A step inside a call is the step of the only call at work.
LEMMA OnlyWorker ==
  ASSUME IInv, NEW c \in Calls, pc[c] # "idle"
  PROVE  /\ syncing
         /\ \A d \in Calls : d # c => /\ pc[d] = "idle" /\ blocks[d] = {}
                                     /\ height[d] = 1 /\ localHeight[d] = 0
         /\ CallOK(c) /\ LoopOK(c) /\ blocks[c] \subseteq Nat
<1>1. \A d \in Calls : d # c => pc[d] = "idle"
  BY DEF IInv, OneAtATime, Working
<1>2. syncing
  BY DEF IInv, OneAtATime, Working
<1>3. blocks[c] \subseteq Nat
  BY MaxHeightAssumption DEF IInv, TypeOK, Heights
<1>4. CallOK(c) /\ LoopOK(c) /\ \A d \in Calls : CallOK(d)
  BY DEF IInv
<1> QED BY <1>1, <1>2, <1>3, <1>4 DEF CallOK, InBatch

\* The locals of the calls that wait stay as they are.
Unmoved(d) ==
  /\ height'[d] = height[d] /\ blocks'[d] = blocks[d] /\ localHeight'[d] = localHeight[d]

LEMMA WorkStep ==
  ASSUME IInv, NEW c \in Calls, NEW from, NEW to, from # "idle", to \in PCs, to # "idle",
         Goes(c, from, to), UNCHANGED syncing,
         \A d \in Calls : d # c => Unmoved(d)
  PROVE  /\ pc[c] = from /\ pc'[c] = to
         /\ pc' \in [Calls -> PCs]
         /\ OneAtATime'
         /\ \A d \in Calls : d # c => pc[d] = "idle" /\ pc'[d] = "idle" /\ CallOK(d)' /\ LoopOK(d)'
<1>1. pc[c] = from /\ from # "idle" /\ pc' = [pc EXCEPT ![c] = to]
  BY DEF Goes
<1>2. pc \in [Calls -> PCs]
  BY DEF IInv, TypeOK, PCs
<1>3. pc' \in [Calls -> PCs] /\ pc'[c] = to /\ \A d \in Calls : d # c => pc'[d] = pc[d]
  BY <1>1, <1>2
<1>4. syncing /\ \A d \in Calls : d # c => /\ pc[d] = "idle" /\ blocks[d] = {}
                                         /\ height[d] = 1 /\ localHeight[d] = 0
  BY <1>1, OnlyWorker
<1>5. \A d \in Calls : d # c => pc'[d] = "idle" /\ CallOK(d)' /\ LoopOK(d)'
  BY <1>3, <1>4, IdleCall DEF Unmoved
<1>6. OneAtATime'
  BY <1>3, <1>4, <1>5 DEF OneAtATime, Working
<1> QED BY <1>1, <1>3, <1>4, <1>5, <1>6

\* A step that makes no block file forgets no height below the highest.
LEMMA NoNewFile ==
  ASSUME NoHoles,
         \A k \in Heights : Exists(disk', BlockFile(k)) => Exists(disk, BlockFile(k)),
         Accounted \subseteq Accounted',
         \A h \in 1 .. LatestBlockHeight(disk) : Pending(h) => h \in Accounted' \/ Pending(h)'
  PROVE  NoHoles'
<1>1. PICK new : new = LatestBlockHeight(disk')
  OBVIOUS
<1>2. PICK old : old = LatestBlockHeight(disk)
  OBVIOUS
<1>3. new \in 0 .. MaxHeight /\ old \in 0 .. MaxHeight /\ new <= old
  <2>1. /\ new \in 0 .. MaxHeight
        /\ new # 0 => Exists(disk', BlockFile(new))
    BY <1>1, LatestFact
  <2>2. /\ old \in 0 .. MaxHeight
        /\ \A k \in Heights : Exists(disk, BlockFile(k)) => k <= old
    BY <1>2, LatestFact
  <2> QED BY <2>1, <2>2, MaxHeightAssumption DEF Heights
<1>4. 1 .. new \subseteq 1 .. old
  BY <1>3, MaxHeightAssumption
<1>5. ASSUME NEW h \in 1 .. new
      PROVE  h \in Accounted' \/ Pending(h)'
  <2>1. h \in Accounted \/ Pending(h)
    BY <1>2, <1>4 DEF NoHoles, Pending
  <2> QED BY <1>2, <1>4, <2>1
<1> QED BY <1>1, <1>5 DEF NoHoles, Pending

\* A step that touches neither the files nor the application, and no block in
\* hand.
LEMMA AppSame ==
  ASSUME StoredIsApplied, UNCHANGED applied, cut \subseteq cut',
         \A h \in Heights : Whole(disk', BlockFile(h)) <=> Whole(disk, BlockFile(h)),
         \A h \in Heights : InProgress(h) => h \in cut' \/ InProgress(h)'
  PROVE  StoredIsApplied'
<1> SUFFICES ASSUME NEW h \in Heights
             PROVE  \/ Whole(disk', BlockFile(h)) <=> h \in applied'
                    \/ h \in cut'
                    \/ InProgress(h)'
  BY DEF StoredIsApplied, InProgress
<1>1. \/ Whole(disk, BlockFile(h)) <=> h \in applied
      \/ h \in cut
      \/ InProgress(h)
  BY DEF StoredIsApplied, InProgress
<1> QED BY <1>1

\* The batch in hand ends where the code says.
LEMMA EndFact ==
  ASSUME IInv, NEW c \in Calls, height[c] <= target[c]
  PROVE  EndHeight(c) \in Heights /\ height[c] <= EndHeight(c) /\ EndHeight(c) <= target[c]
<1>1. /\ height[c] \in 1 .. MaxHeight + 1 /\ target[c] \in 0 .. MaxHeight
      /\ BatchSize \in Nat \ {0} /\ MaxHeight \in Nat
  BY SyncAssumption, MaxHeightAssumption DEF IInv, TypeOK
<1>2. PICK T : T = {height[c] + BatchSize - 1, target[c]}
  OBVIOUS
<1>3. T \subseteq Nat /\ T # {}
  BY <1>1, <1>2
<1>4. EndHeight(c) \in T /\ \A y \in T : EndHeight(c) <= y
  BY <1>2, <1>3, MinFact DEF EndHeight
<1> QED BY <1>1, <1>2, <1>4 DEF Heights

\* The block in hand is a height still to process.
LEMMA InHandFact ==
  ASSUME IInv, NEW c \in Calls, pc[c] \in {"writing", "stored"}
  PROVE  hand[c] \in blocks[c] /\ hand[c] \in Heights
BY DEF IInv, CallOK, TypeOK

-----------------------------------------------------------------------------
(***************************************************************************)
(* Returning, by the call itself or in a crash.                            *)
(***************************************************************************)
LEMMA AllIdle ==
  ASSUME IInv,
         \A d \in Calls : /\ pc'[d] = "idle" /\ height'[d] = 1
                          /\ blocks'[d] = {} /\ localHeight'[d] = 0,
         syncing' = FALSE, UNCHANGED <<disk, applied, missed>>,
         cut \subseteq cut', behind \subseteq behind',
         \A d \in Calls : pc[d] \in {"writing", "stored"} => hand[d] \in cut',
         \A d \in Calls : \A h \in blocks[d] : h <= LatestBlockHeight(disk) => h \in behind'
  PROVE  OneAtATime' /\ NoHoles' /\ StoredIsApplied' /\ \A d \in Calls : CallOK(d)' /\ LoopOK(d)'
<1>1. OneAtATime'
  BY DEF OneAtATime, Working
<1>2. \A d \in Calls : CallOK(d)' /\ LoopOK(d)'
  BY IdleCall
<1>3. Accounted \subseteq Accounted'
  BY AccountedGrows
<1>4. \A h \in Heights : InProgress(h) => h \in cut'
  BY DEF InProgress
<1>5. NoHoles'
  <2>1. NoHoles /\ \A k \in Heights : Exists(disk', BlockFile(k)) => Exists(disk, BlockFile(k))
    BY DEF IInv
  <2>2. ASSUME NEW h \in 1 .. LatestBlockHeight(disk), Pending(h) PROVE h \in Accounted'
    <3>1. h \in Heights /\ h <= LatestBlockHeight(disk)
      BY LatestFact, MaxHeightAssumption DEF Heights
    <3>2. h \in behind'
      BY <2>2, <3>1 DEF Pending
    <3> QED BY <3>1, <3>2 DEF Accounted
  <2> QED BY <1>3, <2>1, <2>2, NoNewFile
<1>6. StoredIsApplied'
  <2>1. StoredIsApplied /\ \A h \in Heights :
          Whole(disk', BlockFile(h)) <=> Whole(disk, BlockFile(h))
    BY DEF IInv
  <2>2. UNCHANGED applied
    OBVIOUS
  <2> QED BY <1>4, <2>1, <2>2, AppSame
<1> QED BY <1>1, <1>2, <1>5, <1>6

\* The heights of a call that are left behind are heights.
LEMMA ForgetFact ==
  ASSUME IInv, NEW C \in SUBSET Calls, Forget(C)
  PROVE  /\ height' \in [Calls -> 1 .. MaxHeight + 1]
         /\ {localHeight', target', hand'} \subseteq [Calls -> 0 .. MaxHeight]
         /\ blocks' \in [Calls -> SUBSET Heights]
         /\ behind' \subseteq Heights /\ behind \subseteq behind'
         /\ \A d \in C : /\ height'[d] = 1 /\ blocks'[d] = {} /\ localHeight'[d] = 0
                         /\ \A h \in blocks[d] : h <= LatestBlockHeight(disk) => h \in behind'
         /\ \A d \in Calls \ C : Unmoved(d)
<1>1. /\ height \in [Calls -> 1 .. MaxHeight + 1]
      /\ localHeight \in [Calls -> 0 .. MaxHeight] /\ target \in [Calls -> 0 .. MaxHeight]
      /\ hand \in [Calls -> 0 .. MaxHeight]
      /\ blocks \in [Calls -> SUBSET Heights] /\ behind \subseteq Heights
  BY DEF IInv, TypeOK
<1>2. /\ localHeight' \in [Calls -> 0 .. MaxHeight] /\ target' \in [Calls -> 0 .. MaxHeight]
      /\ hand' \in [Calls -> 0 .. MaxHeight] /\ height' \in [Calls -> 1 .. MaxHeight + 1]
      /\ blocks' \in [Calls -> SUBSET Heights]
  BY <1>1, MaxHeightAssumption DEF Forget
<1>3. behind' \subseteq Heights /\ behind \subseteq behind'
  BY <1>1 DEF Forget
<1>4. \A d \in C : \A h \in blocks[d] : h <= LatestBlockHeight(disk) => h \in behind'
  BY DEF Forget
<1>5. \A d \in C : height'[d] = 1 /\ blocks'[d] = {} /\ localHeight'[d] = 0
  BY DEF Forget
<1>6. \A d \in Calls \ C : Unmoved(d)
  BY DEF Forget, Unmoved
<1> QED BY <1>2, <1>3, <1>4, <1>5, <1>6

LEMMA ReturnKeeps ==
  ASSUME IInv, NEW c \in Calls, NEW from, from # "idle", Return(c, from),
         \/ from \notin {"writing", "stored"} /\ UNCHANGED cut
         \/ from \in {"writing", "stored"} /\ cut' = cut \cup {hand[c]}
  PROVE  IInv'
<1>1. pc[c] = from /\ pc' = [pc EXCEPT ![c] = "idle"]
  BY DEF Return, Goes
<1>2. \A d \in Calls : d # c => /\ pc[d] = "idle" /\ blocks[d] = {}
                              /\ height[d] = 1 /\ localHeight[d] = 0
  BY <1>1, OnlyWorker
<1>3. \A d \in Calls : pc'[d] = "idle"
  BY <1>1, <1>2 DEF IInv, TypeOK
<1>4. /\ height' \in [Calls -> 1 .. MaxHeight + 1]
      /\ {localHeight', target', hand'} \subseteq [Calls -> 0 .. MaxHeight]
      /\ blocks' \in [Calls -> SUBSET Heights]
      /\ behind' \subseteq Heights /\ behind \subseteq behind'
      /\ \A d \in {c} : /\ height'[d] = 1 /\ blocks'[d] = {} /\ localHeight'[d] = 0
                        /\ \A h \in blocks[d] : h <= LatestBlockHeight(disk) => h \in behind'
      /\ \A d \in Calls \ {c} : Unmoved(d)
  BY ForgetFact DEF Return
<1>5. \A d \in Calls : /\ height'[d] = 1 /\ blocks'[d] = {} /\ localHeight'[d] = 0
                       /\ \A h \in blocks[d] : h <= LatestBlockHeight(disk) => h \in behind'
  BY <1>2, <1>4 DEF Unmoved
<1>6. cut \subseteq cut' /\ \A d \in Calls : pc[d] \in {"writing", "stored"} => hand[d] \in cut'
  BY <1>1, <1>2
<1>7. cut' \subseteq Heights
  <2>1. from \in {"writing", "stored"} => hand[c] \in Heights
    BY <1>1, InHandFact
  <2> QED BY <2>1 DEF IInv, TypeOK
<1>8. syncing' = FALSE /\ UNCHANGED <<disk, applied, peerHeight, missed>>
  BY DEF Return
<1>9. TypeOK'
  <2>1. pc' \in [Calls -> PCs]
    BY <1>1 DEF IInv, TypeOK, PCs
  <2> QED BY <1>4, <1>7, <1>8, <2>1 DEF IInv, TypeOK, PCs
<1> QED BY <1>3, <1>4, <1>5, <1>6, <1>8, <1>9, AllIdle DEF IInv

LEMMA CrashKeeps == ASSUME IInv, Crash PROVE IInv'
<1>1. /\ height' \in [Calls -> 1 .. MaxHeight + 1]
      /\ {localHeight', target', hand'} \subseteq [Calls -> 0 .. MaxHeight]
      /\ blocks' \in [Calls -> SUBSET Heights]
      /\ behind' \subseteq Heights /\ behind \subseteq behind'
      /\ \A d \in Calls : /\ height'[d] = 1 /\ blocks'[d] = {} /\ localHeight'[d] = 0
                          /\ \A h \in blocks[d] : h <= LatestBlockHeight(disk) => h \in behind'
  BY ForgetFact DEF Crash
<1>2. pc' = [d \in Calls |-> "idle"]
  BY DEF Crash
<1>8. syncing' = FALSE /\ UNCHANGED <<disk, applied, peerHeight, missed>>
  BY DEF Crash
<1>3. cut \subseteq cut' /\ \A d \in Calls : pc[d] \in {"writing", "stored"} => hand[d] \in cut'
  BY DEF Crash
<1>4. cut' \subseteq Heights
  <2>1. \A d \in Calls : pc[d] \in {"writing", "stored"} => hand[d] \in Heights
    BY InHandFact
  <2>2. cut \subseteq Heights
    BY DEF IInv, TypeOK
  <2>3. \A h \in cut' : h \in cut \/ \E d \in Calls : pc[d] \in {"writing", "stored"} /\ h = hand[d]
    BY DEF Crash
  <2> QED BY <2>1, <2>2, <2>3
<1>5. TypeOK'
  <2>1. pc' \in [Calls -> PCs]
    BY <1>2 DEF PCs
  <2> QED BY <1>1, <1>4, <1>8, <2>1 DEF IInv, TypeOK, PCs
<1>6. \A d \in Calls : pc'[d] = "idle"
  BY <1>2
<1> QED BY <1>1, <1>2, <1>3, <1>5, <1>6, <1>8, AllIdle DEF IInv

-----------------------------------------------------------------------------
(***************************************************************************)
(* The steps of a call that leave the block files and the application      *)
(* alone.                                                                  *)
(***************************************************************************)
LEMMA QuietKeeps ==
  ASSUME IInv, NEW c \in Calls, NEW from, NEW to,
         from \notin {"idle", "writing", "stored"}, to \in PCs \ {"idle", "writing", "stored"},
         Goes(c, from, to), UNCHANGED <<syncing, applied, cut, behind>>, missed \subseteq missed',
         blocks[c] = {}, \A d \in Calls : d # c => Unmoved(d),
         \A h \in Heights : disk'[BlockFile(h)] = disk[BlockFile(h)],
         \A k \in Heights : Exists(disk, CheckpointFile(k)) => Exists(disk', CheckpointFile(k))
  PROVE  /\ OneAtATime' /\ NoHoles' /\ StoredIsApplied'
         /\ pc' \in [Calls -> PCs]
         /\ pc[c] = from /\ pc'[c] = to
         /\ \A d \in Calls : d # c => CallOK(d)' /\ LoopOK(d)'
         /\ Accounted \subseteq Accounted'
         /\ CallOK(c) /\ LoopOK(c)
         /\ \A h \in Heights : Got(h) => Got(h)'
<1>1. /\ pc[c] = from /\ pc'[c] = to /\ pc' \in [Calls -> PCs] /\ OneAtATime'
      /\ \A d \in Calls : d # c => /\ pc[d] = "idle" /\ pc'[d] = "idle"
                                   /\ CallOK(d)' /\ LoopOK(d)'
  BY WorkStep
<1>2. \A h : ~Pending(h) /\ ~InProgress(h)
  <2>1. \A d \in Calls : pc[d] \notin {"writing", "stored"} /\ blocks[d] = {}
    BY <1>1, OnlyWorker
  <2> QED BY <2>1 DEF Pending, InProgress
<1>3. Accounted \subseteq Accounted'
  <2> SUFFICES ASSUME NEW h \in Accounted PROVE h \in Accounted'
    OBVIOUS
  <2>1. Whole(disk, BlockFile(h)) => Whole(disk', BlockFile(h))
    BY DEF Whole, Accounted
  <2>2. cut \subseteq cut' /\ behind \subseteq behind'
    OBVIOUS
  <2> QED BY <2>1, <2>2, AccountedGrows
<1>4. NoHoles'
  <2>1. NoHoles /\ \A k \in Heights : Exists(disk', BlockFile(k)) => Exists(disk, BlockFile(k))
    BY DEF IInv, Exists
  <2> QED BY <1>2, <1>3, <2>1, NoNewFile
<1>5. StoredIsApplied'
  <2>1. StoredIsApplied /\ \A h \in Heights :
          Whole(disk', BlockFile(h)) <=> Whole(disk, BlockFile(h))
    BY DEF IInv, Whole
  <2>2. UNCHANGED applied /\ cut \subseteq cut'
    OBVIOUS
  <2> QED BY <1>2, <2>1, <2>2, AppSame
<1>6. \A h \in Heights : Got(h) => Got(h)'
  BY DEF Got, Whole
<1>7. CallOK(c) /\ LoopOK(c)
  BY DEF IInv
<1> QED BY <1>1, <1>3, <1>4, <1>5, <1>6, <1>7

\* Sync or SyncFromCheckpoint begins.
LEMMA BeginKeeps ==
  ASSUME IInv, NEW c \in Calls, NEW first \in {"getLocal", "getCheckpoints"}, Begin(c, first)
  PROVE  IInv'
<1>1. ~syncing /\ pc[c] = "idle" /\ pc' = [pc EXCEPT ![c] = first] /\ syncing' = TRUE
      /\ UNCHANGED <<localHeight, height, target, blocks, hand>>
      /\ UNCHANGED <<disk, applied, peerHeight, missed, cut, behind>>
  BY DEF Begin, Goes, loop, lost
<1>2. \A d \in Calls : pc[d] = "idle"
  BY <1>1 DEF IInv, OneAtATime, Working
<1>3. /\ pc'[c] = first /\ first \in PCs \ {"idle"} /\ \A d \in Calls : d # c => pc'[d] = "idle"
      /\ pc' \in [Calls -> PCs]
  BY <1>1, <1>2 DEF IInv, TypeOK, PCs
<1>4. OneAtATime'
  BY <1>1, <1>3 DEF OneAtATime, Working
<1>5. \A d \in Calls : height'[d] = 1 /\ blocks'[d] = {} /\ localHeight'[d] = 0
  BY <1>1, <1>2 DEF IInv, CallOK, InBatch
<1>6. \A d \in Calls : d # c => CallOK(d)' /\ LoopOK(d)'
  BY <1>3, <1>5, IdleCall
<1>7. CallOK(c)' /\ LoopOK(c)'
  <2>1. 1 .. height'[c] - 1 = {} /\ 1 .. localHeight'[c] = {}
    BY <1>5
  <2>2. CallOK(c)'
    BY <1>3, <1>5, <2>1 DEF CallOK, InBatch
  <2> QED BY <1>3, <2>2 DEF LoopOK, InBatch, Early
<1>8. \A h : ~Pending(h) /\ ~InProgress(h)
  <2>1. \A d \in Calls : blocks[d] = {}
    BY <1>1, <1>5
  <2> QED BY <1>2, <2>1 DEF Pending, InProgress
<1>9. Accounted' = Accounted
  BY <1>1 DEF Accounted
<1>10. NoHoles'
  <2>1. NoHoles /\ \A k \in Heights : Exists(disk', BlockFile(k)) => Exists(disk, BlockFile(k))
    BY <1>1 DEF IInv
  <2> QED BY <1>8, <1>9, <2>1, NoNewFile
<1>11. StoredIsApplied'
  <2>1. StoredIsApplied /\ \A h \in Heights :
          Whole(disk', BlockFile(h)) <=> Whole(disk, BlockFile(h))
    BY <1>1 DEF IInv
  <2>2. UNCHANGED applied /\ cut \subseteq cut'
    BY <1>1
  <2> QED BY <1>8, <2>1, <2>2, AppSame
<1>12. TypeOK'
  BY <1>1, <1>3 DEF IInv, TypeOK, PCs
<1> QED BY <1>4, <1>6, <1>7, <1>10, <1>11, <1>12 DEF IInv

\* GetLatestBlockHeight: all up to it is accounted for, as no call has blocks.
LEMMA LocalHeightKeeps == ASSUME IInv, NEW c \in Calls, GetLocalHeight(c) PROVE IInv'
<1>1. /\ Goes(c, "getLocal", "getTarget")
      /\ localHeight' = [localHeight EXCEPT ![c] = LatestBlockHeight(disk)]
      /\ UNCHANGED <<syncing, height, target, blocks, hand, disk, applied, peerHeight>>
      /\ UNCHANGED <<missed, cut, behind>>
  BY DEF GetLocalHeight, lost
<1>2. localHeight'[c] = LatestBlockHeight(disk) /\ LatestBlockHeight(disk) \in 0 .. MaxHeight
      /\ \A d \in Calls : d # c => Unmoved(d)
  BY <1>1, LatestFact DEF IInv, TypeOK, Unmoved
<1>3. blocks[c] = {}
  BY <1>1 DEF IInv, CallOK, InBatch, Goes
<1>4. /\ OneAtATime' /\ NoHoles' /\ StoredIsApplied' /\ pc' \in [Calls -> PCs]
      /\ pc[c] = "getLocal" /\ pc'[c] = "getTarget"
      /\ \A d \in Calls : d # c => CallOK(d)' /\ LoopOK(d)'
      /\ Accounted \subseteq Accounted' /\ CallOK(c)
  BY <1>1, <1>2, <1>3, QuietKeeps DEF PCs
<1>5. 1 .. LatestBlockHeight(disk) \subseteq Accounted
  <2>1. \A d \in Calls : blocks[d] = {}
    BY <1>3, <1>4, OnlyWorker
  <2> QED BY <2>1 DEF IInv, NoHoles
<1>6. 1 .. localHeight'[c] \subseteq Accounted'
  BY <1>2, <1>4, <1>5
<1>7. CallOK(c)' /\ LoopOK(c)'
  <2>1. blocks'[c] = {} /\ 1 .. height'[c] - 1 \subseteq Accounted'
    BY <1>1, <1>3, <1>4 DEF CallOK
  <2>2. CallOK(c)'
    BY <1>4, <1>6, <2>1 DEF CallOK, InBatch
  <2> QED BY <1>4, <2>2 DEF LoopOK, InBatch, Early
<1>8. TypeOK'
  <2>1. localHeight' \in [Calls -> 0 .. MaxHeight]
    BY <1>1, <1>2 DEF IInv, TypeOK
  <2> QED BY <1>1, <1>4, <2>1 DEF IInv, TypeOK, PCs
<1> QED BY <1>4, <1>7, <1>8 DEF IInv

\* The peer's latest checkpoint is a height.
LEMMA LatestCheckpoint ==
  ASSUME IInv, PeerCheckpoints # {}
  PROVE  Max(PeerCheckpoints) \in Heights
<1>1. PeerCheckpoints \subseteq Heights /\ PeerCheckpoints \subseteq 0 .. MaxHeight
  BY MaxHeightAssumption DEF PeerCheckpoints, IInv, TypeOK, Heights
<1> QED BY <1>1, MaxFact

\* The checkpoint that is being saved stands for all heights up to its own.
LEMMA CheckpointCovers ==
  ASSUME NEW k \in Heights, Exists(disk', CheckpointFile(k))
  PROVE  1 .. k \subseteq Accounted'
<1>1. ASSUME NEW h \in 1 .. k PROVE h \in Heights /\ k >= h
  BY MaxHeightAssumption DEF Heights
<1> QED BY <1>1 DEF Accounted

LEMMA CheckpointKeeps == ASSUME IInv, NEW c \in Calls, GetCheckpoints(c) PROVE IInv'
<1>1. PICK k : k = Max(PeerCheckpoints)
  OBVIOUS
<1>2. /\ Goes(c, "getCheckpoints", "saveCheckpoint") /\ PeerCheckpoints # {}
      /\ localHeight' = [localHeight EXCEPT ![c] = k]
      /\ disk' = [disk EXCEPT ![CheckpointFile(k)] = Torn]
      /\ UNCHANGED <<syncing, height, target, blocks, hand, applied, peerHeight>>
      /\ UNCHANGED <<missed, cut, behind>>
  BY <1>1 DEF GetCheckpoints, Truncate, lost
<1>3. k \in Heights /\ k \in 1 .. MaxHeight
  BY <1>1, <1>2, LatestCheckpoint DEF Heights
<1>4. /\ FilesOK(disk')
      /\ Exists(disk', CheckpointFile(k))
      /\ \A h \in Heights : disk'[BlockFile(h)] = disk[BlockFile(h)]
      /\ \A h \in Heights : Exists(disk, CheckpointFile(h)) => Exists(disk', CheckpointFile(h))
  <2>1. TypeOK
    BY DEF IInv
  <2> QED BY <1>2, <1>3, <2>1, WriteCheckpoint
<1>5. /\ "saveCheckpoint" \in PCs \ {"idle", "writing", "stored"}
      /\ UNCHANGED <<syncing, applied, cut, behind>> /\ missed \subseteq missed'
  BY <1>2 DEF PCs
<1>6. localHeight'[c] = k /\ \A d \in Calls : d # c => Unmoved(d)
  BY <1>2 DEF IInv, TypeOK, Unmoved
<1>7. blocks[c] = {}
  BY <1>2 DEF IInv, CallOK, InBatch, Goes
<1>8. /\ OneAtATime' /\ NoHoles' /\ StoredIsApplied' /\ pc' \in [Calls -> PCs]
      /\ pc[c] = "getCheckpoints" /\ pc'[c] = "saveCheckpoint"
      /\ \A d \in Calls : d # c => CallOK(d)' /\ LoopOK(d)'
      /\ Accounted \subseteq Accounted' /\ CallOK(c)
  <2>1. /\ Goes(c, "getCheckpoints", "saveCheckpoint")
        /\ "getCheckpoints" \notin {"idle", "writing", "stored"}
    BY <1>2
  <2> QED BY <1>4, <1>5, <1>6, <1>7, <2>1, QuietKeeps
<1>9. 1 .. localHeight'[c] \subseteq Accounted'
  BY <1>3, <1>4, <1>6, CheckpointCovers
<1>10. CallOK(c)' /\ LoopOK(c)'
  <2>1. blocks'[c] = {} /\ 1 .. height'[c] - 1 \subseteq Accounted'
    BY <1>2, <1>7, <1>8 DEF CallOK
  <2>2. CallOK(c)'
    BY <1>3, <1>6, <1>8, <1>9, <2>1 DEF CallOK, InBatch
  <2> QED BY <1>8, <2>2 DEF LoopOK, InBatch, Early
<1>11. TypeOK'
  <2>1. localHeight' \in [Calls -> 0 .. MaxHeight]
    BY <1>2, <1>3, MaxHeightAssumption DEF IInv, TypeOK
  <2> QED BY <1>2, <1>4, <1>8, <2>1 DEF IInv, TypeOK, PCs, FilesOK
<1> QED BY <1>8, <1>10, <1>11 DEF IInv

LEMMA CheckpointSavedKeeps ==
  ASSUME IInv, NEW c \in Calls, Goes(c, "saveCheckpoint", "getTarget"),
         disk' = WriteFile(disk, CheckpointFile(localHeight[c]), localHeight[c]),
         UNCHANGED <<syncing, loop, applied, peerHeight, lost>>
  PROVE  IInv'
<1>1. PICK k : k = localHeight[c]
  OBVIOUS
<1>2. /\ Goes(c, "saveCheckpoint", "getTarget")
      /\ disk' = [disk EXCEPT ![CheckpointFile(k)] = k]
      /\ UNCHANGED <<syncing, localHeight, height, target, blocks, hand, applied, peerHeight>>
      /\ UNCHANGED <<missed, cut, behind>>
  BY <1>1 DEF WriteFile, loop, lost
<1>3. k \in Heights /\ blocks[c] = {}
  BY <1>1, <1>2 DEF Goes, IInv, CallOK, InBatch
<1>4. /\ FilesOK(disk')
      /\ \A h \in Heights : disk'[BlockFile(h)] = disk[BlockFile(h)]
      /\ \A h \in Heights : Exists(disk, CheckpointFile(h)) => Exists(disk', CheckpointFile(h))
  <2>1. TypeOK
    BY DEF IInv
  <2> QED BY <1>2, <1>3, <2>1, WriteCheckpoint
<1>5. /\ "getTarget" \in PCs \ {"idle", "writing", "stored"}
      /\ UNCHANGED <<syncing, applied, cut, behind>> /\ missed \subseteq missed'
  BY <1>2 DEF PCs
<1>6. /\ OneAtATime' /\ NoHoles' /\ StoredIsApplied' /\ pc' \in [Calls -> PCs]
      /\ pc[c] = "saveCheckpoint" /\ pc'[c] = "getTarget"
      /\ \A d \in Calls : d # c => CallOK(d)' /\ LoopOK(d)'
      /\ Accounted \subseteq Accounted' /\ CallOK(c)
  <2>1. \A d \in Calls : d # c => Unmoved(d)
    BY <1>2 DEF Unmoved
  <2>2. Goes(c, "saveCheckpoint", "getTarget") /\ "saveCheckpoint" \notin {"idle", "writing", "stored"}
    BY <1>2
  <2> QED BY <1>3, <1>4, <1>5, <2>1, <2>2, QuietKeeps
<1>7. CallOK(c)' /\ LoopOK(c)'
  <2>1. /\ blocks'[c] = {} /\ 1 .. height'[c] - 1 \subseteq Accounted'
        /\ 1 .. localHeight'[c] \subseteq Accounted'
    BY <1>2, <1>3, <1>6 DEF CallOK, Early
  <2>2. CallOK(c)'
    BY <1>6, <2>1 DEF CallOK, InBatch
  <2> QED BY <1>6, <2>2 DEF LoopOK, InBatch, Early
<1>8. TypeOK'
  BY <1>2, <1>4, <1>6 DEF IInv, TypeOK, PCs, FilesOK
<1> QED BY <1>6, <1>7, <1>8 DEF IInv

\* GetLatestHeight of the peer; the loop starts above the local height.
LEMMA TargetKeeps == ASSUME IInv, NEW c \in Calls, GetTarget(c) PROVE IInv'
<1>1. PICK to \in {"nothing", "batch"} :
        /\ Goes(c, "getTarget", to)
        /\ to = "batch" => localHeight[c] < peerHeight
  BY MaxHeightAssumption DEF GetTarget, IInv, TypeOK
<1>2. /\ target' = [target EXCEPT ![c] = peerHeight]
      /\ height' = [height EXCEPT ![c] = localHeight[c] + 1]
      /\ UNCHANGED <<syncing, localHeight, blocks, hand, disk, applied, peerHeight>>
      /\ UNCHANGED <<missed, cut, behind>>
  BY DEF GetTarget, lost
<1>3. /\ blocks[c] = {} /\ peerHeight \in Nat
      /\ localHeight[c] \in 0 .. MaxHeight /\ localHeight[c] \in Nat
  BY <1>1, MaxHeightAssumption DEF IInv, TypeOK, CallOK, InBatch, Goes
<1>4. /\ OneAtATime' /\ NoHoles' /\ StoredIsApplied' /\ pc' \in [Calls -> PCs]
      /\ pc[c] = "getTarget" /\ pc'[c] = to
      /\ \A d \in Calls : d # c => CallOK(d)' /\ LoopOK(d)'
      /\ Accounted \subseteq Accounted' /\ CallOK(c)
  <2>1. \A d \in Calls : d # c => Unmoved(d)
    BY <1>2 DEF Unmoved
  <2> QED BY <1>1, <1>2, <1>3, <2>1, QuietKeeps DEF PCs
<1>5. target'[c] = peerHeight /\ height'[c] = localHeight[c] + 1 /\ localHeight'[c] = localHeight[c]
  BY <1>2 DEF IInv, TypeOK
<1>6. CallOK(c)'
  <2>1. to = "batch" => height'[c] <= target'[c] + 1
    BY <1>1, <1>3, <1>5
  <2>2. blocks'[c] = {} /\ 1 .. height'[c] - 1 \subseteq Accounted'
    BY <1>2, <1>3, <1>4, <1>5 DEF CallOK, Early
  <2> QED BY <1>4, <2>1, <2>2 DEF CallOK, InBatch, Early
<1>7. LoopOK(c)'
  <2>1. localHeight'[c] < height'[c] /\ localHeight'[c] + 1 .. height'[c] - 1 = {}
    BY <1>3, <1>5
  <2> QED BY <1>4, <2>1 DEF LoopOK, InBatch
<1>8. TypeOK'
  <2>1. height' \in [Calls -> 1 .. MaxHeight + 1] /\ target' \in [Calls -> 0 .. MaxHeight]
    BY <1>2, <1>3, MaxHeightAssumption DEF IInv, TypeOK
  <2> QED BY <1>2, <1>4, <2>1 DEF IInv, TypeOK, PCs
<1> QED BY <1>4, <1>6, <1>7, <1>8 DEF IInv

\* GetBlocks of the peer: what the answer leaves out is missed.
LEMMA BlocksKeep == ASSUME IInv, NEW c \in Calls, GetBlocks(c) PROVE IInv'
<1>1. PICK last \in EndHeight(c) .. MaxHeight :
      \E left \in SUBSET ((height[c] .. last) \cap PeerMisses) :
        /\ blocks' = [blocks EXCEPT ![c] = (height[c] .. last) \ left]
        /\ missed' = missed \cup left
  BY DEF GetBlocks
<1>1a. PICK left \in SUBSET ((height[c] .. last) \cap PeerMisses) :
        /\ blocks' = [blocks EXCEPT ![c] = (height[c] .. last) \ left]
        /\ missed' = missed \cup left
  BY <1>1
<1>2. /\ Goes(c, "batch", "blocks") /\ height[c] <= target[c]
      /\ UNCHANGED <<syncing, localHeight, height, target, hand, disk, applied, peerHeight>>
      /\ UNCHANGED <<cut, behind>>
  BY DEF GetBlocks, MoreBatches
<1>3. /\ blocks'[c] = (height[c] .. last) \ left
      /\ \A d \in Calls : d # c => Unmoved(d)
  BY <1>1a, <1>2 DEF IInv, TypeOK, Unmoved
<1>4. blocks[c] = {}
  BY <1>2 DEF IInv, CallOK, InBatch, Goes
<1>5. /\ OneAtATime' /\ NoHoles' /\ StoredIsApplied' /\ pc' \in [Calls -> PCs]
      /\ pc[c] = "batch" /\ pc'[c] = "blocks"
      /\ \A d \in Calls : d # c => CallOK(d)' /\ LoopOK(d)'
      /\ Accounted \subseteq Accounted' /\ CallOK(c) /\ LoopOK(c)
  <2>1. "blocks" \in PCs \ {"idle", "writing", "stored"} /\ missed \subseteq missed'
    BY <1>1a DEF PCs
  <2>2. /\ \A h \in Heights : disk'[BlockFile(h)] = disk[BlockFile(h)]
        /\ \A k \in Heights : Exists(disk, CheckpointFile(k)) => Exists(disk', CheckpointFile(k))
    BY <1>2
  <2> QED BY <1>2, <1>3, <1>4, <2>1, <2>2, QuietKeeps
<1>6. EndHeight(c)' = EndHeight(c) /\ EndHeight(c) \in Heights
  BY <1>2, EndFact DEF EndHeight
<1>7. /\ last \in Nat /\ last <= MaxHeight /\ EndHeight(c) <= last
      /\ height[c] \in Nat /\ 1 <= height[c]
  BY <1>6, MaxHeightAssumption DEF IInv, TypeOK, Heights
<1>8. height[c] .. last \subseteq Heights
  BY <1>7, MaxHeightAssumption DEF Heights
<1>9. left \subseteq Accounted'
  BY <1>1a, <1>8 DEF Accounted
<1>10. CallOK(c)'
  <2>1. 1 .. height'[c] - 1 \subseteq Accounted'
    BY <1>2, <1>5 DEF CallOK
  <2>2. height'[c] <= target'[c] /\ \A b \in blocks'[c] : height'[c] <= b
    BY <1>2, <1>3, <1>7
  <2>3. ASSUME NEW h \in Answered(c)' PROVE h \in blocks'[c] \cup Accounted'
    <3>1. h \in height[c] .. MaxHeight /\ (h <= EndHeight(c) \/ \E b \in blocks'[c] : h <= b)
      BY <1>2, <1>6 DEF Answered
    <3>2. h <= last
      BY <1>3, <1>6, <1>7, <3>1, MaxHeightAssumption DEF Heights
    <3>3. h \in height[c] .. last
      BY <1>7, <3>1, <3>2, MaxHeightAssumption
    <3> QED BY <1>3, <1>9, <3>3
  <2> QED BY <1>5, <2>1, <2>2, <2>3 DEF CallOK, InBatch, Early
<1>11. LoopOK(c)'
  <2>1. /\ localHeight'[c] < height'[c]
        /\ \A h \in (localHeight'[c] + 1 .. height'[c] - 1) \ PeerMisses : Got(h)'
    BY <1>2, <1>5 DEF LoopOK, Early, Got
  <2>2. \A h \in (height'[c] .. EndHeight(c)') \ PeerMisses : h \in blocks'[c]
    <3>1. \A h \in height[c] .. EndHeight(c) : h \in height[c] .. last
      BY <1>6, <1>7, MaxHeightAssumption DEF Heights
    <3> QED BY <1>1a, <1>2, <1>3, <1>6, <3>1
  <2> QED BY <2>1, <2>2 DEF LoopOK
<1>12. TypeOK'
  <2>1. blocks' \in [Calls -> SUBSET Heights] /\ missed' \subseteq Heights
    BY <1>1a, <1>8 DEF IInv, TypeOK
  <2> QED BY <1>2, <1>5, <2>1 DEF IInv, TypeOK, PCs
<1> QED BY <1>5, <1>10, <1>11, <1>12 DEF IInv

\* The batch is processed: all its heights are accounted for.
LEMMA EndBatchKeeps == ASSUME IInv, NEW c \in Calls, EndBatch(c) PROVE IInv'
<1>1. /\ Goes(c, "blocks", "batch") /\ blocks[c] = {}
      /\ height' = [height EXCEPT ![c] = EndHeight(c) + 1]
      /\ UNCHANGED <<syncing, localHeight, target, blocks, hand, disk, applied, peerHeight>>
      /\ UNCHANGED <<missed, cut, behind>>
  BY DEF EndBatch, NextHeight, lost
<1>2. height'[c] = EndHeight(c) + 1
      /\ \A d \in Calls : d # c => Unmoved(d)
  BY <1>1 DEF IInv, TypeOK, Unmoved
<1>3. /\ OneAtATime' /\ NoHoles' /\ StoredIsApplied' /\ pc' \in [Calls -> PCs]
      /\ pc[c] = "blocks" /\ pc'[c] = "batch"
      /\ \A d \in Calls : d # c => CallOK(d)' /\ LoopOK(d)'
      /\ Accounted \subseteq Accounted' /\ CallOK(c) /\ LoopOK(c)
  BY <1>1, <1>2, QuietKeeps DEF PCs
<1>4. /\ height[c] <= target[c]
      /\ Answered(c) \subseteq Accounted
      /\ 1 .. height[c] - 1 \subseteq Accounted
  BY <1>1, <1>3 DEF CallOK, InBatch
<1>5. EndHeight(c) \in Heights /\ height[c] <= EndHeight(c) /\ EndHeight(c) <= target[c]
  BY <1>4, EndFact
<1>6. /\ height[c] \in Nat /\ target[c] \in Nat /\ EndHeight(c) \in Nat
      /\ localHeight[c] \in Nat /\ EndHeight(c) <= MaxHeight
      /\ EndHeight(c) + 1 \in 1 .. MaxHeight + 1
  BY <1>5, MaxHeightAssumption DEF IInv, TypeOK, Heights
<1>7. 1 .. height'[c] - 1 \subseteq Accounted'
  <2>1. \A h \in 1 .. EndHeight(c) : h \in 1 .. height[c] - 1 \/ h \in Answered(c)
    BY <1>6, MaxHeightAssumption DEF Answered
  <2>2. 1 .. EndHeight(c) \subseteq Accounted
    BY <1>4, <2>1
  <2> QED BY <1>2, <1>3, <1>6, <2>2
<1>8. CallOK(c)'
  <2>1. height'[c] <= target'[c] + 1 /\ blocks'[c] = {}
    BY <1>1, <1>2, <1>5, <1>6
  <2> QED BY <1>3, <1>7, <2>1 DEF CallOK, InBatch, Early
<1>9. LoopOK(c)'
  <2>1. localHeight'[c] < height'[c]
    BY <1>1, <1>2, <1>3, <1>5, <1>6 DEF LoopOK, Early
  <2>2. ASSUME NEW h \in (localHeight'[c] + 1 .. height'[c] - 1) \ PeerMisses PROVE Got(h)'
    <3>1. h \in localHeight[c] + 1 .. height[c] - 1 \/ h \in height[c] .. EndHeight(c)
      BY <1>1, <1>2, <1>6
    <3>2. Got(h)
      BY <1>1, <1>3, <3>1 DEF LoopOK, Early, InBatch
    <3> QED BY <1>1, <3>2 DEF Got
  <2> QED BY <1>3, <2>1, <2>2 DEF LoopOK, InBatch
<1>10. TypeOK'
  <2>1. height' \in [Calls -> 1 .. MaxHeight + 1]
    BY <1>1, <1>6 DEF IInv, TypeOK
  <2> QED BY <1>1, <1>3, <2>1 DEF IInv, TypeOK, PCs
<1> QED BY <1>3, <1>8, <1>9, <1>10 DEF IInv

\* onSyncComplete is called.
LEMMA CompleteKeeps == ASSUME IInv, NEW c \in Calls, Complete(c) PROVE IInv'
<1>1. /\ Goes(c, "batch", "complete") /\ ~(height[c] <= target[c])
      /\ UNCHANGED <<syncing, localHeight, height, target, blocks, hand, disk, applied, peerHeight>>
      /\ UNCHANGED <<missed, cut, behind>>
  BY DEF Complete, MoreBatches, loop, lost
<1>2. blocks[c] = {} /\ \A d \in Calls : d # c => Unmoved(d)
  BY <1>1 DEF IInv, CallOK, InBatch, Goes, Unmoved
<1>3. /\ OneAtATime' /\ NoHoles' /\ StoredIsApplied' /\ pc' \in [Calls -> PCs]
      /\ pc[c] = "batch" /\ pc'[c] = "complete"
      /\ \A d \in Calls : d # c => CallOK(d)' /\ LoopOK(d)'
      /\ Accounted \subseteq Accounted' /\ CallOK(c) /\ LoopOK(c)
  BY <1>1, <1>2, QuietKeeps DEF PCs
<1>4. CallOK(c)'
  <2>1. target[c] < height[c]
    BY <1>1, MaxHeightAssumption DEF IInv, TypeOK
  <2>2. blocks'[c] = {} /\ 1 .. height'[c] - 1 \subseteq Accounted'
    BY <1>1, <1>2, <1>3 DEF CallOK
  <2> QED BY <1>1, <1>3, <2>1, <2>2 DEF CallOK, InBatch, Early
<1>5. LoopOK(c)'
  BY <1>1, <1>3 DEF LoopOK, InBatch, Early, Got
<1>6. TypeOK'
  BY <1>1, <1>3 DEF IInv, TypeOK, PCs
<1> QED BY <1>3, <1>4, <1>5, <1>6 DEF IInv

-----------------------------------------------------------------------------
(***************************************************************************)
(* processBlock: the file is truncated, filled, and the block handed over. *)
(***************************************************************************)

\* Of the blocks in progress there is only the one in hand, and only the call
\* at work has blocks to process.
LEMMA OnlyInHand ==
  ASSUME IInv, NEW c \in Calls, pc[c] # "idle"
  PROVE  \A h : /\ InProgress(h) => h = hand[c] /\ pc[c] \in {"writing", "stored"}
                /\ Pending(h) => h \in blocks[c]
<1>1. \A d \in Calls : d # c => pc[d] = "idle" /\ blocks[d] = {}
  BY OnlyWorker
<1> QED BY <1>1 DEF InProgress, Pending

\* SaveBlock opens the file: a block that was on disk is not, for now.
LEMMA OpenKeeps == ASSUME IInv, NEW c \in Calls, OpenBlock(c) PROVE IInv'
<1>1. PICK b \in blocks[c] : hand' = [hand EXCEPT ![c] = b]
                          /\ disk' = [disk EXCEPT ![BlockFile(b)] = Torn]
  BY DEF OpenBlock, Truncate
<1>2. /\ Goes(c, "blocks", "writing")
      /\ UNCHANGED <<syncing, localHeight, height, target, blocks, applied, peerHeight>>
      /\ UNCHANGED <<missed, cut, behind>>
  BY DEF OpenBlock, lost
<1>3. b \in Heights /\ hand'[c] = b
  BY <1>1 DEF IInv, TypeOK
<1>4. /\ FilesOK(disk') /\ disk'[BlockFile(b)] = Torn /\ Torn # NoFile
      /\ \A h \in Heights : h # b => disk'[BlockFile(h)] = disk[BlockFile(h)]
      /\ \A h \in Heights : disk'[CheckpointFile(h)] = disk[CheckpointFile(h)]
  <2>1. TypeOK
    BY DEF IInv
  <2> QED BY <1>1, <1>3, <2>1, WriteBlock
<1>5. /\ pc[c] = "blocks" /\ pc'[c] = "writing" /\ pc' \in [Calls -> PCs] /\ OneAtATime'
      /\ \A d \in Calls : d # c => CallOK(d)' /\ LoopOK(d)'
  <2>1. "writing" \in PCs /\ UNCHANGED syncing
        /\ \A d \in Calls : d # c => Unmoved(d)
    BY <1>2 DEF PCs, Unmoved
  <2> QED BY <1>2, <2>1, WorkStep
<1>6. \A h \in Accounted : h # b => h \in Accounted'
  <2> SUFFICES ASSUME NEW h \in Accounted, h # b PROVE h \in Accounted'
    OBVIOUS
  <2>1. Whole(disk, BlockFile(h)) => Whole(disk', BlockFile(h))
    BY <1>4 DEF Whole, Accounted
  <2>2. \A k \in Heights : Exists(disk, CheckpointFile(k)) => Exists(disk', CheckpointFile(k))
    BY <1>4 DEF Exists
  <2>3. missed \subseteq missed' /\ cut \subseteq cut' /\ behind \subseteq behind'
    BY <1>2
  <2> QED BY <2>1, <2>2, <2>3, AccountedGrows
<1>7. /\ height[c] <= target[c]
      /\ \A x \in blocks[c] : height[c] <= x
      /\ Answered(c) \ blocks[c] \subseteq Accounted
      /\ 1 .. height[c] - 1 \subseteq Accounted
  BY <1>5 DEF IInv, CallOK, InBatch
<1>8. height[c] \in Nat /\ b \in Nat /\ height[c] <= b /\ b <= MaxHeight
  BY <1>1, <1>3, <1>7, MaxHeightAssumption DEF IInv, TypeOK, Heights
<1>9. \A h \in 1 .. b : h \in Accounted \cup blocks[c]
  <2> SUFFICES ASSUME NEW h \in 1 .. b PROVE h \in Accounted \cup blocks[c]
    OBVIOUS
  <2>1. h \in 1 .. height[c] - 1 \/ h \in Answered(c)
    BY <1>1, <1>8, MaxHeightAssumption DEF Answered
  <2> QED BY <1>7, <2>1
<1>10. EndHeight(c)' = EndHeight(c)
  BY <1>2 DEF EndHeight
<1>11. CallOK(c)'
  <2>1. Answered(c)' = Answered(c)
    BY <1>2, <1>10 DEF Answered
  <2>2. Answered(c)' \ blocks'[c] \subseteq Accounted'
    BY <1>1, <1>2, <1>6, <1>7, <2>1
  <2>3. 1 .. height'[c] - 1 \subseteq Accounted'
    BY <1>2, <1>6, <1>7, <1>8
  <2>4. Exists(disk', BlockFile(hand'[c])) /\ hand'[c] \in blocks'[c]
    BY <1>1, <1>2, <1>3, <1>4 DEF Exists
  <2>5. height'[c] <= target'[c] /\ \A x \in blocks'[c] : height'[c] <= x
    BY <1>2, <1>7
  <2> QED BY <1>5, <2>2, <2>3, <2>4, <2>5 DEF CallOK, InBatch, Early
<1>12. LoopOK(c)'
  <2>1. /\ localHeight[c] < height[c]
        /\ \A h \in (localHeight[c] + 1 .. height[c] - 1) \ PeerMisses : Got(h)
        /\ \A h \in (height[c] .. EndHeight(c)) \ PeerMisses : h \in blocks[c] \/ Got(h)
    BY <1>5 DEF IInv, LoopOK, Early, InBatch
  <2>2. \A h \in Heights : Got(h) /\ h # b => Got(h)'
    BY <1>2, <1>4 DEF Got, Whole
  <2>3. localHeight[c] \in Nat /\ height[c] \in 1 .. MaxHeight + 1 /\ EndHeight(c) \in Heights
    BY <1>7, EndFact, MaxHeightAssumption DEF IInv, TypeOK
  <2>4. \A h \in localHeight[c] + 1 .. height[c] - 1 : h \in Heights /\ h # b
    BY <1>8, <2>3, MaxHeightAssumption DEF Heights
  <2>5. \A h \in height[c] .. EndHeight(c) : h \in Heights
    BY <2>3, MaxHeightAssumption DEF Heights
  <2>6. \A h \in (localHeight'[c] + 1 .. height'[c] - 1) \ PeerMisses : Got(h)'
    BY <1>2, <2>1, <2>2, <2>4
  <2>7. \A h \in (height'[c] .. EndHeight(c)') \ PeerMisses : h \in blocks'[c] \/ Got(h)'
    BY <1>1, <1>2, <1>10, <2>1, <2>2, <2>5
  <2>8. localHeight'[c] < height'[c]
    BY <1>2, <2>1
  <2> QED BY <2>6, <2>7, <2>8 DEF LoopOK
<1>13. InProgress(b)' /\ \A h \in blocks[c] : Pending(h)'
  BY <1>2, <1>3, <1>5 DEF Pending, InProgress
<1>14. NoHoles'
  <2>1. PICK new : new = LatestBlockHeight(disk')
    OBVIOUS
  <2>2. /\ new \in 0 .. MaxHeight
        /\ new # 0 => Exists(disk', BlockFile(new))
    BY <2>1, LatestFact
  <2>3. new = b \/ new <= LatestBlockHeight(disk)
    <3>1. CASE new = 0
      BY <3>1, LatestFact, MaxHeightAssumption
    <3>2. CASE new # 0 /\ new # b
      <4>1. new \in Heights
        BY <2>2, <3>2, MaxHeightAssumption DEF Heights
      <4>2. Exists(disk, BlockFile(new))
        BY <1>4, <2>2, <3>2, <4>1 DEF Exists
      <4> QED BY <4>1, <4>2, LatestFact
    <3> QED BY <3>1, <3>2
  <2>4. ASSUME NEW h \in 1 .. new PROVE h \in Accounted' \/ Pending(h)'
    <3>1. h \in 1 .. b \/ h \in 1 .. LatestBlockHeight(disk)
      BY <1>8, <2>2, <2>3, LatestFact, MaxHeightAssumption
    <3>2. h \in 1 .. LatestBlockHeight(disk) => h \in Accounted \/ Pending(h)
      BY DEF IInv, NoHoles, Pending
    <3>3. Pending(h) => h \in blocks[c]
      BY <1>5, OnlyInHand
    <3> QED BY <1>1, <1>6, <1>9, <1>13, <3>1, <3>2, <3>3
  <2> QED BY <2>1, <2>4 DEF NoHoles, Pending
<1>15. StoredIsApplied'
  <2> SUFFICES ASSUME NEW h \in Heights
               PROVE  \/ Whole(disk', BlockFile(h)) <=> h \in applied'
                      \/ h \in cut'
                      \/ InProgress(h)'
    BY DEF StoredIsApplied, InProgress
  <2>1. CASE h = b
    BY <1>13, <2>1
  <2>2. CASE h # b
    <3>1. ~InProgress(h)
      BY <1>5, OnlyInHand
    <3>2. (Whole(disk, BlockFile(h)) <=> h \in applied) \/ h \in cut
      BY <3>1 DEF IInv, StoredIsApplied, InProgress
    <3> QED BY <1>2, <1>4, <2>2, <3>2 DEF Whole
  <2> QED BY <2>1, <2>2
<1>16. TypeOK'
  <2>1. hand' \in [Calls -> 0 .. MaxHeight]
    BY <1>1, <1>3, MaxHeightAssumption DEF IInv, TypeOK, Heights
  <2> QED BY <1>2, <1>4, <1>5, <2>1 DEF IInv, TypeOK, PCs, FilesOK
<1> QED BY <1>5, <1>11, <1>12, <1>14, <1>15, <1>16 DEF IInv

\* SaveBlock has filled the file.
LEMMA SavedKeeps ==
  ASSUME IInv, NEW c \in Calls, Goes(c, "writing", "stored"),
         disk' = WriteFile(disk, BlockFile(hand[c]), hand[c]),
         UNCHANGED <<syncing, loop, applied, peerHeight, lost>>
  PROVE  IInv'
<1>1. PICK b : b = hand[c]
  OBVIOUS
<1>2. /\ disk' = [disk EXCEPT ![BlockFile(b)] = b]
      /\ UNCHANGED <<localHeight, height, target, blocks, hand>>
      /\ UNCHANGED <<missed, cut, behind>>
  BY <1>1 DEF WriteFile, loop, lost
<1>3. /\ pc[c] = "writing" /\ pc'[c] = "stored" /\ pc' \in [Calls -> PCs] /\ OneAtATime'
      /\ \A d \in Calls : d # c => CallOK(d)' /\ LoopOK(d)'
  <2>1. "stored" \in PCs /\ UNCHANGED syncing
        /\ \A d \in Calls : d # c => Unmoved(d)
    BY <1>2 DEF PCs, Unmoved
  <2> QED BY <2>1, WorkStep
<1>4. b \in blocks[c] /\ Exists(disk, BlockFile(b)) /\ b \in Heights
  <2>1. Exists(disk, BlockFile(b))
    BY <1>1, <1>3 DEF IInv, CallOK
  <2> QED BY <1>1, <1>3, <2>1, InHandFact
<1>5. /\ FilesOK(disk') /\ disk'[BlockFile(b)] = b /\ b # NoFile
      /\ \A h \in Heights : h # b => disk'[BlockFile(h)] = disk[BlockFile(h)]
      /\ \A h \in Heights : disk'[CheckpointFile(h)] = disk[CheckpointFile(h)]
  <2>1. TypeOK
    BY DEF IInv
  <2> QED BY <1>2, <1>4, <2>1, WriteBlock
<1>6. Whole(disk', BlockFile(b))
  BY <1>4, <1>5, FileAssumption, MaxHeightAssumption DEF Whole, Heights
<1>7. \A h \in Heights : Whole(disk, BlockFile(h)) => Whole(disk', BlockFile(h))
  BY <1>5, <1>6 DEF Whole
<1>8. Accounted \subseteq Accounted'
  <2> SUFFICES ASSUME NEW h \in Accounted PROVE h \in Accounted'
    OBVIOUS
  <2>1. Whole(disk, BlockFile(h)) => Whole(disk', BlockFile(h))
    BY <1>7 DEF Accounted
  <2>2. \A k \in Heights : Exists(disk, CheckpointFile(k)) => Exists(disk', CheckpointFile(k))
    BY <1>5 DEF Exists
  <2>3. missed \subseteq missed' /\ cut \subseteq cut' /\ behind \subseteq behind'
    BY <1>2
  <2> QED BY <2>1, <2>2, <2>3, AccountedGrows
<1>9. NoHoles'
  <2>1. NoHoles /\ \A k \in Heights : Exists(disk', BlockFile(k)) => Exists(disk, BlockFile(k))
    BY <1>4, <1>5 DEF IInv, Exists
  <2>2. \A h : Pending(h) => Pending(h)'
    BY <1>2 DEF Pending
  <2> QED BY <1>8, <2>1, <2>2, NoNewFile
<1>10. StoredIsApplied'
  <2> SUFFICES ASSUME NEW h \in Heights
               PROVE  \/ Whole(disk', BlockFile(h)) <=> h \in applied'
                      \/ h \in cut'
                      \/ InProgress(h)'
    BY DEF StoredIsApplied, InProgress
  <2>1. CASE h = b
    BY <1>1, <1>2, <1>3, <2>1 DEF InProgress
  <2>2. CASE h # b
    <3>1. ~InProgress(h)
      BY <1>1, <1>3, <2>2, OnlyInHand
    <3>2. (Whole(disk, BlockFile(h)) <=> h \in applied) \/ h \in cut
      BY <3>1 DEF IInv, StoredIsApplied, InProgress
    <3> QED BY <1>2, <1>5, <2>2, <3>2 DEF Whole
  <2> QED BY <2>1, <2>2
<1>11. EndHeight(c)' = EndHeight(c)
  BY <1>2 DEF EndHeight
<1>12. CallOK(c)'
  <2>1. /\ height[c] <= target[c] /\ \A x \in blocks[c] : height[c] <= x
        /\ Answered(c) \ blocks[c] \subseteq Accounted
        /\ 1 .. height[c] - 1 \subseteq Accounted
    BY <1>3 DEF IInv, CallOK, InBatch
  <2>2. Answered(c)' = Answered(c)
    BY <1>2, <1>11 DEF Answered
  <2>3. /\ height'[c] <= target'[c] /\ \A x \in blocks'[c] : height'[c] <= x
        /\ Answered(c)' \ blocks'[c] \subseteq Accounted'
        /\ 1 .. height'[c] - 1 \subseteq Accounted'
        /\ hand'[c] \in blocks'[c]
    BY <1>1, <1>2, <1>4, <1>8, <2>1, <2>2
  <2>4. Whole(disk', BlockFile(hand'[c]))
    BY <1>1, <1>2, <1>6
  <2> QED BY <1>3, <2>3, <2>4 DEF CallOK, InBatch, Early
<1>13. LoopOK(c)'
  <2>1. /\ localHeight[c] < height[c]
        /\ \A h \in (localHeight[c] + 1 .. height[c] - 1) \ PeerMisses : Got(h)
        /\ \A h \in (height[c] .. EndHeight(c)) \ PeerMisses : h \in blocks[c] \/ Got(h)
    BY <1>3 DEF IInv, LoopOK, Early, InBatch
  <2>2. \A h \in Heights : Got(h) => Got(h)'
    BY <1>7 DEF Got
  <2>3. Got(b)' <=> b \in applied
    BY <1>6 DEF Got
  <2>4. \A h : Got(h) => h \in Heights
    BY DEF Got, IInv, TypeOK
  <2> QED BY <1>2, <1>11, <2>1, <2>2, <2>4 DEF LoopOK
<1>14. TypeOK'
  <2>1. UNCHANGED <<syncing, applied, peerHeight>>
    OBVIOUS
  <2> QED BY <1>2, <1>3, <1>5, <2>1 DEF IInv, TypeOK, PCs, FilesOK
<1> QED BY <1>3, <1>9, <1>10, <1>12, <1>13, <1>14 DEF IInv

\* onBlockReceived has taken the block.
LEMMA ReceivedKeeps ==
  ASSUME IInv, NEW c \in Calls, Handled(c), applied' = applied \cup {hand[c]}
  PROVE  IInv'
<1>1. PICK b : b = hand[c]
  OBVIOUS
<1>2. /\ Goes(c, "stored", "blocks")
      /\ blocks' = [blocks EXCEPT ![c] = @ \ {b}] /\ hand' = [hand EXCEPT ![c] = 0]
      /\ UNCHANGED <<syncing, localHeight, height, target, disk, peerHeight>>
      /\ UNCHANGED <<missed, cut, behind>>
  BY <1>1 DEF Handled, lost
<1>3. /\ blocks'[c] = blocks[c] \ {b}
      /\ \A d \in Calls : d # c => Unmoved(d)
  BY <1>2 DEF IInv, TypeOK, Unmoved
<1>4. /\ pc[c] = "stored" /\ pc'[c] = "blocks" /\ pc' \in [Calls -> PCs] /\ OneAtATime'
      /\ \A d \in Calls : d # c => CallOK(d)' /\ LoopOK(d)'
  <2>1. "blocks" \in PCs /\ UNCHANGED syncing
    BY <1>2 DEF PCs
  <2> QED BY <1>2, <1>3, <2>1, WorkStep
<1>5. Whole(disk, BlockFile(b)) /\ b \in Heights
  <2>1. Whole(disk, BlockFile(b))
    BY <1>1, <1>4 DEF IInv, CallOK
  <2> QED BY <1>1, <1>4, <2>1, InHandFact
<1>6. Accounted' = Accounted /\ b \in Accounted
  BY <1>2, <1>5 DEF Accounted
<1>7. NoHoles'
  <2>1. NoHoles /\ \A k \in Heights : Exists(disk', BlockFile(k)) => Exists(disk, BlockFile(k))
    BY <1>2 DEF IInv
  <2>2. \A h : Pending(h) => h = b \/ Pending(h)'
    <3>1. \A h : Pending(h) => h \in blocks[c]
      BY <1>4, OnlyInHand
    <3> QED BY <1>3, <3>1 DEF Pending
  <2> QED BY <1>6, <2>1, <2>2, NoNewFile
<1>8. StoredIsApplied'
  <2> SUFFICES ASSUME NEW h \in Heights
               PROVE  (Whole(disk, BlockFile(h)) <=> h \in applied \cup {b}) \/ h \in cut
    BY <1>1, <1>2 DEF StoredIsApplied
  <2>1. CASE h = b
    BY <1>5, <2>1
  <2>2. CASE h # b
    <3>1. ~InProgress(h)
      BY <1>1, <1>4, <2>2, OnlyInHand
    <3> QED BY <2>2, <3>1 DEF IInv, StoredIsApplied, InProgress
  <2> QED BY <2>1, <2>2
<1>9. EndHeight(c)' = EndHeight(c)
  BY <1>2 DEF EndHeight
<1>10. CallOK(c)'
  <2>1. /\ height[c] <= target[c] /\ \A x \in blocks[c] : height[c] <= x
        /\ Answered(c) \ blocks[c] \subseteq Accounted
        /\ 1 .. height[c] - 1 \subseteq Accounted
    BY <1>4 DEF IInv, CallOK, InBatch
  <2>2. Answered(c)' \subseteq Answered(c)
    BY <1>2, <1>3, <1>9 DEF Answered
  <2>3. /\ height'[c] <= target'[c] /\ \A x \in blocks'[c] : height'[c] <= x
        /\ Answered(c)' \ blocks'[c] \subseteq Accounted'
        /\ 1 .. height'[c] - 1 \subseteq Accounted'
    BY <1>2, <1>3, <1>6, <2>1, <2>2
  <2> QED BY <1>4, <2>3 DEF CallOK, InBatch, Early
<1>11. LoopOK(c)'
  <2>1. /\ localHeight[c] < height[c]
        /\ \A h \in (localHeight[c] + 1 .. height[c] - 1) \ PeerMisses : Got(h)
        /\ \A h \in (height[c] .. EndHeight(c)) \ PeerMisses : h \in blocks[c] \/ Got(h)
    BY <1>4 DEF IInv, LoopOK, Early, InBatch
  <2>2. Got(b)' /\ \A h : Got(h) => Got(h)'
    BY <1>1, <1>2, <1>5 DEF Got
  <2> QED BY <1>2, <1>3, <1>9, <2>1, <2>2 DEF LoopOK
<1>12. TypeOK'
  <2>1. /\ blocks' \in [Calls -> SUBSET Heights] /\ applied' \subseteq Heights
        /\ hand' \in [Calls -> 0 .. MaxHeight]
    BY <1>1, <1>2, <1>5, MaxHeightAssumption DEF IInv, TypeOK
  <2> QED BY <1>2, <1>4, <2>1 DEF IInv, TypeOK, PCs
<1> QED BY <1>4, <1>7, <1>8, <1>10, <1>11, <1>12 DEF IInv

-----------------------------------------------------------------------------
(***************************************************************************)
(* The theorems.                                                           *)
(***************************************************************************)

\* The peer executes a block, or nothing happens.
LEMMA OutsideKeeps == ASSUME IInv, PeerGrows \/ UNCHANGED vars PROVE IInv'
<1>1. /\ UNCHANGED <<syncing, pc, localHeight, height, target, blocks, hand, disk, applied>>
      /\ UNCHANGED <<missed, cut, behind>>
  BY DEF PeerGrows, vars, loop, lost
<1>2. peerHeight' \in 0 .. MaxHeight
  BY MaxHeightAssumption DEF PeerGrows, vars, IInv, TypeOK
<1>3. TypeOK'
  BY <1>1, <1>2 DEF IInv, TypeOK
<1>4. /\ Accounted' = Accounted
      /\ \A c \in Calls : EndHeight(c)' = EndHeight(c)
      /\ \A h : Got(h)' <=> Got(h)
  BY <1>1 DEF Accounted, EndHeight, Got
<1>5. OneAtATime' /\ NoHoles' /\ StoredIsApplied'
  BY <1>1, <1>4 DEF IInv, OneAtATime, Working, NoHoles, StoredIsApplied
<1>6. \A c \in Calls : CallOK(c)'
  BY <1>1, <1>4 DEF IInv, CallOK, Answered
<1>7. \A c \in Calls : LoopOK(c)'
  BY <1>1, <1>4 DEF IInv, LoopOK
<1> QED BY <1>3, <1>5, <1>6, <1>7 DEF IInv

LEMMA StepKeeps == IInv /\ [Next]_vars => IInv'
<1> SUFFICES ASSUME IInv, [Next]_vars PROVE IInv'
  OBVIOUS
<1>1. ASSUME NEW c \in Calls, NEW from \in PCs \ {"idle", "writing", "stored"},
             Return(c, from), UNCHANGED cut
      PROVE  IInv'
  BY <1>1, ReturnKeeps
<1>2. ASSUME NEW c \in Calls, NEW from \in {"writing", "stored"},
             Return(c, from), cut' = cut \cup {hand[c]}
      PROVE  IInv'
  BY <1>2, ReturnKeeps
<1>3. ASSUME NEW c \in Calls, Start(c) PROVE IInv'
  BY <1>3, BeginKeeps DEF Start
<1>4. ASSUME NEW c \in Calls, Fails(c) \/ NoCheckpoints(c) \/ BatchFails(c) \/ Finish(c)
      PROVE  IInv'
  BY <1>1, <1>4 DEF Fails, NoCheckpoints, BatchFails, Finish, PCs
<1>5. ASSUME NEW c \in Calls, SaveCheckpoint(c) PROVE IInv'
  BY <1>1, <1>5, CheckpointSavedKeeps DEF SaveCheckpoint, PCs
<1>6. ASSUME NEW c \in Calls, SaveBlock(c) PROVE IInv'
  BY <1>1, <1>2, <1>6, SavedKeeps DEF SaveBlock, PCs
<1>7. ASSUME NEW c \in Calls, OnBlockReceived(c) PROVE IInv'
  BY <1>2, <1>7, ReceivedKeeps DEF OnBlockReceived
<1>8. ASSUME NEW c \in Calls, Step(c) PROVE IInv'
  BY <1>4, <1>5, <1>6, <1>7, <1>8, LocalHeightKeeps, CheckpointKeeps, TargetKeeps,
     BlocksKeep, OpenKeeps, EndBatchKeeps, CompleteKeeps DEF Step
<1> QED BY <1>3, <1>8, CrashKeeps, OutsideKeeps DEF Next

LEMMA InitKeeps == Init => IInv
<1> SUFFICES ASSUME Init PROVE IInv
  OBVIOUS
<1>1. TypeOK
  <2>1. disk = [f \in Files |-> NoFile]
    BY DEF Init, EmptyDisk
  <2>2. FilesOK(disk)
    BY <2>1, FileNames DEF FilesOK
  <2>3. /\ syncing = FALSE /\ pc \in [Calls -> PCs]
        /\ height \in [Calls -> 1 .. MaxHeight + 1]
        /\ {localHeight, target, hand} \subseteq [Calls -> 0 .. MaxHeight]
        /\ blocks \in [Calls -> SUBSET Heights]
    BY MaxHeightAssumption DEF Init, PCs
  <2>4. applied = {} /\ missed = {} /\ cut = {} /\ behind = {} /\ peerHeight \in 0 .. MaxHeight
    BY DEF Init
  <2> QED BY <2>2, <2>3, <2>4 DEF TypeOK, FilesOK, PCs
<1>2. OneAtATime
  BY DEF Init, OneAtATime, Working
<1>3. \A h \in Heights : ~Exists(disk, BlockFile(h))
  BY FileNames DEF Init, EmptyDisk, Exists
<1>4. LatestBlockHeight(disk) = 0
  <2>1. LatestBlockHeight(disk) \notin Heights
    BY <1>3, LatestFact, MaxHeightAssumption DEF Heights
  <2> QED BY <2>1, LatestFact, MaxHeightAssumption DEF Heights
<1>5. NoHoles
  BY <1>4 DEF NoHoles
<1>6. StoredIsApplied
  BY <1>3 DEF Init, StoredIsApplied, Whole, Exists
<1>7. ASSUME NEW c \in Calls PROVE CallOK(c) /\ LoopOK(c)
  <2>1. /\ pc[c] = "idle" /\ height[c] = 1 /\ blocks[c] = {} /\ localHeight[c] = 0
        /\ 1 .. height[c] - 1 = {} /\ 1 .. localHeight[c] = {}
    BY DEF Init
  <2>2. CallOK(c)
    BY <2>1 DEF CallOK, InBatch
  <2> QED BY <2>1, <2>2 DEF LoopOK, InBatch, Early
<1> QED BY <1>1, <1>2, <1>5, <1>6, <1>7 DEF IInv

LEMMA SyncInvariant == Spec => []IInv
BY InitKeeps, StepKeeps, PTL DEF Spec

\* Every variable of the syncer keeps its type and every file its content.
THEOREM SyncTypeCorrect == Spec => []TypeOK
<1>1. IInv => TypeOK
  BY DEF IInv
<1> QED BY <1>1, SyncInvariant, PTL

\* One call of Sync or SyncFromCheckpoint works at a time and the flag is set
\* exactly while one does, for any number of callers, failures and crashes.
THEOREM SyncExclusive == Spec => []OneAtATime
<1>1. IInv => OneAtATime
  BY DEF IInv
<1> QED BY <1>1, SyncInvariant, PTL

\* Below the highest block on disk every height is accounted for or about to be
\* processed, for every batch size, answer, order of its blocks, failure, crash
\* and checkpoint (Sync's height and endHeight).
THEOREM SyncWithoutHoles == Spec => []NoHoles
<1>1. IInv => NoHoles
  BY DEF IInv
<1> QED BY <1>1, SyncInvariant, PTL

\* When onSyncComplete is called all the heights the call has worked for that
\* the peer has are on disk and with the application.
THEOREM SyncComplete == Spec => []CompleteIsComplete
<1>1. IInv => CompleteIsComplete
  <2> SUFFICES ASSUME IInv, NEW c \in Calls, pc[c] = "complete",
                      NEW h \in (localHeight[c] + 1 .. target[c]) \ PeerMisses
               PROVE  Got(h)
    BY DEF CompleteIsComplete, Got
  <2>1. /\ target[c] < height[c]
        /\ target[c] \in 0 .. MaxHeight /\ height[c] \in 1 .. MaxHeight + 1
        /\ localHeight[c] \in 0 .. MaxHeight
    BY DEF IInv, CallOK, TypeOK
  <2>2. h \in localHeight[c] + 1 .. height[c] - 1
    BY <2>1, MaxHeightAssumption
  <2> QED BY <2>2 DEF IInv, LoopOK, Early
<1> QED BY <1>1, SyncInvariant, PTL

\* The application gets every block on disk and no other, but for those whose
\* processing was cut short (processBlock, onBlockReceived).
THEOREM SyncStoredIsApplied == Spec => []StoredIsApplied
<1>1. IInv => StoredIsApplied
  BY DEF IInv
<1> QED BY <1>1, SyncInvariant, PTL
=============================================================================
