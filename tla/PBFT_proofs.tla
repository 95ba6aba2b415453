---------------------------- MODULE PBFT_proofs -----------------------------
(***************************************************************************)
(* Theorems about PBFT, for every set of validators, every window and      *)
(* checkpoint interval and all values of the bounds: the types, and the    *)
(* quorums behind the votes, the commits and the executions.               *)
(***************************************************************************)
EXTENDS PBFT, FiniteSetTheorems, TLAPS

-----------------------------------------------------------------------------
(***************************************************************************)
(* Facts about the operators.                                              *)
(***************************************************************************)

\* There is at least one validator.
LEMMA NodeCount == Cardinality(Node) \in Nat /\ Cardinality(Node) >= 1
<1>1. Cardinality(Node) \in Nat
  BY NodeFinite, FS_CardinalityType
<1>2. Cardinality(Node) # 0
  BY NodeFinite, FS_EmptySet, ValidatorsAssumption
<1> QED BY <1>1, <1>2

\* The primary of a view is a validator (getPrimaryID never indexes outside the
\* validator list).
LEMMA PrimaryType == \A v \in Nat : Primary(v) \in Node
<1> SUFFICES ASSUME NEW v \in Nat PROVE Primary(v) \in Node
  OBVIOUS
<1> DEFINE N == Cardinality(Node)
<1>1. (v % N) \in 0 .. N - 1
  BY NodeCount
<1>2. (v % N) + 1 \in 1 .. N
  BY <1>1, NodeCount
<1> QED BY <1>2, ValidatorsAssumption DEF Primary

\* QuorumSize is a natural number.
LEMMA QuorumType == Quorum \in Nat
  BY NodeCount DEF Quorum, QuorumSize

\* By how much two quorums of n exceed n: f+1, f or f-1 for n = 3f+1, 3f+2 or 3f+3.
\* Only the first leaves more than f (QuorumSize's integer division).
LEMMA QuorumExcess ==
  ASSUME NEW n \in Nat, n >= 1
  PROVE  2 * QuorumSize(n) - n = (n - 1) \div 3 + 1 - ((n - 1) % 3)
<1> DEFINE f == (n - 1) \div 3
           r == (n - 1) % 3
<1>1. n - 1 = 3 * f + r /\ f \in Nat /\ r \in 0 .. 2
  OBVIOUS
<1>2. QuorumSize(n) = 2 * f + 1
  BY DEF QuorumSize
<1> HIDE DEF f, r
<1>3. 2 * QuorumSize(n) - n = f + 1 - r
  BY <1>1, <1>2
<1> QED BY <1>3 DEF f, r

\* Two sets of 2f+1 validators have at least as many in common as two quorums
\* exceed their number.
LEMMA QuorumsMeet ==
  ASSUME NEW A \in SUBSET Node, Cardinality(A) >= Quorum,
         NEW B \in SUBSET Node, Cardinality(B) >= Quorum
  PROVE  /\ Cardinality(A \cap B) \in Nat
         /\ Cardinality(A \cap B) >= 2 * Quorum - Cardinality(Node)
<1>1. /\ IsFiniteSet(A) /\ IsFiniteSet(B) /\ IsFiniteSet(A \cap B)
      /\ IsFiniteSet(A \cup B) /\ Cardinality(A \cup B) <= Cardinality(Node)
  <2>1. A \cap B \in SUBSET Node /\ A \cup B \in SUBSET Node
    OBVIOUS
  <2> QED BY <2>1, NodeFinite, FS_Subset
<1>2. Cardinality(A \cup B) = Cardinality(A) + Cardinality(B) - Cardinality(A \cap B)
  BY <1>1, FS_Union
<1>3. /\ Cardinality(A) \in Nat /\ Cardinality(B) \in Nat
      /\ Cardinality(A \cap B) \in Nat /\ Cardinality(A \cup B) \in Nat
  BY <1>1, FS_CardinalityType
<1> QED BY <1>1, <1>2, <1>3, NodeCount, QuorumType

\* The operations of a State give a State.
LEMMA StateOps ==
  ASSUME NEW st \in States, NEW b \in Blocks, NEW k \in Node, NEW vote \in Votes
  PROVE  /\ SetPrePrepare(st, b) \in States
         /\ AddPrepare(st, k, vote) \in States
         /\ AddCommit(st, k, vote) \in States
         /\ [st EXCEPT !.executed = TRUE] \in States
         /\ [st EXCEPT !.phase = Prepared] \in States
         /\ [st EXCEPT !.phase = Committed] \in States
<1>1. PrePrepared \in Phase /\ Prepared \in Phase /\ Committed \in Phase
  BY DEF PrePrepared, Prepared, Phase, Idle, Committed
<1> QED BY <1>1 DEF States, SetPrePrepare, AddPrepare, AddCommit

\* So does GetState on a well-formed log.
LEMMA GetStateType ==
  ASSUME NEW log \in [Seqs -> States \cup {NoState}], NEW b \in Blocks
  PROVE  GetState(log, b) \in States
<1>1. NewState(b) \in States
  BY DEF NewState, States, Phase, Idle, Committed
<1>2. b.height \in Seqs
  BY DEF Blocks
<1> QED BY <1>1, <1>2 DEF GetState

\* The type of a message tells its kind.
LEMMA MessageKinds ==
  ASSUME NEW m \in Messages
  PROVE  /\ m.type \in {"PrePrepare", "Prepare", "Commit"} => m \in PhaseMsgs
         /\ m.type = "ViewChange" => m \in ViewChangeMsgs
         /\ m.type = "NewView" => m \in NewViewMsgs
  BY DEF Messages, PhaseMsgs, ViewChangeMsgs, NewViewMsgs

\* Well-formed arguments give a well-formed message.
LEMMA PhaseMsgType ==
  ASSUME NEW t \in {"PrePrepare", "Prepare", "Commit"}, NEW n \in Node,
         NEW v \in Views, NEW b \in Blocks
  PROVE  /\ PhaseMsg(t, n, v, b) \in PhaseMsgs
         /\ PhaseMsg(t, n, v, b) \in Messages
         /\ Vote(v, b) \in Votes
  BY DEF PhaseMsg, PhaseMsgs, Messages, Vote, Votes

\* Delivering a message and broadcasting well-formed replies keeps the network
\* well-formed.
LEMMA NetworkType ==
  ASSUME TypeOK, NEW n \in Node, NEW m \in Pending(n), NEW reply, reply \subseteq Messages,
         Deliver(n, m, reply) \/ Broadcast(reply)
  PROVE  sent' \subseteq Messages /\ received' \in [Node -> SUBSET Messages]
  BY DEF TypeOK, Deliver, Broadcast, Pending

-----------------------------------------------------------------------------
(***************************************************************************)
(* Type correctness.                                                       *)
(***************************************************************************)

\* A log stays well-formed when one entry becomes a State.
LEMMA LogUpdate ==
  ASSUME TypeOK, NEW n \in Node, NEW s \in Seqs, NEW st \in States
  PROVE  [stateLog EXCEPT ![n][s] = st] \in [Node -> [Seqs -> States \cup {NoState}]]
  BY DEF TypeOK

\* proposeBlock keeps every variable well-formed.
LEMMA ProposeBlockType ==
  ASSUME TypeOK, NEW n \in Node, NEW tx \in Txs, ProposeBlock(n, tx)
  PROVE  TypeOK'
<1> DEFINE s == sequenceNum[n] + 1
           b == [height |-> s, view |-> view[n], tx |-> tx, prev |-> LastHeight(n)]
           st == SetPrePrepare(GetState(stateLog[n], b), b)
<1>1. LastHeight(n) \in 0 .. MaxSeq
  <2> DEFINE c == committedBlocks[n]
  <2>1. c \in Seq(Blocks)
    BY DEF TypeOK
  <2>2. CASE c = <<>>
    BY <2>2, BoundsAssumption DEF LastHeight
  <2>3. CASE c # <<>>
    <3>1. c[Len(c)] \in Blocks
      BY <2>1, <2>3
    <3> QED BY <3>1, <2>3, BoundsAssumption DEF Blocks, Seqs, LastHeight
  <2> QED BY <2>2, <2>3
<1>2. b \in Blocks
  BY <1>1 DEF ProposeBlock, NextSequence, TypeOK, Blocks
<1>3. stateLog[n] \in [Seqs -> States \cup {NoState}] /\ view[n] \in Views
  BY DEF TypeOK
<1>4. /\ Vote(view[n], b) \in Votes
      /\ PhaseMsg("PrePrepare", n, view[n], b) \in Messages
  BY <1>2, <1>3, PhaseMsgType
<1>5. AddPrepare(st, n, Vote(view[n], b)) \in States
  <2>1. GetState(stateLog[n], b) \in States
    BY <1>2, <1>3, GetStateType
  <2>2. st \in States
    BY <2>1, <1>2, <1>4, StateOps
  <2> QED BY <2>2, <1>2, <1>4, StateOps
<1>6. s \in Seqs /\ s \in 0 .. MaxSeq
  BY BoundsAssumption DEF ProposeBlock, NextSequence, Seqs
<1>7. stateLog' \in [Node -> [Seqs -> States \cup {NoState}]]
  BY <1>5, <1>6, LogUpdate DEF ProposeBlock, NextSequence
<1>8. sent' \subseteq Messages /\ received' \in [Node -> SUBSET Messages]
  BY <1>4 DEF ProposeBlock, NextSequence, Broadcast, TypeOK
<1> QED BY <1>6, <1>7, <1>8 DEF ProposeBlock, NextSequence, TypeOK, vcmVars

\* handlePrePrepare keeps every variable well-formed.
LEMMA HandlePrePrepareType ==
  ASSUME TypeOK, NEW n \in Node, NEW m \in Pending(n), HandlePrePrepare(n, m)
  PROVE  TypeOK'
<1> DEFINE st == SetPrePrepare(GetState(stateLog[n], m.block), m.block)
<1>1. m \in PhaseMsgs
  BY MessageKinds DEF TypeOK, Pending, HandlePrePrepare
<1>2. m.block \in Blocks /\ m.view \in Views /\ m.block.height \in Seqs
  BY <1>1 DEF PhaseMsgs, Blocks
<1>3. /\ Vote(m.view, m.block) \in Votes
      /\ PhaseMsg("Prepare", n, m.view, m.block) \in Messages
  BY <1>2, PhaseMsgType
<1>4. AddPrepare(st, n, Vote(m.view, m.block)) \in States
  <2>1. GetState(stateLog[n], m.block) \in States
    BY <1>2, GetStateType DEF TypeOK
  <2>2. st \in States
    BY <2>1, <1>2, <1>3, StateOps
  <2> QED BY <2>2, <1>2, <1>3, StateOps
<1>5. stateLog' \in [Node -> [Seqs -> States \cup {NoState}]]
  BY <1>4, <1>2, LogUpdate DEF HandlePrePrepare
<1>6. sent' \subseteq Messages /\ received' \in [Node -> SUBSET Messages]
  <2> DEFINE reply == {PhaseMsg("Prepare", n, m.view, m.block)}
  <2>1. reply \subseteq Messages /\ Deliver(n, m, reply)
    BY <1>3 DEF HandlePrePrepare
  <2> QED BY <2>1, NetworkType
<1> QED BY <1>5, <1>6 DEF HandlePrePrepare, TypeOK, vcmVars

\* What handlePrepare leaves is a State.
LEMMA AfterPrepareType ==
  ASSUME TypeOK, NEW n \in Node, NEW m \in PhaseMsgs, TakesVote(n, m)
  PROVE  AfterPrepare(n, m) \in States
<1> DEFINE st == AddPrepare(stateLog[n][m.block.height], m.from, Vote(m.view, m.block))
<1>1. m.block \in Blocks /\ m.view \in Views /\ m.block.height \in Seqs /\ m.from \in Node
  BY DEF PhaseMsgs, Blocks
<1>2. stateLog[n][m.block.height] \in States
  BY <1>1 DEF TypeOK, TakesVote
<1>3. Vote(m.view, m.block) \in Votes
  BY <1>1, PhaseMsgType
<1>4. st \in States
  BY <1>1, <1>2, <1>3, StateOps
<1>5. [st EXCEPT !.phase = Prepared] \in States
  BY <1>4, <1>1, <1>3, StateOps
<1>6. AddCommit([st EXCEPT !.phase = Prepared], n, Vote(m.view, m.block)) \in States
  BY <1>5, <1>1, <1>3, StateOps
<1> QED BY <1>4, <1>6 DEF AfterPrepare

\* handlePrepare keeps every variable well-formed.
LEMMA HandlePrepareType ==
  ASSUME TypeOK, NEW n \in Node, NEW m \in Pending(n), HandlePrepare(n, m)
  PROVE  TypeOK'
<1>1. m \in PhaseMsgs
  BY MessageKinds DEF TypeOK, Pending, HandlePrepare
<1>2. m.block \in Blocks /\ m.view \in Views /\ m.block.height \in Seqs
  BY <1>1 DEF PhaseMsgs, Blocks
<1>3. AfterPrepare(n, m) \in States
  BY <1>1, AfterPrepareType DEF HandlePrepare
<1>4. stateLog' \in [Node -> [Seqs -> States \cup {NoState}]]
  BY <1>3, <1>2, LogUpdate DEF HandlePrepare
<1>5. sent' \subseteq Messages /\ received' \in [Node -> SUBSET Messages]
  <2>1. PhaseMsg("Commit", n, m.view, m.block) \in Messages
    BY <1>2, PhaseMsgType
  <2>2. PICK reply : Deliver(n, m, reply) /\ reply \subseteq Messages
    BY <2>1 DEF HandlePrepare
  <2> QED BY <2>2, NetworkType
<1> QED BY <1>4, <1>5 DEF HandlePrepare, TypeOK, vcmVars

\* handleCommit, with executeBlock and createCheckpoint, keeps every variable
\* well-formed.
LEMMA HandleCommitType ==
  ASSUME TypeOK, NEW n \in Node, NEW m \in Pending(n), HandleCommit(n, m)
  PROVE  TypeOK'
<1> DEFINE s == m.block.height
           st == AddCommit(stateLog[n][s], m.from, Vote(m.view, m.block))
           committed == [st EXCEPT !.phase = Committed]
           executed == [committed EXCEPT !.executed = TRUE]
           log == [stateLog[n] EXCEPT ![s] = executed]
<1>1. m \in PhaseMsgs
  BY MessageKinds DEF TypeOK, Pending, HandleCommit
<1>2. m.block \in Blocks /\ m.view \in Views /\ s \in Seqs /\ m.from \in Node
  BY <1>1 DEF PhaseMsgs, Blocks
<1>3. st \in States /\ committed \in States /\ executed \in States
  <2>1. stateLog[n][s] \in States
    BY <1>2 DEF TypeOK, TakesVote, HandleCommit
  <2>2. Vote(m.view, m.block) \in Votes
    BY <1>2, PhaseMsgType
  <2>3. st \in States
    BY <1>2, <2>1, <2>2, StateOps
  <2>4. committed \in States
    BY <1>2, <2>2, <2>3, StateOps
  <2> QED BY <1>2, <2>2, <2>3, <2>4, StateOps
<1>4. log \in [Seqs -> States \cup {NoState}]
  BY <1>2, <1>3 DEF TypeOK
<1> DEFINE Good == /\ stateLog' \in [Node -> [Seqs -> States \cup {NoState}]]
                   /\ lowWaterMark' \in [Node -> 0 .. MaxSeq]
                   /\ checkpoints' \in [Node -> SUBSET Seqs]
                   /\ committedBlocks' \in [Node -> Seq(Blocks)]
<1>5. ASSUME ExecuteBlock(n, s, committed) PROVE Good
  <2>1. committedBlocks' \in [Node -> Seq(Blocks)]
    BY <1>3, <1>5 DEF ExecuteBlock, TypeOK, States
  <2>2. CASE s % CheckpointInterval = 0
    <3>1. CreateCheckpoint(n, s, log)
      BY <1>5, <2>2 DEF ExecuteBlock
    <3>2. CollectGarbage(log, lowWaterMark[n], s) \in [Seqs -> States \cup {NoState}]
      BY <1>4 DEF CollectGarbage
    <3>3. KeepNewest(checkpoints[n] \cup {s}) \subseteq Seqs
      BY <1>2 DEF KeepNewest, TypeOK
    <3>4. s \in 0 .. MaxSeq
      BY <1>2, BoundsAssumption DEF Seqs
    <3> QED BY <2>1, <3>1, <3>2, <3>3, <3>4 DEF CreateCheckpoint, TypeOK
  <2>3. CASE s % CheckpointInterval # 0
    <3>1. /\ stateLog' = [stateLog EXCEPT ![n] = log]
          /\ UNCHANGED <<checkpoints, lowWaterMark>>
      BY <1>5, <2>3 DEF ExecuteBlock
    <3> HIDE DEF log
    <3> QED BY <1>4, <2>1, <3>1 DEF TypeOK
  <2> QED BY <2>2, <2>3
<1>6. ASSUME ExecuteNothing(n, s, committed) PROVE Good
  BY <1>2, <1>3, <1>6, LogUpdate DEF ExecuteNothing, TypeOK
<1>7. ASSUME stateLog' = [stateLog EXCEPT ![n][s] = st],
             UNCHANGED <<committedBlocks, checkpoints, lowWaterMark>>
      PROVE  Good
  BY <1>2, <1>3, <1>7, LogUpdate DEF TypeOK
<1>8. Good
  BY <1>5, <1>6, <1>7 DEF HandleCommit
<1>9. sent' \subseteq Messages /\ received' \in [Node -> SUBSET Messages]
  <2>1. Deliver(n, m, {})
    BY DEF HandleCommit
  <2> QED BY <2>1, NetworkType
<1> QED BY <1>8, <1>9 DEF HandleCommit, TypeOK, vcmVars

\* collectPreparedCertificates returns blocks.
LEMMA CertificatesType ==
  ASSUME TypeOK, NEW n \in Node
  PROVE  PreparedCertificates(n) \subseteq Blocks
  BY DEF PreparedCertificates, PreparedSeqs, TypeOK, States

\* The two halves of startViewChange keep every variable well-formed.
LEMMA TimerType ==
  ASSUME TypeOK, NEW n \in Node, TimerFires(n) \/ StartViewChange(n)
  PROVE  TypeOK'
<1>1. CASE TimerFires(n)
  <2>1. view[n] + 1 \in Views
    BY <1>1, BoundsAssumption DEF TimerFires, TypeOK, Views
  <2>2. [type |-> "ViewChange", from |-> n, newView |-> view[n] + 1,
         checkpoints |-> checkpoints[n], preparedSet |-> PreparedCertificates(n)]
          \in ViewChangeMsgs
    BY <2>1, CertificatesType DEF TypeOK, ViewChangeMsgs
  <2> QED BY <1>1, <2>2 DEF TimerFires, TypeOK, engineVars, vcmVars, netVars
<1>2. CASE StartViewChange(n)
  <2>1. timeout[n] \in ViewChangeMsgs
    BY <1>2 DEF StartViewChange, TypeOK
  <2>2. StoreViewChange(viewChangeMsgs[n], timeout[n]) \subseteq ViewChangeMsgs
    BY <2>1 DEF StoreViewChange, TypeOK
  <2>3. timeout' \in [Node -> ViewChangeMsgs \cup {NoTimeout}]
    BY <1>2 DEF StartViewChange, TypeOK
  <2>4. CASE Overtaken(n)
    BY <1>2, <2>3, <2>4 DEF StartViewChange, TypeOK, engineVars, vcmVars, netVars
  <2>5. CASE ~(Overtaken(n))
    <3>1. sent' \subseteq Messages /\ received' \in [Node -> SUBSET Messages]
      BY <1>2, <2>1, <2>5 DEF StartViewChange, Broadcast, TypeOK, Messages
    <3> QED BY <1>2, <2>2, <2>3, <2>5, <3>1 DEF StartViewChange, TypeOK, engineVars
  <2> QED BY <2>4, <2>5
<1> QED BY <1>1, <1>2

\* The view-change sets a new primary computes are sets of blocks.
LEMMA PrePrepareSetsType ==
  ASSUME NEW vcs, vcs \subseteq ViewChangeMsgs, NEW pps \in ComputePrePrepareSets(vcs)
  PROVE  pps \subseteq Blocks
  BY DEF ComputePrePrepareSets, AboveCheckpoints, ReportedPrepared, ViewChangeMsgs

\* Entering a view keeps the manager's variables well-formed.
LEMMA EnterViewType ==
  ASSUME TypeOK, NEW n \in Node, NEW v \in Views, NEW vcs, vcs \subseteq ViewChangeMsgs,
         EnterView(n, v, vcs)
  PROVE  /\ view' \in [Node -> Views]
         /\ vcmView' \in [Node -> Views]
         /\ inProgress' \in [Node -> BOOLEAN]
         /\ viewChangeMsgs' \in [Node -> SUBSET ViewChangeMsgs]
<1>1. {vc \in vcs : vc.newView > v} \subseteq ViewChangeMsgs
  OBVIOUS
<1> QED BY <1>1 DEF EnterView, TypeOK

\* handleViewChange, with broadcastNewView, keeps every variable well-formed.
LEMMA HandleViewChangeType ==
  ASSUME TypeOK, NEW n \in Node, NEW m \in Pending(n), HandleViewChange(n, m)
  PROVE  TypeOK'
<1> DEFINE vcs == StoreViewChange(viewChangeMsgs[n], m)
           quorum == ForView(vcs, m.newView)
           Good == /\ view' \in [Node -> Views]
                   /\ vcmView' \in [Node -> Views]
                   /\ inProgress' \in [Node -> BOOLEAN]
                   /\ viewChangeMsgs' \in [Node -> SUBSET ViewChangeMsgs]
           NetGood == sent' \subseteq Messages /\ received' \in [Node -> SUBSET Messages]
<1>1. m \in ViewChangeMsgs /\ m.newView \in Views
  BY MessageKinds DEF TypeOK, Pending, HandleViewChange, BroadcastNewView, ViewChangeMsgs
<1>2. vcs \subseteq ViewChangeMsgs /\ quorum \subseteq ViewChangeMsgs
  BY <1>1 DEF TypeOK, StoreViewChange, ForView
<1>3. ASSUME viewChangeMsgs' = [viewChangeMsgs EXCEPT ![n] = vcs],
             UNCHANGED <<view, vcmView, inProgress>>
      PROVE  Good
  BY <1>2, <1>3 DEF TypeOK
<1>4. CASE Cardinality(quorum) >= Quorum /\ n = Primary(m.newView)
  <2> DEFINE nv(pps) == [type |-> "NewView", from |-> n, view |-> m.newView,
                         viewChangeMsgs |-> quorum, prePrepares |-> pps]
  <2>1. PICK pps \in ComputePrePrepareSets(quorum) :
          /\ Deliver(n, m, {nv(pps)})
          /\ \/ EnterView(n, m.newView, vcs)
             \/ /\ viewChangeMsgs' = [viewChangeMsgs EXCEPT ![n] = vcs]
                /\ UNCHANGED <<view, vcmView, inProgress>>
    BY <1>4 DEF HandleViewChange, BroadcastNewView
  <2>2. nv(pps) \in Messages
    BY <1>1, <1>2, PrePrepareSetsType DEF Messages, NewViewMsgs
  <2>3. NetGood
    BY <2>1, <2>2, NetworkType
  <2>4. Good
    BY <1>1, <1>2, <1>3, <2>1, EnterViewType
  <2> QED BY <2>3, <2>4 DEF HandleViewChange, BroadcastNewView, TypeOK
<1>5. CASE ~(Cardinality(quorum) >= Quorum /\ n = Primary(m.newView))
  <2>1. Good
    BY <1>3, <1>5 DEF HandleViewChange, BroadcastNewView
  <2>2. Deliver(n, m, {})
    BY <1>5 DEF HandleViewChange, BroadcastNewView
  <2>3. NetGood
    BY <2>2, NetworkType
  <2> QED BY <2>1, <2>3 DEF HandleViewChange, BroadcastNewView, TypeOK
<1> QED BY <1>4, <1>5

\* reprocessPrePrepare keeps a log well-formed.
LEMMA ReprocessType ==
  ASSUME NEW log \in [Seqs -> States \cup {NoState}], NEW pps, pps \subseteq Blocks
  PROVE  Reprocess(log, pps) \in [Seqs -> States \cup {NoState}]
<1> SUFFICES ASSUME NEW s \in Seqs, NEW p \in pps
             PROVE  SetPrePrepare(GetState(log, p), p) \in States
  BY DEF Reprocess
<1>1. GetState(log, p) \in States
  BY GetStateType
<1>2. PrePrepared \in Phase
  BY DEF PrePrepared, Phase, Idle, Committed
<1> QED BY <1>1, <1>2 DEF SetPrePrepare, States

\* handleNewView keeps every variable well-formed.
LEMMA HandleNewViewType ==
  ASSUME TypeOK, NEW n \in Node, NEW m \in Pending(n), HandleNewView(n, m)
  PROVE  TypeOK'
<1> DEFINE reply == {PhaseMsg("Prepare", n, m.view, p) : p \in m.prePrepares}
<1>1. m \in NewViewMsgs
  BY MessageKinds DEF TypeOK, Pending, HandleNewView
<1>2. m.view \in Views /\ m.prePrepares \subseteq Blocks
  BY <1>1 DEF NewViewMsgs
<1>3. reply \subseteq Messages
  BY <1>2, PhaseMsgType
<1>4. sent' \subseteq Messages /\ received' \in [Node -> SUBSET Messages]
  <2>1. Deliver(n, m, reply)
    BY DEF HandleNewView
  <2> QED BY <1>3, <2>1, NetworkType
<1>5. Reprocess(stateLog[n], m.prePrepares) \in [Seqs -> States \cup {NoState}]
  BY <1>2, ReprocessType DEF TypeOK
<1>6. stateLog' \in [Node -> [Seqs -> States \cup {NoState}]]
  BY <1>5 DEF HandleNewView, TypeOK
<1>7. EnterView(n, m.view, viewChangeMsgs[n]) /\ viewChangeMsgs[n] \subseteq ViewChangeMsgs
  BY DEF HandleNewView, TypeOK
<1>8. /\ view' \in [Node -> Views]
      /\ vcmView' \in [Node -> Views]
      /\ inProgress' \in [Node -> BOOLEAN]
      /\ viewChangeMsgs' \in [Node -> SUBSET ViewChangeMsgs]
  BY <1>2, <1>7, EnterViewType
<1> QED BY <1>4, <1>6, <1>8 DEF HandleNewView, TypeOK

\* Every step keeps every variable well-formed.
LEMMA TypeStep == TypeOK /\ [Next]_vars => TypeOK'
<1> SUFFICES ASSUME TypeOK, [Next]_vars PROVE TypeOK'
  OBVIOUS
<1>1. CASE UNCHANGED vars
  BY <1>1 DEF TypeOK, vars, engineVars, vcmVars, netVars
<1>2. ASSUME NEW n \in Node, SkipSequence(n) PROVE TypeOK'
  BY <1>2, BoundsAssumption DEF SkipSequence, NextSequence, TypeOK, Seqs, vcmVars, netVars
<1>3. ASSUME NEW n \in Node, NEW m \in Pending(n), ReturnEarly(n, m) PROVE TypeOK'
  <2>1. Deliver(n, m, {})
    BY <1>3 DEF ReturnEarly
  <2>2. sent' \subseteq Messages /\ received' \in [Node -> SUBSET Messages]
    BY <2>1, NetworkType
  <2> QED BY <1>3, <2>2 DEF ReturnEarly, TypeOK, engineVars, vcmVars
<1>4. ASSUME NEW n \in Node, NEW m \in Pending(n), HandleMessage(n, m) PROVE TypeOK'
  BY <1>3, <1>4, HandlePrePrepareType, HandlePrepareType, HandleCommitType,
     HandleViewChangeType, HandleNewViewType DEF HandleMessage
<1> QED BY <1>1, <1>2, <1>4, ProposeBlockType, TimerType DEF Next

\* Every variable of every node keeps its type, whatever the validators do.
THEOREM TypeCorrect == Spec => []TypeOK
<1>1. Init => TypeOK
  BY BoundsAssumption DEF Init, TypeOK, Views, Seqs
<1> QED BY <1>1, TypeStep, PTL DEF Spec

-----------------------------------------------------------------------------
(***************************************************************************)
(* Messages are never taken back, so what was sent stays sent.             *)
(***************************************************************************)

\* No step removes a message from the broadcasts.
LEMMA SentGrows == [Next]_vars => sent \subseteq sent'
<1> SUFFICES ASSUME [Next]_vars PROVE sent \subseteq sent'
  OBVIOUS
<1>1. ASSUME NEW n, NEW m, NEW reply, Deliver(n, m, reply) PROVE sent \subseteq sent'
  BY <1>1 DEF Deliver
<1>2. ASSUME NEW ms, Broadcast(ms) PROVE sent \subseteq sent'
  BY <1>2 DEF Broadcast
<1>3. CASE UNCHANGED vars
  BY <1>3 DEF vars, netVars
<1>4. ASSUME NEW n, NEW tx, ProposeBlock(n, tx) PROVE sent \subseteq sent'
  BY <1>2, <1>4 DEF ProposeBlock
<1>5. ASSUME NEW n, SkipSequence(n) \/ TimerFires(n) PROVE sent \subseteq sent'
  BY <1>5 DEF SkipSequence, TimerFires, netVars
<1>6. ASSUME NEW n, StartViewChange(n) PROVE sent \subseteq sent'
  BY <1>2, <1>6 DEF StartViewChange, netVars
<1>7. ASSUME NEW n, NEW m, HandleViewChange(n, m) PROVE sent \subseteq sent'
  <2>1. PICK reply : Deliver(n, m, reply)
    BY <1>7 DEF HandleViewChange, BroadcastNewView
  <2> QED BY <2>1, <1>1
<1>8. ASSUME NEW n, NEW m, HandlePrePrepare(n, m) PROVE sent \subseteq sent'
  BY <1>1, <1>8 DEF HandlePrePrepare
<1>9. ASSUME NEW n, NEW m, HandlePrepare(n, m) PROVE sent \subseteq sent'
  BY <1>1, <1>9 DEF HandlePrepare
<1>10. ASSUME NEW n, NEW m, HandleCommit(n, m) PROVE sent \subseteq sent'
  BY <1>1, <1>10 DEF HandleCommit
<1>11. ASSUME NEW n, NEW m, HandleNewView(n, m) PROVE sent \subseteq sent'
  BY <1>1, <1>11 DEF HandleNewView
<1>12. ASSUME NEW n, NEW m, ReturnEarly(n, m) PROVE sent \subseteq sent'
  BY <1>1, <1>12 DEF ReturnEarly
<1> QED BY <1>3, <1>4, <1>5, <1>6, <1>7, <1>8, <1>9, <1>10, <1>11, <1>12
        DEF Next, HandleMessage

\* So the nodes behind a height or a view, and the proposed blocks, only grow.
LEMMA Monotone ==
  ASSUME sent \subseteq sent'
  PROVE  /\ \A h : CommittersOf(h) \subseteq CommittersOf(h)'
         /\ \A h : PreparersOf(h) \subseteq PreparersOf(h)'
         /\ \A v : AskedFor(v) \subseteq AskedFor(v)'
         /\ \A b : Proposed(b) => PhaseMsg("PrePrepare", Primary(b.view), b.view, b) \in sent'
  BY DEF CommittersOf, PreparersOf, AskedFor, Proposed

\* A vote on the network puts its sender among the voters of the height.
LEMMA SentVote ==
  ASSUME NEW n \in Node, NEW v, NEW b, NEW t, PhaseMsg(t, n, v, b) \in sent'
  PROVE  /\ t = "Commit" => n \in CommittersOf(b.height)'
         /\ t \in {"PrePrepare", "Prepare"} => n \in PreparersOf(b.height)'
<1> DEFINE m == PhaseMsg(t, n, v, b)
<1>1. m.type = t /\ m.from = n /\ m.block = b
  BY DEF PhaseMsg
<1> HIDE DEF m
<1>2. m \in sent'
  BY DEF m
<1> QED BY <1>1, <1>2 DEF CommittersOf, PreparersOf

-----------------------------------------------------------------------------
(***************************************************************************)
(* Votes.                                                                  *)
(***************************************************************************)

\* A state st is fit for height s when its voters are among C and P.
EntryOK(st, s, C, P) ==
  /\ st.block.height = s
  /\ Voters(st.commits) \subseteq C
  /\ Voters(st.prepares) \subseteq P

\* VotesWereCast, entry by entry.
LEMMA VotesByEntry ==
  VotesWereCast <=>
    \A n \in Node, s \in Seqs : stateLog[n][s] # NoState =>
      EntryOK(stateLog[n][s], s, CommittersOf(s), PreparersOf(s))
  BY DEF VotesWereCast, EntryOK

\* A fresh pre-prepare brings no votes.
LEMMA EntrySetPrePrepare ==
  ASSUME NEW log \in [Seqs -> States \cup {NoState}], NEW b \in Blocks, NEW C, NEW P,
         log[b.height] # NoState => EntryOK(log[b.height], b.height, C, P)
  PROVE  EntryOK(SetPrePrepare(GetState(log, b), b), b.height, C, P)
<1> DEFINE h == b.height
<1>1. h \in Seqs
  BY DEF Blocks
<1>2. CASE log[h] = NoState
  <2>1. GetState(log, b) = NewState(b)
    BY <1>2 DEF GetState
  <2>2. /\ NewState(b).commits = [k \in Node |-> NoVote]
        /\ NewState(b).prepares = [k \in Node |-> NoVote]
    BY DEF NewState
  <2>3. NewState(b) \in States
    BY DEF NewState, States, Phase, Idle, Committed
  <2>4. /\ SetPrePrepare(NewState(b), b).block = b
        /\ SetPrePrepare(NewState(b), b).commits = NewState(b).commits
        /\ SetPrePrepare(NewState(b), b).prepares = NewState(b).prepares
    BY <2>3 DEF SetPrePrepare, States
  <2> QED BY <2>1, <2>2, <2>4 DEF EntryOK, Voters
<1>3. CASE log[h] # NoState
  <2>1. GetState(log, b) = log[h] /\ log[h] \in States
    BY <1>1, <1>3 DEF GetState
  <2>2. /\ SetPrePrepare(log[h], b).block = b
        /\ SetPrePrepare(log[h], b).commits = log[h].commits
        /\ SetPrePrepare(log[h], b).prepares = log[h].prepares
    BY <2>1 DEF SetPrePrepare, States
  <2> QED BY <1>3, <2>1, <2>2 DEF EntryOK
<1> QED BY <1>2, <1>3

\* A counted vote adds its voter only.
LEMMA EntryAddVote ==
  ASSUME NEW st \in States, NEW s, NEW C, NEW P, EntryOK(st, s, C, P),
         NEW k \in Node, NEW vote
  PROVE  /\ k \in P => EntryOK(AddPrepare(st, k, vote), s, C, P)
         /\ k \in C => EntryOK(AddCommit(st, k, vote), s, C, P)
         /\ \A p : EntryOK([st EXCEPT !.phase = p], s, C, P)
         /\ \A e : EntryOK([st EXCEPT !.executed = e], s, C, P)
<1>1. /\ AddPrepare(st, k, vote).block = st.block
      /\ AddPrepare(st, k, vote).commits = st.commits
      /\ AddPrepare(st, k, vote).prepares = [st.prepares EXCEPT ![k] = vote]
  BY DEF AddPrepare, States
<1>2. /\ AddCommit(st, k, vote).block = st.block
      /\ AddCommit(st, k, vote).prepares = st.prepares
      /\ AddCommit(st, k, vote).commits = [st.commits EXCEPT ![k] = vote]
  BY DEF AddCommit, States
<1>3. st.prepares \in [Node -> Votes \cup {NoVote}] /\ st.commits \in [Node -> Votes \cup {NoVote}]
  BY DEF States
<1>4. k \in P => EntryOK(AddPrepare(st, k, vote), s, C, P)
  BY <1>1, <1>3 DEF EntryOK, Voters
<1>5. k \in C => EntryOK(AddCommit(st, k, vote), s, C, P)
  BY <1>2, <1>3 DEF EntryOK, Voters
<1>6. \A p : EntryOK([st EXCEPT !.phase = p], s, C, P)
  BY DEF EntryOK, States
<1>7. \A e : EntryOK([st EXCEPT !.executed = e], s, C, P)
  BY DEF EntryOK, States
<1> QED BY <1>4, <1>5, <1>6, <1>7

\* A step that changes the log of one node, to entries that are old or fit,
\* keeps VotesWereCast.
LEMMA VotesLogStep ==
  ASSUME TypeOK, VotesWereCast, sent \subseteq sent', NEW n \in Node, NEW log,
         stateLog' = [stateLog EXCEPT ![n] = log],
         \A s \in Seqs : log[s] # NoState =>
           log[s] = stateLog[n][s] \/ EntryOK(log[s], s, CommittersOf(s)', PreparersOf(s)')
  PROVE  VotesWereCast'
<1>1. \A k \in Node, s \in Seqs : stateLog[k][s] # NoState =>
        EntryOK(stateLog[k][s], s, CommittersOf(s)', PreparersOf(s)')
  BY VotesByEntry, Monotone DEF EntryOK
<1>2. \A k \in Node, s \in Seqs : stateLog'[k][s] # NoState =>
        EntryOK(stateLog'[k][s], s, CommittersOf(s)', PreparersOf(s)')
  BY <1>1 DEF TypeOK
<1> QED BY <1>2 DEF VotesWereCast, EntryOK

\* In particular when one entry changes.
LEMMA VotesEntryStep ==
  ASSUME TypeOK, VotesWereCast, sent \subseteq sent', NEW n \in Node, NEW h \in Seqs, NEW st,
         stateLog' = [stateLog EXCEPT ![n][h] = st],
         EntryOK(st, h, CommittersOf(h)', PreparersOf(h)')
  PROVE  VotesWereCast'
<1> DEFINE log == [stateLog[n] EXCEPT ![h] = st]
<1>1. stateLog' = [stateLog EXCEPT ![n] = log]
  BY DEF TypeOK
<1>2. \A s \in Seqs : log[s] # NoState =>
        log[s] = stateLog[n][s] \/ EntryOK(log[s], s, CommittersOf(s)', PreparersOf(s)')
  BY DEF TypeOK
<1> HIDE DEF log
<1> QED BY <1>1, <1>2, VotesLogStep

\* handlePrePrepare and proposeBlock count the node's own PREPARE, which is out.
LEMMA VotesPrePrepare ==
  ASSUME TypeOK, VotesWereCast, sent \subseteq sent', NEW n \in Node, NEW b \in Blocks, NEW vote,
         stateLog' = [stateLog EXCEPT ![n][b.height] =
                        AddPrepare(SetPrePrepare(GetState(stateLog[n], b), b), n, vote)],
         n \in PreparersOf(b.height)'
  PROVE  VotesWereCast'
<1> DEFINE h == b.height
           st == SetPrePrepare(GetState(stateLog[n], b), b)
<1>1. h \in Seqs /\ stateLog[n] \in [Seqs -> States \cup {NoState}]
  BY DEF Blocks, TypeOK
<1>2. stateLog[n][h] # NoState => EntryOK(stateLog[n][h], h, CommittersOf(h)', PreparersOf(h)')
  BY <1>1, VotesByEntry, Monotone DEF EntryOK
<1>3. EntryOK(st, h, CommittersOf(h)', PreparersOf(h)')
  BY <1>1, <1>2, EntrySetPrePrepare
<1>4. st \in States
  <2>1. GetState(stateLog[n], b) \in States
    BY <1>1, GetStateType
  <2>2. PrePrepared \in Phase
    BY DEF PrePrepared, Phase, Idle, Committed
  <2> QED BY <2>1, <2>2 DEF SetPrePrepare, States
<1>5. EntryOK(AddPrepare(st, n, vote), h, CommittersOf(h)', PreparersOf(h)')
  BY <1>3, <1>4, EntryAddVote
<1> QED BY <1>1, <1>5, VotesEntryStep

\* handlePrepare counts a PREPARE it received and a COMMIT it broadcasts.
LEMMA VotesPrepare ==
  ASSUME TypeOK, VotesWereCast, sent \subseteq sent', NEW n \in Node, NEW m \in Pending(n),
         HandlePrepare(n, m)
  PROVE  VotesWereCast'
<1> DEFINE h == m.block.height
           old == stateLog[n][h]
           vote == Vote(m.view, m.block)
           st == AddPrepare(old, m.from, vote)
           prepared == [st EXCEPT !.phase = Prepared]
           C == CommittersOf(h)'
           P == PreparersOf(h)'
<1>1. m \in PhaseMsgs /\ m \in sent /\ m.type = "Prepare"
  BY MessageKinds DEF TypeOK, Pending, HandlePrepare
<1>2. m.block \in Blocks /\ h \in Seqs /\ m.from \in Node /\ vote \in Votes
  BY <1>1, PhaseMsgType DEF PhaseMsgs, Blocks
<1>3. old \in States /\ old # NoState
  BY <1>2 DEF TypeOK, HandlePrepare, TakesVote
<1>4. EntryOK(old, h, C, P)
  BY <1>2, <1>3, VotesByEntry, Monotone DEF EntryOK
<1>5. m.from \in P
  BY <1>1, <1>2 DEF PreparersOf
<1>6. st \in States /\ EntryOK(st, h, C, P)
  <2>1. st \in States
    BY <1>2, <1>3, StateOps
  <2> QED BY <2>1, <1>2, <1>3, <1>4, <1>5, EntryAddVote
<1>7. CASE IsPrepared(st) /\ st.phase = PrePrepared
  <2>1. AfterPrepare(n, m) = AddCommit(prepared, n, vote)
    BY <1>7 DEF AfterPrepare
  <2>2. prepared \in States /\ EntryOK(prepared, h, C, P)
    <3>1. prepared \in States
      BY <1>2, <1>6, StateOps
    <3> QED BY <3>1, <1>2, <1>6, EntryAddVote
  <2>3. AddCommit(prepared, n, vote).phase = Prepared /\ old.phase = PrePrepared
    BY <2>2, <1>3, <1>7 DEF AddCommit, AddPrepare, States
  <2>4. Deliver(n, m, {PhaseMsg("Commit", n, m.view, m.block)})
    BY <2>1, <2>3 DEF HandlePrepare
  <2>5. n \in C
    BY <2>4, SentVote DEF Deliver
  <2>6. EntryOK(AddCommit(prepared, n, vote), h, C, P)
    BY <2>2, <2>5, EntryAddVote
  <2> QED BY <1>2, <2>1, <2>6, VotesEntryStep DEF HandlePrepare
<1>8. CASE ~(IsPrepared(st) /\ st.phase = PrePrepared)
  <2>1. AfterPrepare(n, m) = st
    BY <1>8 DEF AfterPrepare
  <2> QED BY <1>2, <1>6, <2>1, VotesEntryStep DEF HandlePrepare
<1> QED BY <1>7, <1>8

\* handleCommit counts a COMMIT it received; executing and collecting garbage
\* touch no vote.
LEMMA VotesCommit ==
  ASSUME TypeOK, VotesWereCast, sent \subseteq sent', NEW n \in Node, NEW m \in Pending(n),
         HandleCommit(n, m)
  PROVE  VotesWereCast'
<1> DEFINE h == m.block.height
           old == stateLog[n][h]
           st == AddCommit(old, m.from, Vote(m.view, m.block))
           committed == [st EXCEPT !.phase = Committed]
           executed == [committed EXCEPT !.executed = TRUE]
           log == [stateLog[n] EXCEPT ![h] = executed]
           C == CommittersOf(h)'
           P == PreparersOf(h)'
<1>1. m \in PhaseMsgs /\ m \in sent /\ m.type = "Commit"
  BY MessageKinds DEF TypeOK, Pending, HandleCommit
<1>2. m.block \in Blocks /\ h \in Seqs /\ m.from \in Node /\ Vote(m.view, m.block) \in Votes
  BY <1>1, PhaseMsgType DEF PhaseMsgs, Blocks
<1>3. old \in States /\ old # NoState
  BY <1>2 DEF TypeOK, HandleCommit, TakesVote
<1>4. EntryOK(old, h, C, P)
  BY <1>2, <1>3, VotesByEntry, Monotone DEF EntryOK
<1>5. m.from \in C
  BY <1>1, <1>2 DEF CommittersOf
<1>6. st \in States /\ committed \in States
  <2>1. st \in States
    BY <1>2, <1>3, StateOps
  <2> QED BY <2>1, <1>2, StateOps
<1>7. EntryOK(st, h, C, P)
  BY <1>2, <1>3, <1>4, <1>5, EntryAddVote
<1>8. EntryOK(committed, h, C, P)
  BY <1>2, <1>6, <1>7, EntryAddVote
<1>9. EntryOK(executed, h, C, P)
  BY <1>2, <1>6, <1>8, EntryAddVote
<1>10. CASE ExecuteBlock(n, h, committed)
  <2>1. \A s \in Seqs : log[s] = stateLog[n][s] \/ (s = h /\ log[s] = executed)
    BY <1>2 DEF TypeOK
  <2> HIDE DEF log
  <2>2. \A s \in Seqs : log[s] # NoState =>
          log[s] = stateLog[n][s] \/ EntryOK(log[s], s, CommittersOf(s)', PreparersOf(s)')
    <3> TAKE s \in Seqs
    <3>1. CASE s = h /\ log[s] = executed
      BY <1>9, <3>1
    <3> QED BY <2>1, <3>1
  <2>3. CASE stateLog' = [stateLog EXCEPT ![n] = log]
    BY <2>2, <2>3, VotesLogStep
  <2>4. CASE CreateCheckpoint(n, h, log)
    <3> DEFINE kept == CollectGarbage(log, lowWaterMark[n], h)
    <3>1. DOMAIN log = Seqs
      BY DEF TypeOK, log
    <3>2. \A s \in Seqs : kept[s] # NoState => kept[s] = log[s]
      BY <3>1 DEF CollectGarbage
    <3>3. stateLog' = [stateLog EXCEPT ![n] = kept]
      BY <2>4 DEF CreateCheckpoint
    <3> HIDE DEF kept
    <3>4. \A s \in Seqs : kept[s] # NoState =>
            kept[s] = stateLog[n][s] \/ EntryOK(kept[s], s, CommittersOf(s)', PreparersOf(s)')
      BY <2>2, <3>2
    <3> QED BY <3>3, <3>4, VotesLogStep
  <2> QED BY <1>10, <2>3, <2>4 DEF ExecuteBlock, log
<1>11. CASE stateLog' = [stateLog EXCEPT ![n][h] = committed]
  BY <1>2, <1>8, <1>11, VotesEntryStep
<1>12. CASE stateLog' = [stateLog EXCEPT ![n][h] = st]
  BY <1>2, <1>7, <1>12, VotesEntryStep
<1> QED BY <1>10, <1>11, <1>12 DEF HandleCommit, ExecuteNothing

\* handleNewView sets pre-prepares and counts nothing.
LEMMA VotesNewView ==
  ASSUME TypeOK, VotesWereCast, sent \subseteq sent', NEW n \in Node, NEW m \in Pending(n),
         HandleNewView(n, m)
  PROVE  VotesWereCast'
<1> DEFINE log == Reprocess(stateLog[n], m.prePrepares)
<1>1. m.prePrepares \subseteq Blocks
  BY MessageKinds DEF TypeOK, Pending, HandleNewView, NewViewMsgs
<1>2. stateLog[n] \in [Seqs -> States \cup {NoState}]
  BY DEF TypeOK
<1>3. stateLog' = [stateLog EXCEPT ![n] = log]
  BY DEF HandleNewView
<1>4. ASSUME NEW s \in Seqs, NEW p \in m.prePrepares, p.height = s
      PROVE  EntryOK(SetPrePrepare(GetState(stateLog[n], p), p), s,
                     CommittersOf(s)', PreparersOf(s)')
  <2>1. stateLog[n][s] # NoState =>
          EntryOK(stateLog[n][s], s, CommittersOf(s)', PreparersOf(s)')
    BY VotesByEntry, Monotone DEF EntryOK
  <2> QED BY <1>1, <1>2, <1>4, <2>1, EntrySetPrePrepare
<1>5. \A s \in Seqs : log[s] # NoState =>
        log[s] = stateLog[n][s] \/ EntryOK(log[s], s, CommittersOf(s)', PreparersOf(s)')
  <2> SUFFICES ASSUME NEW s \in Seqs
               PROVE  log[s] = stateLog[n][s]
                        \/ EntryOK(log[s], s, CommittersOf(s)', PreparersOf(s)')
    OBVIOUS
  <2>1. CASE \E p \in m.prePrepares : p.height = s
    <3> DEFINE p == CHOOSE p \in m.prePrepares : p.height = s
    <3>1. p \in m.prePrepares /\ p.height = s
      BY <2>1
    <3>2. log[s] = SetPrePrepare(GetState(stateLog[n], p), p)
      BY <1>2, <2>1 DEF Reprocess
    <3> HIDE DEF p
    <3> QED BY <1>4, <3>1, <3>2
  <2>2. CASE ~ \E p \in m.prePrepares : p.height = s
    BY <1>2, <2>2 DEF Reprocess
  <2> QED BY <2>1, <2>2
<1> HIDE DEF log
<1> QED BY <1>3, <1>5, VotesLogStep

\* Every step keeps the counted votes among the ones that were cast.
LEMMA VotesStep == TypeOK /\ VotesWereCast /\ [Next]_vars => VotesWereCast'
<1> SUFFICES ASSUME TypeOK, VotesWereCast, [Next]_vars PROVE VotesWereCast'
  OBVIOUS
<1>1. sent \subseteq sent'
  BY SentGrows
<1>2. ASSUME UNCHANGED stateLog PROVE VotesWereCast'
  <2>1. \A n \in Node, s \in Seqs : stateLog'[n][s] # NoState =>
          EntryOK(stateLog'[n][s], s, CommittersOf(s)', PreparersOf(s)')
    BY <1>1, <1>2, VotesByEntry, Monotone DEF EntryOK
  <2> QED BY <2>1 DEF VotesWereCast, EntryOK
<1>3. ASSUME NEW n \in Node, NEW tx \in Txs, ProposeBlock(n, tx) PROVE VotesWereCast'
  <2>1. PICK b, v :
          /\ PhaseMsg("PrePrepare", n, v, b) \in sent'
          /\ stateLog' = [stateLog EXCEPT ![n][b.height] =
               AddPrepare(SetPrePrepare(GetState(stateLog[n], b), b), n, Vote(v, b))]
    <3> DEFINE b == [height |-> sequenceNum[n] + 1, view |-> view[n], tx |-> tx,
                     prev |-> LastHeight(n)]
    <3>1. /\ PhaseMsg("PrePrepare", n, view[n], b) \in sent'
          /\ stateLog' = [stateLog EXCEPT ![n][b.height] =
               AddPrepare(SetPrePrepare(GetState(stateLog[n], b), b), n, Vote(view[n], b))]
      BY <1>3 DEF ProposeBlock, NextSequence, Broadcast
    <3> HIDE DEF b
    <3> QED BY <3>1
  <2>2. b \in Blocks
    <3>1. sent' \subseteq Messages
      BY TypeStep DEF TypeOK
    <3>2. PhaseMsg("PrePrepare", n, v, b) \in PhaseMsgs
      BY <2>1, <3>1, MessageKinds DEF PhaseMsg
    <3> QED BY <3>2 DEF PhaseMsgs, PhaseMsg
  <2>3. n \in PreparersOf(b.height)'
    BY <2>1, SentVote
  <2> QED BY <1>1, <2>1, <2>2, <2>3, VotesPrePrepare
<1>4. ASSUME NEW n \in Node, NEW m \in Pending(n), HandlePrePrepare(n, m) PROVE VotesWereCast'
  <2>1. m.block \in Blocks
    BY <1>4, MessageKinds DEF TypeOK, Pending, HandlePrePrepare, PhaseMsgs
  <2>2. n \in PreparersOf(m.block.height)'
    BY <1>4, SentVote DEF HandlePrePrepare, Deliver
  <2> QED BY <1>1, <1>4, <2>1, <2>2, VotesPrePrepare DEF HandlePrePrepare
<1>5. ASSUME NEW n \in Node, NEW m \in Pending(n), HandleMessage(n, m) PROVE VotesWereCast'
  BY <1>1, <1>2, <1>4, <1>5, VotesPrepare, VotesCommit, VotesNewView
     DEF HandleMessage, HandleViewChange, BroadcastNewView, ReturnEarly, engineVars
<1>6. ASSUME NEW n \in Node, SkipSequence(n) \/ TimerFires(n) \/ StartViewChange(n)
      PROVE  VotesWereCast'
  BY <1>2, <1>6 DEF SkipSequence, TimerFires, StartViewChange, engineVars
<1> QED BY <1>2, <1>3, <1>5, <1>6 DEF Next, vars, engineVars

-----------------------------------------------------------------------------
(***************************************************************************)
(* Quorums behind COMMITs and executions.                                  *)
(***************************************************************************)

\* A set of nodes that holds a quorum has one.
LEMMA QuorumGrows ==
  ASSUME NEW S, NEW T, S \subseteq T, T \subseteq Node, Cardinality(S) >= Quorum
  PROVE  Cardinality(T) >= Quorum
<1>1. IsFiniteSet(T)
  BY NodeFinite, FS_Subset
<1>2. Cardinality(S) <= Cardinality(T) /\ Cardinality(S) \in Nat /\ Cardinality(T) \in Nat
  BY <1>1, FS_Subset, FS_CardinalityType
<1> QED BY <1>2, QuorumType

\* Only handlePrepare broadcasts a COMMIT, when the PREPAREs it has counted
\* make a quorum.
LEMMA NewCommit ==
  ASSUME TypeOK, [Next]_vars, NEW c \in sent', c \notin sent, c.type = "Commit"
  PROVE  \E n \in Node : \E m \in Pending(n) :
           /\ HandlePrepare(n, m)
           /\ c = PhaseMsg("Commit", n, m.view, m.block)
           /\ IsPrepared(AddPrepare(stateLog[n][m.block.height], m.from, Vote(m.view, m.block)))
<1>1. ASSUME NEW n, NEW m, Deliver(n, m, {}) PROVE FALSE
  BY <1>1 DEF Deliver
<1>2. ~UNCHANGED sent
  OBVIOUS
<1>3. ASSUME NEW n, NEW tx, ProposeBlock(n, tx) PROVE FALSE
  BY <1>3 DEF ProposeBlock, Broadcast, PhaseMsg
<1>4. ASSUME NEW n \in Node, StartViewChange(n) PROVE FALSE
  BY <1>2, <1>4 DEF StartViewChange, Broadcast, netVars, TypeOK, ViewChangeMsgs
<1>5. ASSUME NEW n, NEW m, HandlePrePrepare(n, m) PROVE FALSE
  BY <1>5 DEF HandlePrePrepare, Deliver, PhaseMsg
<1>6. ASSUME NEW n, NEW m, HandleNewView(n, m) PROVE FALSE
  BY <1>6 DEF HandleNewView, Deliver, PhaseMsg
<1>7. ASSUME NEW n, NEW m, HandleViewChange(n, m) PROVE FALSE
  <2>1. PICK reply : Deliver(n, m, reply) /\ \A r \in reply : r.type = "NewView"
    <3> DEFINE quorum == ForView(StoreViewChange(viewChangeMsgs[n], m), m.newView)
               nv(pps) == [type |-> "NewView", from |-> n, view |-> m.newView,
                           viewChangeMsgs |-> quorum, prePrepares |-> pps]
    <3>1. Deliver(n, m, {}) \/ \E pps : Deliver(n, m, {nv(pps)})
      BY <1>7 DEF HandleViewChange, BroadcastNewView
    <3>2. \A pps : nv(pps).type = "NewView"
      OBVIOUS
    <3> HIDE DEF nv
    <3>3. CASE Deliver(n, m, {})
      BY <3>3
    <3>4. ASSUME NEW pps, Deliver(n, m, {nv(pps)})
          PROVE  \E reply : Deliver(n, m, reply) /\ \A r \in reply : r.type = "NewView"
      <4>1. \A r \in {nv(pps)} : r.type = "NewView"
        BY <3>2
      <4> QED BY <3>4, <4>1
    <3> QED BY <3>1, <3>3, <3>4
  <2> QED BY <2>1 DEF Deliver
<1>8. ASSUME NEW n \in Node, SkipSequence(n) \/ TimerFires(n) PROVE FALSE
  BY <1>2, <1>8 DEF SkipSequence, TimerFires, netVars
<1>9. ASSUME NEW n, NEW m, HandleCommit(n, m) PROVE FALSE
  BY <1>1, <1>9 DEF HandleCommit
<1>10. ASSUME NEW n, NEW m, ReturnEarly(n, m) PROVE FALSE
  BY <1>1, <1>10 DEF ReturnEarly
<1>11. PICK n \in Node : \E m \in Pending(n) : HandlePrepare(n, m)
  BY <1>2, <1>3, <1>4, <1>5, <1>6, <1>7, <1>8, <1>9, <1>10
     DEF Next, HandleMessage, vars, netVars
<1>12. PICK m \in Pending(n) : HandlePrepare(n, m)
  BY <1>11
<1> DEFINE h == m.block.height
           st == AddPrepare(stateLog[n][h], m.from, Vote(m.view, m.block))
<1>13. /\ c = PhaseMsg("Commit", n, m.view, m.block)
       /\ stateLog[n][h].phase = PrePrepared
       /\ AfterPrepare(n, m).phase = Prepared
  BY <1>1, <1>12 DEF HandlePrepare, Deliver
<1>14. IsPrepared(st)
  <2>1. m \in PhaseMsgs
    BY <1>12, MessageKinds DEF TypeOK, Pending, HandlePrepare
  <2>2. stateLog[n][h] \in States
    BY <2>1, <1>12 DEF TypeOK, HandlePrepare, TakesVote, PhaseMsgs, Blocks
  <2>3. st.phase = PrePrepared
    BY <2>2, <1>13 DEF AddPrepare, States
  <2> QED BY <1>13, <2>3 DEF AfterPrepare, PrePrepared, Prepared
<1> QED BY <1>12, <1>13, <1>14

\* Every step leaves a quorum of PREPAREs behind each COMMIT.
LEMMA PrepareQuorumStep ==
  TypeOK /\ VotesWereCast /\ CommitHasPrepareQuorum /\ [Next]_vars => CommitHasPrepareQuorum'
<1> SUFFICES ASSUME TypeOK, VotesWereCast, CommitHasPrepareQuorum, [Next]_vars,
                    NEW c \in sent', c.type = "Commit"
             PROVE  Cardinality(PreparersOf(c.block.height)') >= Quorum
  BY DEF CommitHasPrepareQuorum
<1>1. sent \subseteq sent'
  BY SentGrows
<1>2. PreparersOf(c.block.height)' \subseteq Node
  BY DEF PreparersOf
<1>3. CASE c \in sent
  BY <1>1, <1>2, <1>3, Monotone, QuorumGrows DEF CommitHasPrepareQuorum
<1>4. CASE c \notin sent
  <2>1. PICK n \in Node, m \in sent :
          /\ m \in Pending(n)
          /\ HandlePrepare(n, m)
          /\ c = PhaseMsg("Commit", n, m.view, m.block)
          /\ IsPrepared(AddPrepare(stateLog[n][m.block.height], m.from, Vote(m.view, m.block)))
    BY <1>4, NewCommit DEF Pending
  <2> DEFINE h == m.block.height
             old == stateLog[n][h]
             st == AddPrepare(old, m.from, Vote(m.view, m.block))
  <2>2. m \in PhaseMsgs /\ m \in sent /\ m.type = "Prepare"
    BY <2>1, MessageKinds DEF TypeOK, Pending, HandlePrepare
  <2>3. h \in Seqs /\ m.from \in Node /\ old \in States /\ old # NoState
    BY <2>1, <2>2 DEF TypeOK, HandlePrepare, TakesVote, PhaseMsgs, Blocks
  <2>4. EntryOK(old, h, CommittersOf(h)', PreparersOf(h)')
    BY <1>1, <2>3, VotesByEntry, Monotone DEF EntryOK
  <2>5. m.from \in PreparersOf(h)'
    BY <1>1, <2>2, <2>3 DEF PreparersOf
  <2>6. EntryOK(st, h, CommittersOf(h)', PreparersOf(h)')
    BY <2>3, <2>4, <2>5, EntryAddVote
  <2>7. Cardinality(Voters(st.prepares)) >= Quorum
    BY <2>1 DEF IsPrepared
  <2>8. c.block.height = h
    BY <2>1 DEF PhaseMsg
  <2> QED BY <1>2, <2>6, <2>7, <2>8, QuorumGrows DEF EntryOK
<1> QED BY <1>3, <1>4

\* executeBlock is reached only with a quorum of COMMITs, for a block of the
\* state's height.
LEMMA CommitQuorumStep ==
  TypeOK /\ VotesWereCast /\ ExecutedHasCommitQuorum /\ [Next]_vars => ExecutedHasCommitQuorum'
<1> SUFFICES ASSUME TypeOK, VotesWereCast, ExecutedHasCommitQuorum, [Next]_vars
             PROVE  ExecutedHasCommitQuorum'
  OBVIOUS
<1>1. sent \subseteq sent'
  BY SentGrows
<1>2. \A h : CommittersOf(h)' \subseteq Node
  BY DEF CommittersOf
<1>3. \A h : Cardinality(CommittersOf(h)) >= Quorum => Cardinality(CommittersOf(h)') >= Quorum
  BY <1>1, <1>2, Monotone, QuorumGrows
<1>4. ASSUME UNCHANGED committedBlocks PROVE ExecutedHasCommitQuorum'
  BY <1>3, <1>4 DEF ExecutedHasCommitQuorum, Executed
<1>5. ASSUME NEW n \in Node, NEW m \in Pending(n), HandleCommit(n, m),
             committedBlocks' # committedBlocks
      PROVE  ExecutedHasCommitQuorum'
  <2> DEFINE h == m.block.height
             old == stateLog[n][h]
             st == AddCommit(old, m.from, Vote(m.view, m.block))
             committed == [st EXCEPT !.phase = Committed]
  <2>1. IsCommitted(st) /\ ExecuteBlock(n, h, committed)
    BY <1>5 DEF HandleCommit, ExecuteNothing
  <2>2. m \in PhaseMsgs /\ m \in sent /\ m.type = "Commit"
    BY <1>5, MessageKinds DEF TypeOK, Pending, HandleCommit
  <2>3. h \in Seqs /\ m.from \in Node /\ old \in States /\ old # NoState
    BY <1>5, <2>2 DEF TypeOK, HandleCommit, TakesVote, PhaseMsgs, Blocks
  <2>4. EntryOK(old, h, CommittersOf(h)', PreparersOf(h)')
    BY <1>1, <2>3, VotesByEntry, Monotone DEF EntryOK
  <2>5. m.from \in CommittersOf(h)'
    BY <1>1, <2>2, <2>3 DEF CommittersOf
  <2>6. EntryOK(st, h, CommittersOf(h)', PreparersOf(h)')
    BY <2>3, <2>4, <2>5, EntryAddVote
  <2>7. Cardinality(CommittersOf(h)') >= Quorum
    BY <1>2, <2>1, <2>6, QuorumGrows DEF IsCommitted, EntryOK
  <2>8. committed.block = st.block /\ st.block = old.block
    BY <2>3 DEF AddCommit, States
  <2>9. committed.block.height = h
    BY <2>6, <2>8 DEF EntryOK
  <2>10. committedBlocks' = [committedBlocks EXCEPT ![n] = Append(@, committed.block)]
    BY <2>1 DEF ExecuteBlock
  <2> HIDE DEF committed
  <2>11. ASSUME NEW k \in Node, NEW i \in 1 .. Len(committedBlocks'[k]),
                NEW b, b = committedBlocks'[k][i]
         PROVE  Cardinality(CommittersOf(b.height)') >= Quorum
    <3>1. committedBlocks[k] \in Seq(Blocks)
      BY DEF TypeOK
    <3>2. CASE i \in 1 .. Len(committedBlocks[k]) /\ b = committedBlocks[k][i]
      BY <1>3, <3>2 DEF ExecutedHasCommitQuorum, Executed
    <3>3. CASE b = committed.block
      BY <2>7, <2>9, <3>3
    <3> QED BY <2>10, <2>11, <3>1, <3>2, <3>3 DEF TypeOK
  <2> QED BY <2>11 DEF ExecutedHasCommitQuorum, Executed
<1>6. ASSUME NEW n \in Node, NEW m \in Pending(n), HandleMessage(n, m)
      PROVE  ExecutedHasCommitQuorum'
  BY <1>4, <1>5, <1>6 DEF HandleMessage, HandlePrePrepare, HandlePrepare, HandleViewChange, BroadcastNewView,
     HandleNewView, ReturnEarly, engineVars
<1>7. ASSUME NEW n \in Node, SkipSequence(n) \/ TimerFires(n) \/ StartViewChange(n)
      PROVE  ExecutedHasCommitQuorum'
  BY <1>4, <1>7 DEF SkipSequence, TimerFires, StartViewChange, engineVars
<1>8. ASSUME NEW n \in Node, NEW tx \in Txs, ProposeBlock(n, tx) PROVE ExecutedHasCommitQuorum'
  BY <1>4, <1>8 DEF ProposeBlock
<1> QED BY <1>4, <1>6, <1>7, <1>8 DEF Next, vars, engineVars

\* Every vote a node counts was broadcast by the validator it is counted for,
\* across retransmissions and view changes (AddPrepare, AddCommit, SetPrePrepare,
\* reprocessPrePrepare).
THEOREM VotesCast == Spec => []VotesWereCast
<1>1. Init => VotesWereCast
  BY DEF Init, VotesWereCast
<1> QED BY <1>1, TypeCorrect, VotesStep, PTL DEF Spec

\* A COMMIT is broadcast only where 2f+1 validators have voted PREPARE, for
\* every number of validators and whatever views they pass through
\* (handlePrepare, IsPrepared).
THEOREM PrepareQuorum == Spec => []CommitHasPrepareQuorum
<1>1. Init => VotesWereCast /\ CommitHasPrepareQuorum
  BY DEF Init, VotesWereCast, CommitHasPrepareQuorum
<1> QED BY <1>1, TypeCorrect, VotesStep, PrepareQuorumStep, PTL DEF Spec

\* A block is executed only at heights for which 2f+1 validators broadcast a
\* COMMIT (handleCommit, IsCommitted, executeBlock).
THEOREM CommitQuorum == Spec => []ExecutedHasCommitQuorum
<1>1. Init => VotesWereCast /\ ExecutedHasCommitQuorum
  BY DEF Init, VotesWereCast, ExecutedHasCommitQuorum, Executed
<1> QED BY <1>1, TypeCorrect, VotesStep, CommitQuorumStep, PTL DEF Spec
=============================================================================
