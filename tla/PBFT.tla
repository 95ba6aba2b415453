-------------------------------- MODULE PBFT --------------------------------
(***************************************************************************)
(* The consensus engine (consensus/pbft/engine_v2.go) of every validator   *)
(* and the messages between them.  One goroutine per node (run) takes      *)
(* messages and requests one at a time, so a handler is one action; the    *)
(* view-change timer runs startViewChange on a goroutine of its own, so    *)
(* what it reads and what it then does are two actions.                    *)
(*                                                                         *)
(* A broadcast sends one RPC to each other node, each with its own         *)
(* goroutine and timeout: messages arrive in any order, or never, and a    *)
(* node never hears its own broadcast.  Nodes may stop at any time; they   *)
(* follow the code as long as they run.                                    *)
(***************************************************************************)
EXTENDS ViewChange, Sequences

CONSTANTS
  Validators,          \* validatorSet.Validators, in its order
  Txs,                 \* what a block can carry: one abstract batch each
  CheckpointInterval,  \* Config.CheckpointInterval
  WindowSize,          \* Config.WindowSize
  AppFaults,           \* the ABCI calls that may fail
  Down,                \* validators that never start
  MaxSeq,              \* bound on the sequence numbers proposed
  MaxView,             \* bound on the views reached
  MaxProposals,        \* bound on the requests that reach a primary
  MaxViewChanges,      \* bound on a node's distinct VIEW-CHANGEs for a view
  NoTimeout            \* no view-change goroutine is running

ASSUME ValidatorsAssumption ==
  /\ Validators \in [1 .. Cardinality(Node) -> Node]
  /\ \A n \in Node : \E i \in 1 .. Cardinality(Node) : Validators[i] = n
  /\ Node # {}

ASSUME BoundsAssumption ==
  /\ MaxSeq \in Nat
  /\ MaxView \in Nat
  /\ MaxProposals \in Nat
  /\ MaxViewChanges \in Nat
  /\ WindowSize \in Nat
  /\ CheckpointInterval \in Nat \ {0}

ASSUME DownAssumption == Down \subseteq Node

ASSUME AppFaultsAssumption ==
  AppFaults \subseteq {"PrepareProposal", "ProcessProposal", "FinalizeBlock"}

VARIABLES
  view,             \* e.view
  sequenceNum,      \* e.sequenceNum, the last number this node proposed
  stateLog,         \* e.stateLog.states
  lowWaterMark,     \* e.stateLog.LowWaterMark
  checkpoints,      \* the keys of e.checkpoints
  committedBlocks,  \* e.committedBlocks
  vcmView,          \* viewChangeManager.currentView
  inProgress,       \* viewChangeManager.inProgress
  viewChangeMsgs,   \* viewChangeManager.viewChangeMsgs
  timeout,          \* what a running startViewChange has read, or NoTimeout
  sent,             \* every message ever broadcast
  received          \* the broadcasts each node has taken from its channel

engineVars == <<view, sequenceNum, stateLog, lowWaterMark, checkpoints, committedBlocks>>
vcmVars == <<vcmView, inProgress, viewChangeMsgs>>
netVars == <<sent, received>>
vars == <<engineVars, vcmVars, timeout, netVars>>

Seqs == 1 .. MaxSeq
Views == 0 .. MaxView

(***************************************************************************)
(* A block is its own digest.  prev is the height of the block whose hash  *)
(* is the header's PrevHash, 0 for none; the proposer is the primary of    *)
(* the block's view.                                                       *)
(***************************************************************************)
Blocks == [height : Seqs, view : Views, tx : Txs, prev : 0 .. MaxSeq]

Votes == [view : Views, block : Blocks]

States == [phase : Phase, block : Blocks, executed : BOOLEAN,
           prepares : [Node -> Votes \cup {NoVote}],
           commits : [Node -> Votes \cup {NoVote}]]

ASSUME NoStateAssumption == NoState \notin States

(***************************************************************************)
(* Messages (messages.go).  The sequence number of a PREPARE or a COMMIT   *)
(* is its block's height; fields no handler reads are left out.            *)
(***************************************************************************)
PhaseMsgs == [type : {"PrePrepare", "Prepare", "Commit"}, from : Node,
              view : Views, block : Blocks]

ViewChangeMsgs == [type : {"ViewChange"}, from : Node, newView : Views,
                   checkpoints : SUBSET Seqs, preparedSet : SUBSET Blocks]

NewViewMsgs == [type : {"NewView"}, from : Node, view : Views,
                viewChangeMsgs : SUBSET ViewChangeMsgs, prePrepares : SUBSET Blocks]

Messages == PhaseMsgs \cup ViewChangeMsgs \cup NewViewMsgs

PhaseMsg(type, n, v, b) == [type |-> type, from |-> n, view |-> v, block |-> b]

(***************************************************************************)
(* getPrimaryID: the views go round the validators.                        *)
(***************************************************************************)
Primary(v) == Validators[(v % Cardinality(Node)) + 1]

IsInWindow(n, s) ==
  s > lowWaterMark[n] /\ s <= lowWaterMark[n] + WindowSize

\* The height of the last committed block, whose hash a proposal links to.
LastHeight(n) ==
  IF committedBlocks[n] = <<>> THEN 0
  ELSE committedBlocks[n][Len(committedBlocks[n])].height

(***************************************************************************)
(* The network.  Sending a message again (a timer that fires twice) is a   *)
(* new delivery to everyone.                                               *)
(***************************************************************************)
Broadcast(ms) ==
  /\ sent' = sent \cup ms
  /\ received' = [k \in Node |-> received[k] \ ms]

Deliver(n, m, reply) ==
  /\ sent' = sent \cup reply
  /\ received' = [k \in Node |-> (received[k] \ reply) \cup (IF k = n THEN {m} ELSE {})]

Pending(n) == {m \in sent \ received[n] : m.from # n}

(***************************************************************************)
(* The number proposeBlock takes.  It counts this node's proposals: blocks *)
(* of other primaries do not move it.                                      *)
(***************************************************************************)
\* Mutant: the number does not move on after the first proposal.
NextSequenceStays(n) == IF sequenceNum[n] = 0 THEN 1 ELSE sequenceNum[n]

NextSequence(n) == sequenceNum[n] + 1

-----------------------------------------------------------------------------

Init ==
  /\ view = [n \in Node |-> 0]
  /\ sequenceNum = [n \in Node |-> 0]
  /\ stateLog = [n \in Node |-> [s \in Seqs |-> NoState]]
  /\ lowWaterMark = [n \in Node |-> 0]
  /\ checkpoints = [n \in Node |-> {}]
  /\ committedBlocks = [n \in Node |-> <<>>]
  /\ vcmView = [n \in Node |-> 0]
  /\ inProgress = [n \in Node |-> FALSE]
  /\ viewChangeMsgs = [n \in Node |-> {}]
  /\ timeout = [n \in Node |-> NoTimeout]
  /\ sent = {}
  /\ received = [n \in Node |-> {}]

(***************************************************************************)
(* proposeBlock, when there is a transaction to propose (without one it    *)
(* takes the sequence number back and nothing has changed).  The primary   *)
(* counts its own PREPARE and does not broadcast it.                       *)
(***************************************************************************)
ProposeBlock(n, tx) ==
  LET s == NextSequence(n)
      b == [height |-> s, view |-> view[n], tx |-> tx, prev |-> LastHeight(n)]
      st == SetPrePrepare(GetState(stateLog[n], b), b)
  IN
  /\ n = Primary(view[n])
  /\ s \in Seqs
  /\ Cardinality({m \in sent : m.type = "PrePrepare"}) < MaxProposals
  /\ IsInWindow(n, s)
  /\ sequenceNum' = [sequenceNum EXCEPT ![n] = s]
  /\ stateLog' = [stateLog EXCEPT ![n][s] = AddPrepare(st, n, Vote(view[n], b))]
  /\ Broadcast({PhaseMsg("PrePrepare", n, view[n], b)})
  /\ UNCHANGED <<view, lowWaterMark, checkpoints, committedBlocks, vcmVars, timeout>>

(***************************************************************************)
(* proposeBlock's two returns that keep the sequence number it has taken:  *)
(* the number is outside the window, or PrepareProposal fails.             *)
(***************************************************************************)
SkipSequence(n) ==
  /\ n = Primary(view[n])
  /\ NextSequence(n) \in Seqs
  /\ \/ ~IsInWindow(n, NextSequence(n))
     \/ "PrepareProposal" \in AppFaults
  /\ sequenceNum' = [sequenceNum EXCEPT ![n] = NextSequence(n)]
  /\ UNCHANGED <<view, stateLog, lowWaterMark, checkpoints, committedBlocks,
                 vcmVars, timeout, netVars>>

(***************************************************************************)
(* handlePrePrepare.                                                       *)
(***************************************************************************)
TakesPrePrepare(n, m) ==
  /\ m.from = Primary(view[n])
  /\ m.view = view[n]
  /\ IsInWindow(n, m.block.height)

HandlePrePrepare(n, m) ==
  LET s == m.block.height
      st == SetPrePrepare(GetState(stateLog[n], m.block), m.block)
  IN
  /\ m.type = "PrePrepare"
  /\ TakesPrePrepare(n, m)
  /\ stateLog' = [stateLog EXCEPT ![n][s] = AddPrepare(st, n, Vote(m.view, m.block))]
  /\ Deliver(n, m, {PhaseMsg("Prepare", n, m.view, m.block)})
  /\ UNCHANGED <<view, sequenceNum, lowWaterMark, checkpoints, committedBlocks,
                 vcmVars, timeout>>

(***************************************************************************)
(* handlePrepare and handleCommit take votes for a state that exists.      *)
(***************************************************************************)
TakesVote(n, m) ==
  /\ m.view = view[n]
  /\ stateLog[n][m.block.height] # NoState

\* What handlePrepare leaves: with a quorum the node commits, for the digest
\* of the message that completed it.
\* Mutant: the commit is counted under the ID of the sender of the PREPARE.
AfterPrepareWrongID(n, m) ==
  LET st == AddPrepare(stateLog[n][m.block.height], m.from, Vote(m.view, m.block))
  IN IF IsPrepared(st) /\ st.phase = PrePrepared
     THEN AddCommit([st EXCEPT !.phase = Prepared], m.from, Vote(m.view, m.block))
     ELSE st

AfterPrepare(n, m) ==
  LET st == AddPrepare(stateLog[n][m.block.height], m.from, Vote(m.view, m.block))
  IN IF IsPrepared(st) /\ st.phase = PrePrepared
     THEN AddCommit([st EXCEPT !.phase = Prepared], n, Vote(m.view, m.block))
     ELSE st

HandlePrepare(n, m) ==
  LET s == m.block.height
      becomesPrepared ==
        /\ stateLog[n][s].phase = PrePrepared
        /\ AfterPrepare(n, m).phase = Prepared
  IN
  /\ m.type = "Prepare"
  /\ TakesVote(n, m)
  /\ stateLog' = [stateLog EXCEPT ![n][s] = AfterPrepare(n, m)]
  /\ Deliver(n, m, IF becomesPrepared
                   THEN {PhaseMsg("Commit", n, m.view, m.block)} ELSE {})
  /\ UNCHANGED <<view, sequenceNum, lowWaterMark, checkpoints, committedBlocks,
                 vcmVars, timeout>>

-----------------------------------------------------------------------------

(***************************************************************************)
(* createCheckpoint: at most three are kept, the oldest goes first.        *)
(***************************************************************************)
KeepNewest(cps) ==
  IF Cardinality(cps) > 3 THEN {c \in cps : \E d \in cps : d < c} ELSE cps

CreateCheckpoint(n, s, log) ==
  /\ checkpoints' = [checkpoints EXCEPT ![n] = KeepNewest(@ \cup {s})]
  /\ stateLog' = [stateLog EXCEPT ![n] = CollectGarbage(log, lowWaterMark[n], s)]
  /\ lowWaterMark' = [lowWaterMark EXCEPT ![n] = IF s > @ THEN s ELSE @]

(***************************************************************************)
(* executeBlock on the state st of sequence number s: FinalizeBlock and    *)
(* Commit, then the block list and, every CheckpointInterval numbers, a    *)
(* checkpoint.                                                             *)
(***************************************************************************)
\* Mutant: the block is linked anew to the last one executed here.
ExecuteBlockRelinked(n, s, st) ==
  /\ ~st.executed
  /\ committedBlocks' = [committedBlocks EXCEPT ![n] =
                           Append(@, [st.block EXCEPT !.prev = LastHeight(n)])]
  /\ stateLog' = [stateLog EXCEPT ![n][s] = [st EXCEPT !.executed = TRUE]]
  /\ UNCHANGED <<checkpoints, lowWaterMark>>

ExecuteBlock(n, s, st) ==
  LET log == [stateLog[n] EXCEPT ![s] = [st EXCEPT !.executed = TRUE]] IN
  /\ ~st.executed
  /\ committedBlocks' = [committedBlocks EXCEPT ![n] = Append(@, st.block)]
  /\ IF s % CheckpointInterval = 0
     THEN CreateCheckpoint(n, s, log)
     ELSE /\ stateLog' = [stateLog EXCEPT ![n] = log]
          /\ UNCHANGED <<checkpoints, lowWaterMark>>

\* executeBlock's early returns: already executed, or the application failed.
ExecuteNothing(n, s, st) ==
  /\ st.executed \/ "FinalizeBlock" \in AppFaults
  /\ stateLog' = [stateLog EXCEPT ![n][s] = st]
  /\ UNCHANGED <<committedBlocks, checkpoints, lowWaterMark>>

HandleCommit(n, m) ==
  LET s == m.block.height
      st == AddCommit(stateLog[n][s], m.from, Vote(m.view, m.block))
      committed == [st EXCEPT !.phase = Committed]
  IN
  /\ m.type = "Commit"
  /\ TakesVote(n, m)
  /\ IF IsCommitted(st) /\ st.phase = Prepared
     THEN ExecuteBlock(n, s, committed) \/ ExecuteNothing(n, s, committed)
     ELSE /\ stateLog' = [stateLog EXCEPT ![n][s] = st]
          /\ UNCHANGED <<committedBlocks, checkpoints, lowWaterMark>>
  /\ Deliver(n, m, {})
  /\ UNCHANGED <<view, sequenceNum, vcmVars, timeout>>

-----------------------------------------------------------------------------

(***************************************************************************)
(* collectPreparedCertificates: the blocks prepared here and not executed. *)
(***************************************************************************)
\* The sequence numbers prepared and not executed.
PreparedSeqs(n) ==
  {s \in Seqs : /\ IsInWindow(n, s)
                /\ stateLog[n][s] # NoState
                /\ IsPrepared(stateLog[n][s])
                /\ ~stateLog[n][s].executed}

\* Mutant: the block is rebuilt for the next view.
PreparedCertificatesRestamped(n) ==
  {[stateLog[n][s].block EXCEPT !.view = view[n] + 1] : s \in PreparedSeqs(n)}

PreparedCertificates(n) == {stateLog[n][s].block : s \in PreparedSeqs(n)}

(***************************************************************************)
(* The timer runs from the start and is armed again by startViewChange     *)
(* itself and whenever a view is entered, in a view change or not.         *)
(***************************************************************************)
ViewChangesBelowBound(n) ==
  Cardinality({m \in sent : /\ m.type = "ViewChange"
                            /\ m.from = n
                            /\ m.newView = view[n] + 1}) < MaxViewChanges

\* Mutant: it is not armed again while a view change is in progress.
TimerArmedOnce(n) == timeout[n] = NoTimeout /\ ~inProgress[n]

TimerArmed(n) == timeout[n] = NoTimeout

(***************************************************************************)
(* startViewChange, on the timer's goroutine: first it reads the engine... *)
(***************************************************************************)
TimerFires(n) ==
  /\ TimerArmed(n)
  /\ view[n] < MaxView
  /\ ViewChangesBelowBound(n)
  /\ timeout' = [timeout EXCEPT ![n] =
       [type |-> "ViewChange", from |-> n, newView |-> view[n] + 1,
        checkpoints |-> checkpoints[n], preparedSet |-> PreparedCertificates(n)]]
  /\ UNCHANGED <<engineVars, vcmVars, netVars>>

(***************************************************************************)
(* ... then ViewChangeManager.StartViewChange broadcasts what was read,    *)
(* unless the manager has reached that view in the meantime.               *)
(***************************************************************************)
\* Mutant: a request for the view just entered goes through.
OvertakenStrictly(n) == timeout[n].newView < vcmView[n]

Overtaken(n) == timeout[n].newView <= vcmView[n]

StartViewChange(n) ==
  /\ timeout[n] # NoTimeout
  /\ timeout' = [timeout EXCEPT ![n] = NoTimeout]
  /\ IF Overtaken(n)
     THEN UNCHANGED <<vcmVars, netVars>>
     ELSE /\ inProgress' = [inProgress EXCEPT ![n] = TRUE]
          /\ viewChangeMsgs' = [viewChangeMsgs EXCEPT ![n] = StoreViewChange(@, timeout[n])]
          /\ Broadcast({timeout[n]})
          /\ UNCHANGED vcmView
  /\ UNCHANGED engineVars

(***************************************************************************)
(* ViewChangeManager.HandleNewView after its verification, with its        *)
(* callback onViewChangeComplete.                                          *)
(***************************************************************************)
EnterView(n, v, vcs) ==
  /\ vcmView' = [vcmView EXCEPT ![n] = v]
  /\ view' = [view EXCEPT ![n] = v]
  /\ inProgress' = [inProgress EXCEPT ![n] = FALSE]
  /\ viewChangeMsgs' = [viewChangeMsgs EXCEPT ![n] = {vc \in vcs : vc.newView > v}]

(***************************************************************************)
(* handleViewChange, with broadcastNewView when the quorum is reached at   *)
(* the new primary.  The primary enters the view if its own message passes *)
(* the test; it does not re-process the pre-prepares it re-issues.         *)
(***************************************************************************)
TakesViewChange(n, m) == m.newView > view[n]

\* Mutant: a node follows the first request for a later view.
HandleViewChangeFollow(n, m) ==
  /\ m.type = "ViewChange"
  /\ TakesViewChange(n, m)
  /\ EnterView(n, m.newView, viewChangeMsgs[n])
  /\ Deliver(n, m, {})
  /\ UNCHANGED <<sequenceNum, stateLog, lowWaterMark, checkpoints, committedBlocks, timeout>>

\* broadcastNewView: vcs are the messages the manager holds, quorum those for m's
\* view.
BroadcastNewView(n, m, vcs, quorum) ==
  \E pps \in ComputePrePrepareSets(quorum) :
    LET nv == [type |-> "NewView", from |-> n, view |-> m.newView,
               viewChangeMsgs |-> quorum, prePrepares |-> pps]
    IN /\ Deliver(n, m, {nv})
       /\ IF VerifyNewViewMsg(nv)
          THEN EnterView(n, m.newView, vcs)
          ELSE /\ viewChangeMsgs' = [viewChangeMsgs EXCEPT ![n] = vcs]
               /\ UNCHANGED <<view, vcmView, inProgress>>

HandleViewChange(n, m) ==
  LET vcs == StoreViewChange(viewChangeMsgs[n], m)
      quorum == ForView(vcs, m.newView)
  IN
  /\ m.type = "ViewChange"
  /\ TakesViewChange(n, m)
  /\ IF Cardinality(quorum) >= Quorum /\ n = Primary(m.newView)
     THEN BroadcastNewView(n, m, vcs, quorum)
     ELSE /\ viewChangeMsgs' = [viewChangeMsgs EXCEPT ![n] = vcs]
          /\ Deliver(n, m, {})
          /\ UNCHANGED <<view, vcmView, inProgress>>
  /\ UNCHANGED <<sequenceNum, stateLog, lowWaterMark, checkpoints, committedBlocks, timeout>>

(***************************************************************************)
(* handleNewView, with reprocessPrePrepare for each pre-prepare: no window *)
(* test, and the PREPARE that is broadcast is not counted here.            *)
(***************************************************************************)
TakesNewView(n, m) ==
  /\ m.view > view[n]
  /\ m.from = Primary(m.view)
  /\ VerifyNewViewMsg(m)

Reprocess(log, pps) ==
  [s \in DOMAIN log |->
     IF \E p \in pps : p.height = s
     THEN LET p == CHOOSE p \in pps : p.height = s
          IN SetPrePrepare(GetState(log, p), p)
     ELSE log[s]]

HandleNewView(n, m) ==
  /\ m.type = "NewView"
  /\ TakesNewView(n, m)
  /\ EnterView(n, m.view, viewChangeMsgs[n])
  /\ stateLog' = [stateLog EXCEPT ![n] = Reprocess(@, m.prePrepares)]
  /\ Deliver(n, m, {PhaseMsg("Prepare", n, m.view, p) : p \in m.prePrepares})
  /\ UNCHANGED <<sequenceNum, lowWaterMark, checkpoints, committedBlocks, timeout>>

(***************************************************************************)
(* A message its handler returns early from is gone: nothing sends it      *)
(* again.  A rejecting or failing ProcessProposal is such a return.        *)
(***************************************************************************)
ReturnEarly(n, m) ==
  /\ CASE m.type = "PrePrepare" -> ~TakesPrePrepare(n, m) \/ "ProcessProposal" \in AppFaults
       [] m.type \in {"Prepare", "Commit"} -> ~TakesVote(n, m)
       [] m.type = "ViewChange" -> ~TakesViewChange(n, m)
       [] m.type = "NewView" -> ~TakesNewView(n, m)
  /\ Deliver(n, m, {})
  /\ UNCHANGED <<engineVars, vcmVars, timeout>>

HandleMessage(n, m) ==
  \/ HandlePrePrepare(n, m)
  \/ HandlePrepare(n, m)
  \/ HandleCommit(n, m)
  \/ HandleViewChange(n, m)
  \/ HandleNewView(n, m)
  \/ ReturnEarly(n, m)

Next ==
  \E n \in Node \ Down :
    \/ \E tx \in Txs : ProposeBlock(n, tx)
    \/ SkipSequence(n)
    \/ \E m \in Pending(n) : HandleMessage(n, m)
    \/ TimerFires(n)
    \/ StartViewChange(n)

Spec == Init /\ [][Next]_vars

(***************************************************************************)
(* Fairness for the nodes of C, the ones that keep running: their RPCs     *)
(* arrive and their channels are FIFO, so a message of each kind on each   *)
(* link is handled; a timer fires, is armed again by startViewChange       *)
(* itself, and its goroutine is scheduled.                                 *)
(***************************************************************************)
Fairness(C) ==
  \A n \in C :
    /\ \A k \in C, t \in {"PrePrepare", "Prepare", "Commit", "ViewChange", "NewView"} :
         WF_vars(\E m \in Pending(n) : m.from = k /\ m.type = t /\ HandleMessage(n, m))
    /\ WF_vars(TimerFires(n))
    /\ WF_vars(StartViewChange(n))

LiveSpec == Spec /\ Fairness(Node \ Down)
-----------------------------------------------------------------------------
(***************************************************************************)
(* Properties.                                                             *)
(***************************************************************************)
Executed(n) == {committedBlocks[n][i] : i \in 1 .. Len(committedBlocks[n])}

\* The nodes whose COMMIT for height h has been broadcast.
CommittersOf(h) ==
  {k \in Node : \E m \in sent : m.type = "Commit" /\ m.from = k /\ m.block.height = h}

\* The nodes whose vote for a block of height h is out: a PREPARE, or the
\* PRE-PREPARE that stands for the primary's own.
PreparersOf(h) ==
  {k \in Node : \E m \in sent :
     m.type \in {"PrePrepare", "Prepare"} /\ m.from = k /\ m.block.height = h}

\* The nodes that have asked for view v.
AskedFor(v) ==
  {k \in Node : \E m \in sent : m.type = "ViewChange" /\ m.from = k /\ m.newView = v}

\* Every variable holds values of its type: heights and views inside the
\* bounds, one state per sequence number, messages with well-formed fields.
TypeOK ==
  /\ view \in [Node -> Views]
  /\ sequenceNum \in [Node -> 0 .. MaxSeq]
  /\ stateLog \in [Node -> [Seqs -> States \cup {NoState}]]
  /\ lowWaterMark \in [Node -> 0 .. MaxSeq]
  /\ checkpoints \in [Node -> SUBSET Seqs]
  /\ committedBlocks \in [Node -> Seq(Blocks)]
  /\ vcmView \in [Node -> Views]
  /\ inProgress \in [Node -> BOOLEAN]
  /\ viewChangeMsgs \in [Node -> SUBSET ViewChangeMsgs]
  /\ timeout \in [Node -> ViewChangeMsgs \cup {NoTimeout}]
  /\ sent \subseteq Messages
  /\ received \in [Node -> SUBSET Messages]

\* A block is executed only at heights for which 2f+1 validators broadcast a
\* COMMIT, whatever order prepares, commits and view changes came in
\* (handleCommit, IsCommitted).
ExecutedHasCommitQuorum ==
  \A n \in Node : \A b \in Executed(n) : Cardinality(CommittersOf(b.height)) >= Quorum

\* A COMMIT is broadcast only at heights for which 2f+1 validators have voted
\* PREPARE, the primary's PRE-PREPARE counting for its own (handlePrepare).
CommitHasPrepareQuorum ==
  \A m \in sent : m.type = "Commit" => Cardinality(PreparersOf(m.block.height)) >= Quorum

\* A node is in a view above 0 only if 2f+1 validators asked for that view,
\* although it may learn of it from the NEW-VIEW alone (handleNewView).
ViewHasQuorum ==
  \A n \in Node : view[n] > 0 => Cardinality(AskedFor(view[n])) >= Quorum

\* The quorums behind any two later views have validators in common: f+1 when
\* there are 3f+1 of them, but only f or f-1 when there are 3f+2 or 3f+3, as 2f+1
\* does not grow with the rest of the division (QuorumSize).
ViewQuorumsOverlap ==
  LET count == Cardinality(Node)
      f == (count - 1) \div 3
      later == {view[n] : n \in Node} \ {0}
  IN  \A v, w \in later :
        v < w => Cardinality(AskedFor(v) \cap AskedFor(w)) >= f + 1 - ((count - 1) % 3)

\* Two blocks of one height proposed in one view and executed anywhere are the
\* same block: a primary never gives a sequence number twice in a view, not
\* even after proposals that failed (proposeBlock's sequenceNum).
AgreementInView ==
  \A n, k \in Node : \A b \in Executed(n), c \in Executed(k) :
     b.height = c.height /\ b.view = c.view => b = c

\* No two validators execute different blocks at one height.
Agreement ==
  \A n, k \in Node : \A b \in Executed(n), c \in Executed(k) :
     b.height = c.height => b = c

\* Disagreement takes a view change at one of the two: validators still in the
\* first view execute the same block at a height, whatever happens in the views
\* others have gone on to.
AgreementInFirstView ==
  \A n, k \in Node : \A b \in Executed(n), c \in Executed(k) :
     view[n] = 0 /\ view[k] = 0 /\ b.height = c.height => b = c

\* No validator executes a height twice: a block prepared and committed again
\* after a view change meets the Executed flag (executeBlock).  The exception is
\* a height whose state a checkpoint has dropped: in a view above 0 a NEW-VIEW
\* may bring it back (reprocessPrePrepare tests no window).
ExecutedOnce ==
  \A n \in Node : \A i, j \in 1 .. Len(committedBlocks[n]) :
     committedBlocks[n][i].height = committedBlocks[n][j].height
       => \/ i = j
          \/ view[n] > 0 /\ committedBlocks[n][i].height <= lowWaterMark[n]

\* At most three checkpoints, all of executed heights, the low water mark at
\* the last of them even when a height below it is executed again; and before
\* its first view change a node has no state outside the window
\* (createCheckpoint, AdvanceWatermarks).
CheckpointWindow ==
  \A n \in Node :
    /\ Cardinality(checkpoints[n]) <= 3
    /\ \A c \in checkpoints[n] :
          c <= lowWaterMark[n] /\ \E b \in Executed(n) : b.height = c
    /\ lowWaterMark[n] \in checkpoints[n] \cup {0}
    /\ \A s \in Seqs : view[n] = 0 /\ stateLog[n][s] # NoState => IsInWindow(n, s)

\* The view-change manager holds only messages for views still ahead, and its
\* in-progress flag stands for a request of this node for the next view: a
\* timer that fired before a NEW-VIEW and starts its view change after it
\* leaves no trace (StartViewChange's test against currentView).
NoStaleViewChange ==
  \A n \in Node :
    /\ vcmView[n] = view[n]
    /\ \A vc \in viewChangeMsgs[n] : vc.newView > view[n]
    /\ inProgress[n] => \E vc \in viewChangeMsgs[n] : vc.from = n /\ vc.newView = view[n] + 1
-----------------------------------------------------------------------------
(***************************************************************************)
(* The inductive invariant the proofs rest on, in three parts.             *)
(***************************************************************************)

\* Every vote a node counts at a height was broadcast by the voter for that
\* height (AddPrepare and AddCommit are keyed by the sender's ID), and the
\* block of a state is of the state's height.
VotesWereCast ==
  \A n \in Node, s \in Seqs : stateLog[n][s] # NoState =>
    /\ stateLog[n][s].block.height = s
    /\ Voters(stateLog[n][s].commits) \subseteq CommittersOf(s)
    /\ Voters(stateLog[n][s].prepares) \subseteq PreparersOf(s)

\* A PRE-PREPARE on the network comes from the primary of its view, carries a
\* block of that view and uses up its sequence number; all the blocks nodes
\* vote for, certify, re-issue or execute are blocks of such PRE-PREPAREs.
Proposed(b) == PhaseMsg("PrePrepare", Primary(b.view), b.view, b) \in sent

BlocksWereProposed ==
  /\ \A m \in sent :
       /\ m.type = "PrePrepare" =>
            /\ m.from = Primary(m.view)
            /\ m.block.view = m.view
            /\ m.block.height <= sequenceNum[m.from]
       /\ m.type \in {"PrePrepare", "Prepare", "Commit"} => Proposed(m.block)
       /\ m.type = "ViewChange" => \A b \in m.preparedSet : Proposed(b)
       /\ m.type = "NewView" => \A b \in m.prePrepares : Proposed(b)
  /\ \A m, w \in sent :
       m.type = "PrePrepare" /\ w.type = "PrePrepare"
         /\ m.view = w.view /\ m.block.height = w.block.height => m = w
  /\ \A n \in Node :
       /\ \A s \in Seqs : stateLog[n][s] # NoState => Proposed(stateLog[n][s].block)
       /\ timeout[n] # NoTimeout => \A b \in timeout[n].preparedSet : Proposed(b)
       /\ \A i \in 1 .. Len(committedBlocks[n]) : Proposed(committedBlocks[n][i])

\* The VIEW-CHANGEs a manager holds, and the ones a NEW-VIEW carries, were
\* broadcast, at most one per sender.
OnePerSender(vcs) == \A a, b \in vcs : a.newView = b.newView /\ a.from = b.from => a = b

ViewChangesWereSent ==
  /\ \A n \in Node :
       viewChangeMsgs[n] \subseteq sent /\ OnePerSender(viewChangeMsgs[n])
  /\ \A m \in sent : m.type = "NewView" =>
       m.viewChangeMsgs \subseteq sent /\ OnePerSender(m.viewChangeMsgs)

\* Once the timers of 2f+1 running validators fire, all of them reach the next
\* view, in whatever order their VIEW-CHANGEs arrive: startViewChange arming
\* the timer again saves a new primary whose own request was the last to come.
ViewChangeCompletes == <>(\A n \in Node \ Down : view[n] >= 1)

-----------------------------------------------------------------------------
(***************************************************************************)
(* What the comments, the documents and the tests say, and the code does   *)
(* not do.                                                                 *)
(***************************************************************************)

\* "When 2f+1 COMMITs have come together the block is executed": no node is
\* left in Prepared, with a commit quorum, when every message is handled.
CommitQuorumExecutes ==
  \A n \in Node \ Down : \A s \in Seqs :
    /\ stateLog[n][s] # NoState
    /\ stateLog[n][s].phase = Prepared
    /\ \A k \in Node \ Down : Pending(k) = {}
    => Cardinality(Voters(stateLog[n][s].commits)) < Quorum

\* "Prepare: 2f, oneself included": when every message is handled, no running
\* node is left in PrePrepared with 2f PREPAREs.
PreparesSuffice ==
  \A n \in Node \ Down : \A s \in Seqs :
    /\ stateLog[n][s] # NoState
    /\ stateLog[n][s].phase = PrePrepared
    /\ \A k \in Node \ Down : Pending(k) = {}
    => Cardinality(Voters(stateLog[n][s].prepares)) < Quorum - 1
=============================================================================
