----------------------------- MODULE ViewChange -----------------------------
(***************************************************************************)
(* What the ViewChangeManager (consensus/pbft/view_change.go) computes     *)
(* from a set of VIEW-CHANGE messages: the pre-prepares a new primary      *)
(* re-issues, and the test every node makes on the NEW-VIEW it receives.   *)
(***************************************************************************)
EXTENDS ConsensusState

\* The sequence numbers of every checkpoint the messages report.
ReportedCheckpoints(vcs) == UNION {vc.checkpoints : vc \in vcs}

\* The blocks of every prepared certificate the messages carry.
ReportedPrepared(vcs) == UNION {vc.preparedSet : vc \in vcs}

(***************************************************************************)
(* The reported blocks above maxCheckpoint, the highest checkpoint.        *)
(***************************************************************************)
AboveCheckpoints(vcs) ==
  {b \in ReportedPrepared(vcs) : \A c \in ReportedCheckpoints(vcs) : b.height > c}

(***************************************************************************)
(* computePrePrepareSet takes, for each sequence number above the highest  *)
(* checkpoint, the first certificate it meets; the messages come out of a  *)
(* Go map, so any of them can be first.  Gaps stay gaps.                   *)
(***************************************************************************)
ComputePrePrepareSets(vcs) ==
  {pps \in SUBSET AboveCheckpoints(vcs) :
     \A b \in AboveCheckpoints(vcs) :
        Cardinality({p \in pps : p.height = b.height}) = 1}

(***************************************************************************)
(* verifyNewViewMsg.                                                       *)
(***************************************************************************)
VerifyNewViewMsg(nv) ==
  /\ Cardinality(nv.viewChangeMsgs) >= Quorum
  /\ \A vc \in nv.viewChangeMsgs : vc.newView = nv.view
  /\ \A b, c \in ReportedPrepared(nv.viewChangeMsgs) : b.height = c.height => b = c
  /\ \A p \in nv.prePrepares :
        /\ \A c \in ReportedCheckpoints(nv.viewChangeMsgs) : p.height > c
        /\ \A b \in ReportedPrepared(nv.viewChangeMsgs) : b.height = p.height => b = p
  /\ \A b \in AboveCheckpoints(nv.viewChangeMsgs) :
        \E p \in nv.prePrepares : p.height = b.height

(***************************************************************************)
(* viewChangeMsgs[newView][nodeID] = msg: one message per view and sender. *)
(***************************************************************************)
\* Mutant: a list, to which a second message of a sender is appended.
StoreViewChangeAppend(vcs, m) == vcs \cup {m}

StoreViewChange(vcs, m) ==
  {vc \in vcs : ~(vc.newView = m.newView /\ vc.from = m.from)} \cup {m}

ForView(vcs, v) == {vc \in vcs : vc.newView = v}
=============================================================================
