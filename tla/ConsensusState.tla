--------------------------- MODULE ConsensusState ---------------------------
(***************************************************************************)
(* The consensus state of one sequence number (consensus/pbft/state.go)    *)
(* and the arithmetic of the validator set (types/types.go), as operators  *)
(* on values.  An engine keeps one State per sequence number in its        *)
(* StateLog; the votes it has counted are indexed by the voting node, as   *)
(* PrepareMsgs and CommitMsgs are, and each remembers the view and the     *)
(* block (the digest) it was cast for.                                     *)
(***************************************************************************)
EXTENDS Integers, FiniteSets

CONSTANTS Node,     \* validator IDs
          NoVote,   \* no entry in PrepareMsgs / CommitMsgs
          NoState   \* no entry in StateLog.states

ASSUME NodeFinite == IsFiniteSet(Node)

(***************************************************************************)
(* Phases are ordered: IsPrepared and IsCommitted compare them with >=.    *)
(***************************************************************************)
Idle == 0
PrePrepared == 1
Prepared == 2
Committed == 3
Phase == Idle .. Committed

\* Mutant: 2f.
QuorumSizeOneShort(n) == 2 * ((n - 1) \div 3)

(***************************************************************************)
(* ValidatorSet.QuorumSize: 2f+1 with f = (n-1) / 3 in integer division.   *)
(***************************************************************************)
QuorumSize(n) == 2 * ((n - 1) \div 3) + 1

Quorum == QuorumSize(Cardinality(Node))

Vote(v, b) == [view |-> v, block |-> b]

Voters(votes) == {k \in Node : votes[k] # NoVote}

NewState(b) ==
  [phase |-> Idle, block |-> b, executed |-> FALSE,
   prepares |-> [k \in Node |-> NoVote],
   commits |-> [k \in Node |-> NoVote]]

(***************************************************************************)
(* SetPrePrepare replaces the block and moves the phase back to            *)
(* PrePrepared; the votes and the Executed flag stay as they were.         *)
(***************************************************************************)
\* Mutants: the phase counts up, and the flag is cleared with the new block.
SetPrePrepareNextPhase(st, b) == [st EXCEPT !.block = b, !.phase = @ + 1]

SetPrePrepareFresh(st, b) ==
  [st EXCEPT !.block = b, !.phase = PrePrepared, !.executed = FALSE]

SetPrePrepare(st, b) == [st EXCEPT !.block = b, !.phase = PrePrepared]

AddPrepare(st, k, vote) == [st EXCEPT !.prepares[k] = vote]

AddCommit(st, k, vote) == [st EXCEPT !.commits[k] = vote]

(***************************************************************************)
(* The quorum tests count the entries of the maps, whatever the view and   *)
(* the digest of each entry.                                               *)
(***************************************************************************)
\* Mutants: 2f votes are enough.
IsPreparedOneShort(st) ==
  /\ Cardinality(Voters(st.prepares)) >= Quorum - 1
  /\ st.phase >= PrePrepared

IsCommittedOneShort(st) ==
  /\ Cardinality(Voters(st.commits)) >= Quorum - 1
  /\ st.phase >= Prepared

IsPrepared(st) ==
  /\ Cardinality(Voters(st.prepares)) >= Quorum
  /\ st.phase >= PrePrepared

IsCommitted(st) ==
  /\ Cardinality(Voters(st.commits)) >= Quorum
  /\ st.phase >= Prepared

(***************************************************************************)
(* StateLog.GetState creates the state on first use.  Every caller sets    *)
(* the pre-prepare next, so the block given to NewState is never read.     *)
(***************************************************************************)
GetState(log, b) ==
  IF log[b.height] = NoState THEN NewState(b) ELSE log[b.height]

(***************************************************************************)
(* StateLog.AdvanceWatermarks, on the log: a checkpoint above the low      *)
(* water mark drops every state up to it, executed or not.                 *)
(***************************************************************************)
\* Mutant: the state of the checkpoint itself stays.
CollectGarbageBelow(log, low, cp) ==
  IF cp > low
  THEN [s \in DOMAIN log |-> IF s < cp THEN NoState ELSE log[s]]
  ELSE log

CollectGarbage(log, low, cp) ==
  IF cp > low
  THEN [s \in DOMAIN log |-> IF s <= cp THEN NoState ELSE log[s]]
  ELSE log
=============================================================================
