----------------------------- MODULE PBFTLedger -----------------------------
(***************************************************************************)
(* The engine implements Ledger: a block is chosen when its PRE-PREPARE is *)
(* broadcast, a validator's list is its committedBlocks, its mark the low  *)
(* water mark, and it is renewed in every view but the first.              *)
(***************************************************************************)
EXTENDS PBFT

ProposedBlocks == {m.block : m \in {w \in sent : w.type = "PrePrepare"}}

InLaterView == [n \in Node |-> view[n] > 0]

Abstract == INSTANCE Ledger WITH
  Block <- Blocks, chosen <- ProposedBlocks, ledger <- committedBlocks,
  mark <- lowWaterMark, renewed <- InLaterView

\* Every step of the engine chooses one block for a free place, appends one
\* chosen block to one list, takes one node to a later view, or changes nothing
\* of this; and a block is never appended for a height the list already has,
\* except after a view change and below the low water mark (proposeBlock,
\* executeBlock, AdvanceWatermarks, handleNewView).
ImplementsLedger == Abstract!Spec

(***************************************************************************)
(* The strengthening the proof needs: what is executed above the low water *)
(* mark is still marked so in the log; and in a node that has not been     *)
(* through a view change the log has nothing below the mark.               *)
(***************************************************************************)
Kept(log, low, list, v) ==
  \A s \in Seqs :
    /\ v = 0 /\ s <= low => log[s] = NoState
    /\ s > low /\ (\E i \in 1 .. Len(list) : list[i].height = s)
         => log[s] # NoState /\ log[s].executed

ExecutedIsKept ==
  \A n \in Node : Kept(stateLog[n], lowWaterMark[n], committedBlocks[n], view[n])
=============================================================================
