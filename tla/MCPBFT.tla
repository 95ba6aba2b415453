------------------------------- MODULE MCPBFT -------------------------------
(***************************************************************************)
(* Instances of PBFT for TLC.                                              *)
(***************************************************************************)
EXTENDS PBFTLedger, TLC

CONSTANTS n0, n1, n2, n3

MCNode == {n0, n1, n2, n3}
MCValidators == <<n0, n1, n2, n3>>

(***************************************************************************)
(* Only Validators tells the nodes apart, and with MaxView = 0 only its    *)
(* first element is ever read: the backups are interchangeable.            *)
(***************************************************************************)
Backups == Permutations({n1, n2, n3})

(***************************************************************************)
(* Rounds: the part of Spec in which the network is prompt.  A message is  *)
(* handled only when none of an earlier phase is waiting anywhere, by one  *)
(* node after the other, and timers fire and requests arrive only when no  *)
(* message is waiting and no timer goroutine is under way.  Every          *)
(* behaviour of RoundsSpec is one of Spec; it reaches further into views   *)
(* and heights for the same number of states.                              *)
(***************************************************************************)
Rank(m) ==
  CASE m.type = "ViewChange" -> 5 * m.newView - 1
    [] m.type = "NewView" -> 5 * m.view
    [] m.type = "PrePrepare" -> 5 * m.view + 1
    [] m.type = "Prepare" -> 5 * m.view + 2
    [] m.type = "Commit" -> 5 * m.view + 3

Waiting == UNION {Pending(k) : k \in Node \ Down}

\* The messages of the earliest phase that wait for n.
Earliest(n) == {m \in Pending(n) : \A w \in Waiting : Rank(m) <= Rank(w)}

\* n comes first in the validator order among the nodes with such messages.
FirstToAct(n) ==
  \E i \in 1 .. Len(Validators) :
    /\ Validators[i] = n
    /\ \A j \in 1 .. i - 1 : Validators[j] \in Down \/ Earliest(Validators[j]) = {}

Quiet == Waiting = {} /\ \A k \in Node : timeout[k] = NoTimeout

RoundsNext ==
  \E n \in Node \ Down :
    \/ Quiet /\ \E tx \in Txs : ProposeBlock(n, tx)
    \/ Quiet /\ SkipSequence(n)
    \/ Quiet /\ TimerFires(n)
    \/ Waiting = {} /\ StartViewChange(n)
    \/ FirstToAct(n) /\ \E m \in Earliest(n) : HandleMessage(n, m)

RoundsSpec == Init /\ [][RoundsNext]_vars
=============================================================================
