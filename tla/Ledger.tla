------------------------------- MODULE Ledger -------------------------------
(***************************************************************************)
(* What the consensus engine promises, without messages, votes, logs or    *)
(* checkpoints: each view chooses at most one block for a height, and      *)
(* every validator appends chosen blocks to a list it never rewrites.      *)
(*                                                                         *)
(* A validator takes a height once, with one exception: below its mark, up *)
(* to which it has forgotten what it executed, and after it was renewed by *)
(* a view change.  Nothing else ever lets it take a height again.          *)
(***************************************************************************)
EXTENDS Naturals, Sequences

CONSTANTS Node,   \* the validators
          Block   \* what can be chosen: records with a height and a view

VARIABLES chosen,   \* the blocks chosen so far
          ledger,   \* each validator's list
          mark,     \* the height up to which it has forgotten
          renewed   \* it has been through a view change

vars == <<chosen, ledger, mark, renewed>>

SameSlot(b, c) == b.view = c.view /\ b.height = c.height

Init ==
  /\ chosen = {}
  /\ ledger = [n \in Node |-> <<>>]
  /\ mark = [n \in Node |-> 0]
  /\ renewed = [n \in Node |-> FALSE]

Choose(b) ==
  /\ \A c \in chosen : ~SameSlot(b, c)
  /\ chosen' = chosen \cup {b}
  /\ UNCHANGED <<ledger, mark, renewed>>

\* A mark moves only to the height just taken, and only up.
Take(n, b) ==
  /\ b \in chosen
  /\ \A i \in 1 .. Len(ledger[n]) :
        ledger[n][i].height = b.height => renewed[n] /\ b.height <= mark[n]
  /\ ledger' = [ledger EXCEPT ![n] = Append(@, b)]
  /\ \/ UNCHANGED mark
     \/ b.height > mark[n] /\ mark' = [mark EXCEPT ![n] = b.height]
  /\ UNCHANGED <<chosen, renewed>>

Renew(n) ==
  /\ renewed' = [renewed EXCEPT ![n] = TRUE]
  /\ UNCHANGED <<chosen, ledger, mark>>

Next ==
  \/ \E b \in Block : Choose(b)
  \/ \E n \in Node : Renew(n) \/ \E b \in Block : Take(n, b)

Spec == Init /\ [][Next]_vars
=============================================================================
