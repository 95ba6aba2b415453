----------------------------- MODULE MCMempool -----------------------------
(***************************************************************************)
(* Instances of Mempool for TLC.                                           *)
(***************************************************************************)
EXTENDS Mempool

Sub(i, who, n, price) == [id |-> i, sender |-> who, nonce |-> n, gasPrice |-> price]

MCTxId == {"a", "b", "c", "d"}
MCSenders == {"alice"}
MCNoSender == "none"

\* One transaction that fills the pool, the others small.
MCSize == [i \in MCTxId |-> IF i = "d" THEN 4 ELSE 1]

\* Two nonces of one sender, a gossiped copy of the first without metadata, nonce
\* 0 twice from the same sender, a transaction of nobody and a dear and large
\* newcomer.
MCSubmissions ==
    {Sub("a", "alice", 1, 1), Sub("a", "none", 0, 0), Sub("b", "alice", 2, 3),
     Sub("b", "alice", 0, 3), Sub("c", "alice", 0, 3), Sub("c", "none", 0, 3),
     Sub("d", "alice", 3, 3)}

\* Blocks of one and of two transactions.
MCBlocks == {{"a"}, {"b", "c"}}
=============================================================================
