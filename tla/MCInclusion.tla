---------------------------- MODULE MCInclusion ----------------------------
(***************************************************************************)
(* Instances of Inclusion for TLC.                                         *)
(***************************************************************************)
EXTENDS Inclusion

CONSTANTS n0, n1, t1, t2

MCNode == {n0, n1}
MCValidators == <<n0, n1>>

Client(n, tx, way) == [at |-> n, tx |-> tx, via |-> way]

\* Two transactions, each given to the first primary itself or to its reactor.
MCSubmissions ==
  {Client(n0, t1, "node"), Client(n0, t2, "node"),
   Client(n0, t1, "reactor"), Client(n0, t2, "reactor")}

MCPerishable == {<<n0, t2>>}
=============================================================================
