----------------------------- MODULE BoundedPool -----------------------------
(***************************************************************************)
(* What the transaction pool promises, without counters, indexes, nonces,  *)
(* caches or clocks: a set that stays within its limits.  It takes one     *)
(* item at a time, and for it gives up only cheaper ones, the cheapest it  *)
(* has, and none more than must go.  Items may leave it at any time.       *)
(***************************************************************************)
EXTENDS Naturals

CONSTANTS Item,      \* what can be pooled: records with a gasPrice
          Within(_)  \* a set of items is within the limits

VARIABLE pooled

Init == pooled = {}

Admit(t, out) ==
  /\ t \notin pooled
  /\ pooled' = (pooled \ out) \cup {t}
  /\ Within(pooled')
  /\ \A o \in out : o.gasPrice < t.gasPrice
  /\ \A o \in out, u \in pooled' : o.gasPrice <= u.gasPrice
  /\ out # {} => \E last \in out :
        /\ \A o \in out : o.gasPrice <= last.gasPrice
        /\ ~ Within(pooled' \cup {last})

Remove(out) ==
  /\ out # {}
  /\ pooled' = pooled \ out
  /\ Within(pooled')

Next ==
  \E out \in SUBSET pooled : Remove(out) \/ \E t \in Item : Admit(t, out)

Spec == Init /\ [][Next]_pooled
=============================================================================
