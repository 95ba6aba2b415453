--------------------------- MODULE Mempool_proofs ---------------------------
(***************************************************************************)
(* What is proved of the pool for every configuration, set of submissions  *)
(* and set of blocks: its type invariant, that a reaped batch keeps each   *)
(* sender's transactions in the order of their nonces, that what has left  *)
(* the pool stays out, that the counters and the index are exact, that the *)
(* limits hold, and that it implements BoundedPool.                        *)
(***************************************************************************)
EXTENDS Mempool, FiniteSetTheorems, TLAPS

\* The counter is the size of the map, and the map is finite.
Counted ==
    /\ IsFiniteSet(txStore)
    /\ txCount = Cardinality(txStore)

\* Arrivals are stamped with distinct times, all in the past.
Stamped ==
    /\ \A t \in txStore : t.time < clock
    /\ \A t, u \in txStore : t.time = u.time => t = u

\* The recorded nonce of a sender bounds the nonces of its pooled transactions.
NonceRecorded ==
    \A t \in txStore : t.sender \in Senders => t.nonce <= senderNonce[t.sender]

\* A sender's transactions arrive in the order of their nonces.
NonceOrder ==
    \A t, u \in txStore :
        t.sender = u.sender /\ t.sender \in Senders /\ t.time < u.time
            => t.nonce <= u.nonce

IInv == TypeOK /\ Counted /\ Stamped /\ NonceRecorded /\ NonceOrder

-----------------------------------------------------------------------------
\* Taking gone out of the pool and keeping the nonces preserves the invariant.
LEMMA RemovePreserves ==
    ASSUME IInv, NEW gone \in SUBSET txStore, NEW cached \in SUBSET txStore,
           RemoveTxs(gone), CacheRemoved(cached),
           UNCHANGED <<status, senderNonce, clock>>
    PROVE  IInv'
<1>1. IsFiniteSet(gone) /\ IsFiniteSet(txStore \ gone)
  BY FS_Subset DEF IInv, Counted
<1>2. Counted'
  <2>1. Cardinality(txStore \ gone) = Cardinality(txStore) - Cardinality(txStore \cap gone)
    BY FS_Difference DEF IInv, Counted
  <2>2. txStore \cap gone = gone
    OBVIOUS
  <2>3. QED  BY <1>1, <2>1, <2>2 DEF IInv, Counted, RemoveTxs
<1>3. txCount' \in Nat
  BY <1>1, <1>2, FS_CardinalityType DEF Counted, RemoveTxs
<1>4. \A i \in Ids(cached) : i \in TxId
  BY DEF Ids, IInv, TypeOK, Tx
<1>5. TypeOK'
  <2>1. senderIndex' \in [Senders -> SUBSET Tx]
    BY DEF RemoveTxs, IInv, TypeOK
  <2>2. recentlyRemoved' \subseteq [id: TxId, time: Nat]
    BY <1>4 DEF CacheRemoved, IInv, TypeOK
  <2>3. removedAt' \in [TxId -> Nat]
    BY <1>4 DEF CacheRemoved, IInv, TypeOK
  <2>4. txStore' \subseteq Tx
    BY DEF RemoveTxs, IInv, TypeOK
  <2>5. QED  BY <1>3, <2>1, <2>2, <2>3, <2>4 DEF IInv, TypeOK
<1>6. txStore' \subseteq txStore
  BY DEF RemoveTxs
<1>7. Stamped'
  BY <1>6 DEF IInv, Stamped
<1>8. NonceRecorded'
  BY <1>6 DEF IInv, NonceRecorded
<1>9. NonceOrder'
  BY <1>6 DEF IInv, NonceOrder
<1>10. QED  BY <1>2, <1>5, <1>7, <1>8, <1>9 DEF IInv

\* Admitting a submission preserves the invariant: its stamp is new, and its nonce
\* is above the recorded one, or the sender's pooled nonces are all 0.
LEMMA AddPreserves ==
    ASSUME IInv, NEW s \in Submissions, AddTx(s)
    PROVE  IInv'
<1> DEFINE tx == NewTxWithMeta(s)
<1>1. s \in [id: TxId, sender: Senders \cup {NoSender}, nonce: Nat, gasPrice: Nat]
  BY PoolAssumption
<1>2. tx \in Tx
  BY <1>1 DEF NewTxWithMeta, Tx, IInv, TypeOK
<1>3. /\ tx.id = s.id /\ tx.sender = s.sender /\ tx.nonce = s.nonce
      /\ tx.time = clock
  BY DEF NewTxWithMeta
<1>4. PICK gone \in SUBSET txStore : ReplaceTxs(gone, tx) /\ CacheRemoved(gone)
  BY DEF AddTx, EnsureCapacity, Cheaper
<1>5. clock' = clock + 1 /\ clock \in Nat /\ UNCHANGED status
  BY DEF AddTx, IInv, TypeOK
<1>6. CheckNonce(s) /\ tx.id \notin Ids(txStore)
  BY <1>3 DEF AddTx, Acceptable
<1>7. tx \notin txStore \ gone
  BY <1>6 DEF Ids
<1> HIDE DEF tx
<1>8. txStore' = (txStore \ gone) \cup {tx}
  BY <1>4 DEF ReplaceTxs
<1>9. Counted' /\ txCount' \in Nat
  <2>1. IsFiniteSet(gone) /\ IsFiniteSet(txStore \ gone)
    BY FS_Subset DEF IInv, Counted
  <2>2. txStore \cap gone = gone
    OBVIOUS
  <2>3. Cardinality(txStore \ gone) = Cardinality(txStore) - Cardinality(gone)
    BY FS_Difference, <2>2 DEF IInv, Counted
  <2>4. /\ IsFiniteSet(txStore')
        /\ Cardinality(txStore') = Cardinality(txStore \ gone) + 1
    BY <1>7, <1>8, <2>1, FS_AddElement
  <2>5. /\ Cardinality(txStore') \in Nat /\ Cardinality(txStore \ gone) \in Nat
        /\ Cardinality(gone) \in Nat /\ Cardinality(txStore) \in Nat
    BY <2>1, <2>4, FS_CardinalityType DEF IInv, Counted
  <2>6. txCount' = txCount - Cardinality(gone) + 1 /\ txCount = Cardinality(txStore)
    BY <1>4 DEF ReplaceTxs, IInv, Counted
  <2>7. QED  BY <2>3, <2>4, <2>5, <2>6 DEF Counted
<1>10. TypeOK'
  <2>1. \A i \in Ids(gone) : i \in TxId
    BY DEF Ids, IInv, TypeOK, Tx
  <2>2. senderIndex' \in [Senders -> SUBSET Tx]
    BY <1>2, <1>4 DEF ReplaceTxs, IInv, TypeOK
  <2>3. senderNonce' \in [Senders -> Nat]
    BY <1>1, <1>3, <1>4 DEF ReplaceTxs, IInv, TypeOK
  <2>4. recentlyRemoved' \subseteq [id: TxId, time: Nat]
    BY <1>4, <2>1 DEF CacheRemoved, IInv, TypeOK
  <2>5. removedAt' \in [TxId -> Nat]
    BY <1>4, <2>1 DEF CacheRemoved, IInv, TypeOK
  <2>6. txStore' \subseteq Tx
    BY <1>2, <1>8 DEF IInv, TypeOK
  <2>7. QED  BY <1>5, <1>9, <2>2, <2>3, <2>4, <2>5, <2>6 DEF IInv, TypeOK
<1>11. \A t \in txStore : t.time \in Nat /\ t.nonce \in Nat /\ t.time < clock
  BY DEF IInv, TypeOK, Tx, Stamped
<1>12. Stamped'
  <2>1. \A t \in txStore' : t.time < clock'
    BY <1>3, <1>5, <1>8, <1>11
  <2>2. \A t, u \in txStore' : t.time = u.time => t = u
    BY <1>3, <1>5, <1>8, <1>11 DEF IInv, Stamped
  <2>3. QED  BY <2>1, <2>2 DEF Stamped
<1>13. \A x \in Senders :
          /\ senderNonce[x] \in Nat /\ senderNonce[x] <= senderNonce'[x]
          /\ x = tx.sender => tx.nonce <= senderNonce'[x]
  BY <1>1, <1>3, <1>4 DEF ReplaceTxs, IInv, TypeOK
<1>14. NonceRecorded'
  <2> SUFFICES ASSUME NEW t \in txStore', t.sender \in Senders
               PROVE  t.nonce <= senderNonce'[t.sender]
    BY DEF NonceRecorded
  <2>1. CASE t = tx
    BY <2>1, <1>13
  <2>2. CASE t \in txStore
    <3>1. t.nonce <= senderNonce[t.sender]
      BY <2>2 DEF IInv, NonceRecorded
    <3>2. senderNonce'[t.sender] \in Nat
      BY <1>10 DEF TypeOK
    <3>3. QED  BY <3>1, <3>2, <2>2, <1>11, <1>13
  <2>3. QED  BY <2>1, <2>2, <1>8
<1>15. NonceOrder'
  <2> SUFFICES ASSUME NEW t \in txStore', NEW u \in txStore',
                      t.sender = u.sender, t.sender \in Senders, t.time < u.time
               PROVE  t.nonce <= u.nonce
    BY DEF NonceOrder
  <2>1. t \in txStore
    BY <1>3, <1>5, <1>8, <1>11
  <2>2. CASE u \in txStore
    BY <2>1, <2>2 DEF IInv, NonceOrder
  <2>3. CASE u = tx
    <3>1. t.nonce <= senderNonce[t.sender] /\ senderNonce[t.sender] \in Nat
      BY <2>1 DEF IInv, NonceRecorded, TypeOK
    <3>2. senderNonce[t.sender] = 0 \/ tx.nonce > senderNonce[t.sender]
      BY <2>3, <1>3, <1>6 DEF CheckNonce
    <3>3. tx.nonce \in Nat
      BY <1>1, <1>3
    <3>4. QED  BY <2>1, <2>3, <3>1, <3>2, <3>3, <1>11
  <2>4. QED  BY <2>2, <2>3, <1>8
<1>16. QED  BY <1>9, <1>10, <1>12, <1>14, <1>15 DEF IInv

\* The invariant is preserved by every step of the pool.
LEMMA StepPreserves == IInv /\ [Next]_vars => IInv'
<1> SUFFICES ASSUME IInv, [Next]_vars PROVE IInv'
  OBVIOUS
<1> USE DEF pool
<1>1. ASSUME NEW s \in Submissions, AddTx(s) PROVE IInv'
  BY <1>1, AddPreserves
<1>2. ASSUME NEW s \in Submissions, AddTxFull(s) PROVE IInv'
  <2>1. Cheaper(s) \in SUBSET txStore
    BY DEF Cheaper
  <2>2. QED  BY <1>2, <2>1, RemovePreserves DEF AddTxFull
<1>3. ASSUME NEW committed \in Blocks, Update(committed) PROVE IInv'
  <2> DEFINE gone == {t \in txStore : t.id \in committed}
  <2>1. PICK failed \in SUBSET (txStore \ gone) : RemoveTxs(gone \cup failed)
    BY <1>3 DEF Update, Rechecked
  <2>2. CacheRemoved(gone) /\ UNCHANGED <<status, senderNonce, clock>>
    BY <1>3 DEF Update
  <2>3. gone \cup failed \in SUBSET txStore /\ gone \in SUBSET txStore
    OBVIOUS
  <2> HIDE DEF gone
  <2>4. QED  BY <2>1, <2>2, <2>3, RemovePreserves
<1>4. CASE ExpireTxs
  <2> DEFINE expired == {t \in txStore : clock - t.time > TTL}
  <2>1. /\ RemoveTxs(expired) /\ CacheRemoved(expired)
        /\ UNCHANGED <<status, senderNonce, clock>>
    BY <1>4 DEF ExpireTxs
  <2>2. expired \in SUBSET txStore
    OBVIOUS
  <2> HIDE DEF expired
  <2>3. QED  BY <2>1, <2>2, RemovePreserves
<1>5. CASE CleanupCache
  <2>1. recentlyRemoved' \subseteq recentlyRemoved
    BY <1>5 DEF CleanupCache, Fresh
  <2>2. QED
    BY <1>5, <2>1 DEF CleanupCache, IInv, TypeOK, Counted, Stamped,
                      NonceRecorded, NonceOrder
<1>6. CASE Flush
  <2>1. IsFiniteSet({}) /\ Cardinality({}) = 0
    BY FS_EmptySet
  <2>2. QED
    BY <1>6, <2>1 DEF Flush, IInv, TypeOK, Counted, Stamped,
                      NonceRecorded, NonceOrder
<1>7. CASE Start \/ Stop
  BY <1>7 DEF Start, Stop, IInv, TypeOK, Counted, Stamped, NonceRecorded, NonceOrder
<1>8. CASE Tick
  <2>1. \A t \in txStore : t.time \in Nat
    BY DEF IInv, TypeOK, Tx
  <2>2. clock \in Nat /\ clock' = clock + 1 /\ UNCHANGED txStore
    BY <1>8 DEF Tick, IInv, TypeOK
  <2>3. Stamped'
    BY <2>1, <2>2 DEF IInv, Stamped
  <2>4. QED
    BY <1>8, <2>2, <2>3 DEF Tick, IInv, TypeOK, Counted, NonceRecorded, NonceOrder
<1>9. CASE UNCHANGED vars
  BY <1>9 DEF vars, IInv, TypeOK, Counted, Stamped, NonceRecorded, NonceOrder
<1>10. QED
  BY <1>1, <1>2, <1>3, <1>4, <1>5, <1>6, <1>7, <1>8, <1>9 DEF Next

\* The initial pool satisfies the invariant.
LEMMA InitHolds == Init => IInv
<1> SUFFICES ASSUME Init PROVE IInv
  OBVIOUS
<1>1. IsFiniteSet({}) /\ Cardinality({}) = 0
  BY FS_EmptySet
<1>2. QED
  BY <1>1 DEF Init, Never, IInv, TypeOK, Counted, Stamped, NonceRecorded, NonceOrder

\* The invariant holds throughout.
LEMMA PoolInvariant == Spec => []IInv
<1>1. QED  BY InitHolds, StepPreserves, PTL DEF Spec

\* Every method of the pool keeps its state well formed; in particular txCount,
\* which the methods add to and subtract from, never goes below zero.
THEOREM PoolTypeCorrect == Spec => []TypeOK
<1>1. IInv => TypeOK
  BY DEF IInv
<1>2. QED  BY <1>1, PoolInvariant, PTL

\* Fewer transactions arrived before the earlier of two.
LEMMA EarlierRank ==
    ASSUME IInv, NEW t \in txStore, NEW u \in txStore, u.time < t.time
    PROVE  /\ Cardinality({w \in txStore : w.time < u.time})
                 <= Cardinality({w \in txStore : w.time < t.time})
           /\ Cardinality({w \in txStore : w.time < u.time}) \in Nat
           /\ Cardinality({w \in txStore : w.time < t.time}) \in Nat
<1> DEFINE U == {w \in txStore : w.time < u.time}
           T == {w \in txStore : w.time < t.time}
<1>1. \A w \in txStore : w.time \in Nat
  BY DEF IInv, TypeOK, Tx
<1>2. U \subseteq T /\ T \subseteq txStore
  BY <1>1
<1>3. IsFiniteSet(T) /\ IsFiniteSet(U)
  BY <1>2, FS_Subset DEF IInv, Counted
<1> HIDE DEF U, T
<1>4. Cardinality(U) <= Cardinality(T)
  BY <1>2, <1>3, FS_Subset
<1>5. Cardinality(U) \in Nat /\ Cardinality(T) \in Nat
  BY <1>3, FS_CardinalityType
<1>6. QED  BY <1>4, <1>5 DEF U, T

\* proposeBlock may take any batch ReapMaxTxs returns: with a transaction it gets
\* every pooled one of the same sender with a lower nonce, and gets it first,
\* whatever was evicted, expired, committed or flushed before.
THEOREM ReapNonceOrder == Spec => []ReapKeepsNonceOrder
<1>1. IInv => ReapKeepsNonceOrder
  <2> SUFFICES ASSUME IInv, NEW max \in 0 .. MaxBatchTxs,
                      NEW t \in txStore, NEW u \in txStore,
                      t \in ReapMaxTxs(max), u.sender = t.sender,
                      t.sender # NoSender, u.nonce < t.nonce
               PROVE  u \in ReapMaxTxs(max) /\ u.time < t.time
    BY DEF ReapKeepsNonceOrder
  <2>1. /\ t.time \in Nat /\ u.time \in Nat /\ t.nonce \in Nat /\ u.nonce \in Nat
        /\ t.sender \in Senders
    BY DEF IInv, TypeOK, Tx
  <2>2. u.time < t.time
    <3>1. ~ (t.time < u.time)
      BY <2>1 DEF IInv, NonceOrder
    <3>2. t.time # u.time
      BY <2>1 DEF IInv, Stamped
    <3>3. QED  BY <2>1, <3>1, <3>2
  <2>3. BatchLimit(max) \in Nat
    BY LimitsAssumption DEF BatchLimit
  <2>4. u \in ReapMaxTxs(max)
    <3> DEFINE before(x) == Cardinality({w \in txStore : w.time < x.time})
    <3>1. before(t) < BatchLimit(max)
      BY DEF ReapMaxTxs
    <3>2. before(u) <= before(t) /\ before(u) \in Nat /\ before(t) \in Nat
      BY <2>2, EarlierRank
    <3>3. before(u) < BatchLimit(max)
      <4> HIDE DEF before
      <4>1. QED  BY <3>1, <3>2, <2>3
    <3>4. QED  BY <3>3 DEF ReapMaxTxs
  <2>5. QED  BY <2>2, <2>4
<1>2. QED  BY <1>1, PoolInvariant, PTL

-----------------------------------------------------------------------------
(***************************************************************************)
(* RemovedStaysOut.  The duplicate cache holds for an id the time it was   *)
(* put there last; an id that is no longer in it left long ago or has been *)
(* pushed out by CacheSize others.                                         *)
(***************************************************************************)
IdsOnce == \A t, u \in txStore : t.id = u.id => t = u

CacheTimes ==
    /\ \A r \in recentlyRemoved : r.time = removedAt[r.id]
    /\ \A i \in TxId : removedAt[i] <= clock

\* Seen at time now, the removal of id no longer keeps it out.
Forgotten(i, now) ==
    \/ now - removedAt[i] > TTL
    \/ Cardinality(LeftSince(i)) >= CacheSize

OutOfCache ==
    \A i \in TxId :
        removedAt[i] # Never /\ i \notin Ids(recentlyRemoved) => Forgotten(i, clock)

Departed == IdsOnce /\ CacheTimes /\ OutOfCache /\ RemovedStaysOut

\* Removals after that of i only add to those that left since, and time goes on.
LEMMA StaysForgotten ==
    ASSUME TypeOK, TypeOK', NEW i \in TxId, NEW now \in Nat, NEW later \in Nat, now <= later,
           removedAt'[i] = removedAt[i], \A j \in TxId : removedAt[j] <= removedAt'[j],
           Forgotten(i, now)
    PROVE  later - removedAt'[i] > TTL \/ Cardinality(LeftSince(i)') >= CacheSize
<1>1. removedAt[i] \in Nat /\ TTL \in Nat /\ CacheSize \in Nat
  BY LimitsAssumption DEF TypeOK
<1>2. LeftSince(i) \subseteq LeftSince(i)' /\ LeftSince(i)' \subseteq TxId
  <2>1. \A j \in TxId : removedAt[j] \in Nat /\ removedAt'[j] \in Nat
    BY DEF TypeOK
  <2>2. QED  BY <1>1, <2>1 DEF LeftSince
<1>3. IsFiniteSet(LeftSince(i)')
  BY <1>2, PoolAssumption, FS_Subset
<1>4. /\ Cardinality(LeftSince(i)) <= Cardinality(LeftSince(i)')
      /\ Cardinality(LeftSince(i)) \in Nat /\ Cardinality(LeftSince(i)') \in Nat
  BY <1>2, <1>3, FS_Subset, FS_CardinalityType
<1>5. QED  BY <1>1, <1>4 DEF Forgotten

\* A step in which nothing enters or leaves the cache and nothing is admitted.
LEMMA QuietStep ==
    ASSUME TypeOK, TypeOK', Departed, txStore' \subseteq txStore, clock <= clock',
           UNCHANGED <<recentlyRemoved, removedAt>>
    PROVE  Departed'
<1>1. clock \in Nat /\ clock' \in Nat /\ \A i \in TxId : removedAt[i] \in Nat
  BY DEF TypeOK
<1>2. IdsOnce'
  BY DEF Departed, IdsOnce
<1>3. CacheTimes'
  BY <1>1 DEF Departed, CacheTimes
<1>4. OutOfCache'
  <2> SUFFICES ASSUME NEW i \in TxId, removedAt'[i] # Never, i \notin Ids(recentlyRemoved')
               PROVE  Forgotten(i, clock)'
    BY DEF OutOfCache
  <2>1. Forgotten(i, clock)
    BY DEF Departed, OutOfCache
  <2>2. QED  BY <1>1, <2>1, StaysForgotten DEF Forgotten
<1>5. RemovedStaysOut'
  BY DEF Departed, RemovedStaysOut, LeftSince
<1>6. QED  BY <1>2, <1>3, <1>4, <1>5 DEF Departed

\* Transactions leave the pool through the cache; one that is admitted was in
\* neither.
LEMMA LeaveStep ==
    ASSUME TypeOK, TypeOK', Departed, NEW gone \in SUBSET txStore, CacheRemoved(gone),
           clock <= clock', IdsOnce',
           \A t \in txStore' :
              \/ t \in txStore \ gone
              \/ /\ t.id \notin Ids(txStore) /\ t.id \notin Ids(recentlyRemoved)
                 /\ t.time = clock
    PROVE  Departed'
<1>1. clock \in Nat /\ clock' \in Nat
  BY DEF TypeOK
<1>2. /\ Ids(gone) \subseteq TxId
      /\ \A i \in TxId : removedAt'[i] = IF i \in Ids(gone) THEN clock ELSE removedAt[i]
  BY DEF Ids, TypeOK, Tx, CacheRemoved
<1>3. \A i \in TxId : removedAt[i] \in Nat /\ removedAt[i] <= removedAt'[i]
  BY <1>1, <1>2 DEF TypeOK, Departed, CacheTimes
<1>4. CacheTimes'
  <2>1. \A r \in recentlyRemoved' : r.time = removedAt'[r.id]
    <3> SUFFICES ASSUME NEW r \in recentlyRemoved' PROVE r.time = removedAt'[r.id]
      OBVIOUS
    <3>1. CASE r \in recentlyRemoved /\ r.id \notin Ids(gone)
      BY <1>2, <3>1 DEF TypeOK, Departed, CacheTimes
    <3>2. CASE \E i \in Ids(gone) : r = [id |-> i, time |-> clock]
      BY <1>2, <3>2
    <3>3. QED  BY <3>1, <3>2 DEF CacheRemoved
  <2>2. \A i \in TxId : removedAt'[i] <= clock'
    BY <1>1, <1>2, <1>3 DEF Departed, CacheTimes
  <2>3. QED  BY <2>1, <2>2 DEF CacheTimes
<1>5. OutOfCache'
  <2> SUFFICES ASSUME NEW i \in TxId, removedAt'[i] # Never, i \notin Ids(recentlyRemoved')
               PROVE  Forgotten(i, clock)'
    BY DEF OutOfCache
  <2>1. i \notin Ids(gone)
    <3>1. ASSUME i \in Ids(gone) PROVE FALSE
      <4>1. [id |-> i, time |-> clock] \in recentlyRemoved'
        BY <3>1 DEF CacheRemoved
      <4>2. QED  BY <4>1 DEF Ids
    <3>2. QED  BY <3>1
  <2>2. i \notin Ids(recentlyRemoved)
    BY <2>1 DEF Ids, CacheRemoved
  <2>3. removedAt'[i] = removedAt[i]
    BY <1>2, <2>1
  <2>4. Forgotten(i, clock)
    BY <2>2, <2>3 DEF Departed, OutOfCache
  <2>5. QED  BY <1>1, <1>3, <2>3, <2>4, StaysForgotten DEF Forgotten
<1>6. RemovedStaysOut'
  <2> SUFFICES ASSUME NEW t \in txStore', removedAt'[t.id] # Never
               PROVE  \/ t.time - removedAt'[t.id] > TTL
                      \/ Cardinality(LeftSince(t.id)') >= CacheSize
    BY DEF RemovedStaysOut
  <2>1. t.id \in TxId /\ t.time \in Nat
    BY DEF TypeOK, Tx
  <2>2. t.id \notin Ids(gone)
    <3>1. CASE t \in txStore \ gone
      BY <3>1 DEF Ids, Departed, IdsOnce
    <3>2. CASE t.id \notin Ids(txStore)
      BY <3>2 DEF Ids
    <3>3. QED  BY <3>1, <3>2
  <2>3. removedAt'[t.id] = removedAt[t.id]
    BY <1>2, <2>1, <2>2
  <2>4. Forgotten(t.id, t.time)
    <3>1. CASE t \in txStore \ gone
      BY <2>3, <3>1 DEF Departed, RemovedStaysOut, Forgotten
    <3>2. CASE t.id \notin Ids(recentlyRemoved) /\ t.time = clock
      BY <2>1, <2>3, <3>2 DEF Departed, OutOfCache
    <3>3. QED  BY <3>1, <3>2
  <2>5. QED  BY <1>3, <2>1, <2>3, <2>4, StaysForgotten
<1>7. QED  BY <1>4, <1>5, <1>6 DEF Departed

\* cleanupCache drops what is older than TTL and what CacheSize younger entries
\* push out.
LEMMA CleanupStep ==
    ASSUME TypeOK, TypeOK', Departed, CleanupCache
    PROVE  Departed'
<1>1. PICK kept \in SUBSET Fresh :
        /\ \A r \in Fresh \ kept, k \in kept : r.time <= k.time
        /\ IF Cardinality(Fresh) > CacheSize
           THEN Cardinality(kept) = CacheSize ELSE kept = Fresh
        /\ recentlyRemoved' = kept
  BY DEF CleanupCache
<1>2. kept \subseteq recentlyRemoved /\ UNCHANGED <<txStore, clock, removedAt>>
  BY <1>1 DEF CleanupCache, Fresh, pool
<1>3. clock \in Nat /\ TTL \in Nat /\ CacheSize \in Nat
      /\ \A i \in TxId : removedAt[i] \in Nat
  BY LimitsAssumption DEF TypeOK
<1>4. \A r \in recentlyRemoved : r.id \in TxId /\ r = [id |-> r.id, time |-> removedAt[r.id]]
  BY DEF TypeOK, Departed, CacheTimes
<1>5. OutOfCache'
  <2> SUFFICES ASSUME NEW i \in TxId, removedAt[i] # Never, i \notin Ids(kept)
               PROVE  Forgotten(i, clock)
    BY <1>1, <1>2 DEF OutOfCache, Forgotten, LeftSince
  <2>1. CASE i \notin Ids(recentlyRemoved)
    BY <2>1 DEF Departed, OutOfCache
  <2>2. ASSUME NEW r \in recentlyRemoved, r.id = i PROVE Forgotten(i, clock)
    <3>1. r.time = removedAt[i] /\ r \notin kept
      BY <2>2 DEF Ids, Departed, CacheTimes
    <3>2. CASE r \notin Fresh
      <4>1. ~ (removedAt[i] >= clock - TTL)
        BY <3>1, <3>2 DEF Fresh
      <4>2. QED  BY <1>3, <4>1 DEF Forgotten
    <3>3. CASE r \in Fresh
      <4>1. Cardinality(kept) = CacheSize /\ \A k \in kept : removedAt[i] <= k.time
        BY <1>1, <3>1, <3>3
      <4>2. \A k \in kept : k.id \in LeftSince(i)
        <5> SUFFICES ASSUME NEW k \in kept PROVE k.id \in LeftSince(i)
          OBVIOUS
        <5>1. k.id \in TxId /\ k.id # i
          BY <1>2, <1>4, <2>2, <3>1
        <5>2. k.time = removedAt[k.id] /\ removedAt[i] <= k.time
          BY <1>2, <1>4, <4>1
        <5>3. QED  BY <1>3, <5>1, <5>2 DEF LeftSince
      <4>3. [k \in kept |-> k.id] \in Injection(kept, LeftSince(i))
        <5>1. \A k, l \in kept : k.id = l.id => k = l
          BY <1>2, <1>4
        <5>2. QED  BY <4>2, <5>1 DEF Injection, IsInjective
      <4>4. IsFiniteSet(LeftSince(i))
        BY PoolAssumption, FS_Subset DEF LeftSince
      <4>5. CacheSize <= Cardinality(LeftSince(i))
        BY <4>1, <4>3, <4>4, FS_Injection
      <4>6. Cardinality(LeftSince(i)) \in Nat
        BY <4>4, FS_CardinalityType
      <4>7. QED  BY <1>3, <4>5, <4>6 DEF Forgotten
    <3>4. QED  BY <3>2, <3>3
  <2>3. QED  BY <2>1, <2>2 DEF Ids
<1>6. CacheTimes' /\ IdsOnce' /\ RemovedStaysOut'
  BY <1>1, <1>2 DEF Departed, CacheTimes, IdsOnce, RemovedStaysOut, LeftSince
<1>7. QED  BY <1>5, <1>6 DEF Departed

\* Every step of the pool.
LEMMA DepartedStep == TypeOK /\ TypeOK' /\ Departed /\ [Next]_vars => Departed'
<1> SUFFICES ASSUME TypeOK, TypeOK', Departed, [Next]_vars PROVE Departed'
  OBVIOUS
<1>1. clock \in Nat
  BY DEF TypeOK
<1>2. ASSUME NEW s \in Submissions, AddTx(s) PROVE Departed'
  <2>1. PICK gone \in EnsureCapacity(s) : ReplaceTxs(gone, NewTxWithMeta(s)) /\ CacheRemoved(gone)
    BY <1>2 DEF AddTx
  <2>2. PICK tx : tx = NewTxWithMeta(s)
    OBVIOUS
  <2>3. gone \in SUBSET txStore
    BY <2>1 DEF EnsureCapacity, Cheaper
  <2>4. txStore' = (txStore \ gone) \cup {tx} /\ clock' = clock + 1
    BY <1>2, <2>1, <2>2 DEF AddTx, ReplaceTxs
  <2>5. tx.id \notin Ids(txStore) /\ tx.id \notin Ids(recentlyRemoved) /\ tx.time = clock
    BY <1>2, <2>2 DEF AddTx, Acceptable, NewTxWithMeta
  <2>6. IdsOnce'
    BY <2>4, <2>5 DEF Departed, IdsOnce, Ids
  <2>7. QED  BY <1>1, <2>1, <2>3, <2>4, <2>5, <2>6, LeaveStep
<1>3. ASSUME NEW gone \in SUBSET txStore, CacheRemoved(gone), txStore' \subseteq txStore \ gone,
             UNCHANGED clock
      PROVE  Departed'
  <2>1. IdsOnce'
    BY <1>3 DEF Departed, IdsOnce
  <2>2. QED  BY <1>1, <1>3, <2>1, LeaveStep
<1>4. ASSUME NEW s \in Submissions, AddTxFull(s) PROVE Departed'
  <2>1. Cheaper(s) \in SUBSET txStore
    BY DEF Cheaper
  <2>2. QED  BY <1>3, <1>4, <2>1 DEF AddTxFull, RemoveTxs
<1>5. ASSUME NEW committed \in Blocks, Update(committed) PROVE Departed'
  <2>1. PICK gone : gone = {t \in txStore : t.id \in committed}
    OBVIOUS
  <2>2. PICK failed : RemoveTxs(gone \cup failed)
    BY <1>5, <2>1 DEF Update
  <2>3. gone \in SUBSET txStore /\ CacheRemoved(gone) /\ UNCHANGED clock
    BY <1>5, <2>1 DEF Update
  <2>4. QED  BY <1>3, <2>2, <2>3 DEF RemoveTxs
<1>6. CASE ExpireTxs
  <2>1. PICK expired : expired = {t \in txStore : clock - t.time > TTL}
    OBVIOUS
  <2>2. /\ expired \in SUBSET txStore /\ CacheRemoved(expired) /\ RemoveTxs(expired)
        /\ UNCHANGED clock
    BY <1>6, <2>1 DEF ExpireTxs
  <2>3. QED  BY <1>3, <2>2 DEF RemoveTxs
<1>7. CASE CleanupCache
  BY <1>7, CleanupStep
<1>8. CASE Flush \/ Start \/ Stop \/ Tick \/ UNCHANGED vars
  <2>1. /\ txStore' \subseteq txStore /\ clock <= clock'
        /\ UNCHANGED <<recentlyRemoved, removedAt>>
    BY <1>1, <1>8 DEF Flush, Start, Stop, Tick, vars, pool
  <2>2. QED  BY <2>1, QuietStep
<1>9. QED
  BY <1>2, <1>4, <1>5, <1>6, <1>7, <1>8 DEF Next

\* AddTx admits a transaction that was committed, evicted or expired only after
\* TTL or once CacheSize others have left since, however expireTxs, cleanupCache
\* and Update interleave.
THEOREM RemovedTransactionsStayOut == Spec => []RemovedStaysOut
<1>1. Init => Departed
  BY DEF Init, Never, Departed, IdsOnce, CacheTimes, OutOfCache, RemovedStaysOut
<1>2. Departed => RemovedStaysOut
  BY DEF Departed
<1>3. QED  BY <1>1, <1>2, DepartedStep, PoolTypeCorrect, PTL DEF Spec

-----------------------------------------------------------------------------
(***************************************************************************)
(* Accounting and Capacity.  The bytes of a set of transactions are the    *)
(* elements of a disjoint union, so that taking transactions out and       *)
(* putting one in subtract and add their sizes.                            *)
(***************************************************************************)
\* The bytes of all of txs, whose number is Bytes(txs).
AllBytes(txs) == UNION {BytesOf(t) : t \in txs}

\* One transaction has as many bytes as its size says.
LEMMA BytesOfOne ==
    ASSUME NEW t, t.id \in TxId
    PROVE  IsFiniteSet(BytesOf(t)) /\ Cardinality(BytesOf(t)) = Size[t.id]
<1>1. Size[t.id] \in Nat
  BY PoolAssumption
<1>2. PICK n \in Nat : n = Size[t.id]
  BY <1>1
<1>3. IsFiniteSet(1 .. n) /\ Cardinality(1 .. n) = n
  <2>1. /\ IsFiniteSet(1 .. n)
        /\ Cardinality(1 .. n) = IF 1 > n THEN 0 ELSE n - 1 + 1
    BY FS_Interval
  <2>2. QED  BY <2>1
<1>4. IsFiniteSet({t}) /\ Cardinality({t}) = 1
  BY FS_Singleton
<1>5. /\ IsFiniteSet({t} \X (1 .. n))
      /\ Cardinality({t} \X (1 .. n)) = Cardinality({t}) * Cardinality(1 .. n)
  BY <1>3, <1>4, FS_Product
<1>6. QED  BY <1>2, <1>3, <1>4, <1>5 DEF BytesOf

\* Finitely many transactions have finitely many bytes.
LEMMA BytesFinite ==
    ASSUME NEW txs, IsFiniteSet(txs), \A t \in txs : t.id \in TxId
    PROVE  IsFiniteSet(AllBytes(txs)) /\ Bytes(txs) \in Nat
<1> DEFINE all == {BytesOf(t) : t \in txs}
           f == [t \in txs |-> BytesOf(t)]
<1>1. f \in Surjection(txs, all)
  BY DEF Surjection
<1>2. IsFiniteSet(all)
  <2> HIDE DEF f, all
  <2>1. QED  BY <1>1, FS_Surjection
<1>3. \A b \in all : IsFiniteSet(b)
  BY BytesOfOne
<1>4. IsFiniteSet(UNION all)
  <2> HIDE DEF all
  <2>1. QED  BY <1>2, <1>3, FS_UNION
<1>5. QED  BY <1>4, FS_CardinalityType DEF AllBytes, Bytes

\* Taking gone out takes out its bytes.
LEMMA BytesWithout ==
    ASSUME NEW txs, IsFiniteSet(txs), \A t \in txs : t.id \in TxId,
           NEW gone \in SUBSET txs
    PROVE  /\ Bytes(txs) \in Nat /\ Bytes(gone) \in Nat
           /\ Bytes(txs \ gone) = Bytes(txs) - Bytes(gone)
<1>1. IsFiniteSet(gone)
  BY FS_Subset
<1>2. Bytes(txs) \in Nat /\ Bytes(gone) \in Nat /\ IsFiniteSet(AllBytes(txs))
  BY <1>1, BytesFinite
<1>3. AllBytes(txs \ gone) = AllBytes(txs) \ AllBytes(gone)
  BY DEF AllBytes, BytesOf
<1>4. AllBytes(txs) \cap AllBytes(gone) = AllBytes(gone)
  BY DEF AllBytes
<1>5. Cardinality(AllBytes(txs \ gone))
          = Cardinality(AllBytes(txs)) - Cardinality(AllBytes(gone))
  BY <1>2, <1>3, <1>4, FS_Difference
<1>6. QED  BY <1>2, <1>5 DEF AllBytes, Bytes

\* A new transaction adds its own.
LEMMA BytesWith ==
    ASSUME NEW txs, IsFiniteSet(txs), \A t \in txs : t.id \in TxId,
           NEW tx, tx.id \in TxId, tx \notin txs
    PROVE  Bytes(txs \cup {tx}) = Bytes(txs) + Size[tx.id]
<1>1. IsFiniteSet(AllBytes(txs)) /\ Bytes(txs) \in Nat
  BY BytesFinite
<1>2. IsFiniteSet(BytesOf(tx)) /\ Cardinality(BytesOf(tx)) = Size[tx.id]
  BY BytesOfOne
<1>3. Size[tx.id] \in Nat
  BY PoolAssumption
<1>4. AllBytes(txs \cup {tx}) = AllBytes(txs) \cup BytesOf(tx)
  BY DEF AllBytes
<1>5. AllBytes(txs) \cap BytesOf(tx) = {}
  BY DEF AllBytes, BytesOf
<1>6. Cardinality(AllBytes(txs \cup {tx}))
          = Cardinality(AllBytes(txs)) + Cardinality(BytesOf(tx)) - Cardinality({})
  BY <1>1, <1>2, <1>4, <1>5, FS_Union
<1>7. Cardinality({}) = 0
  BY FS_EmptySet
<1>8. /\ Bytes(txs) = Cardinality(AllBytes(txs))
      /\ Bytes(txs \cup {tx}) = Cardinality(AllBytes(txs \cup {tx}))
  BY DEF Bytes, AllBytes
<1>9. QED  BY <1>1, <1>2, <1>3, <1>6, <1>7, <1>8

\* What AddTxWithMeta, Update and the others must leave true of the books.
Books == Accounting /\ Capacity

\* Taking transactions out, by whatever path, keeps the books.
LEMMA RemoveKeepsBooks ==
    ASSUME IInv, IInv', Books, NEW gone \in SUBSET txStore, RemoveTxs(gone)
    PROVE  Books'
<1>1. IsFiniteSet(txStore) /\ \A t \in txStore : t.id \in TxId
  BY DEF IInv, TypeOK, Counted, Tx
<1>2. /\ Bytes(txStore) \in Nat /\ Bytes(gone) \in Nat
      /\ Bytes(txStore \ gone) = Bytes(txStore) - Bytes(gone)
  BY <1>1, BytesWithout
<1>3. txStore' = txStore \ gone /\ txBytes' = txBytes - Bytes(gone)
      /\ txCount' = txCount - Cardinality(gone)
  BY DEF RemoveTxs
<1>4. txBytes' = Bytes(txStore')
  BY <1>2, <1>3 DEF Books, Accounting
<1>5. \A s \in Senders : senderIndex'[s] = {t \in txStore' : t.sender = s}
  <2> SUFFICES ASSUME NEW s \in Senders
               PROVE  senderIndex'[s] = {t \in txStore' : t.sender = s}
    OBVIOUS
  <2>1. senderIndex'[s] = {t \in senderIndex[s] : t.id \notin Ids(gone)}
    BY DEF RemoveTxs
  <2>2. senderIndex[s] = {t \in txStore : t.sender = s}
    BY DEF Books, Accounting
  <2>3. \A t \in txStore : t.id \in Ids(gone) <=> t \in gone
    BY DEF Books, Accounting, Ids
  <2>4. QED  BY <1>3, <2>1, <2>2, <2>3
<1>6. \A t, u \in txStore' : t.id = u.id => t = u
  BY <1>3 DEF Books, Accounting
<1>7. txCount' = Cardinality(txStore')
  BY DEF IInv, Counted
<1>8. Capacity'
  <2>1. IsFiniteSet(gone) /\ Cardinality(gone) \in Nat
    BY <1>1, FS_Subset, FS_CardinalityType
  <2>2. txCount \in Nat /\ txBytes \in Nat /\ MaxTxs \in Nat /\ MaxBytes \in Nat
    BY <1>2, LimitsAssumption DEF IInv, TypeOK, Books, Accounting
  <2>3. QED  BY <1>2, <1>3, <2>1, <2>2 DEF Books, Capacity
<1>9. QED  BY <1>4, <1>5, <1>6, <1>7, <1>8 DEF Books, Accounting

\* ensureCapacity makes the room that addTxLocked takes.
LEMMA AddKeepsBooks ==
    ASSUME IInv, IInv', Books, NEW s \in Submissions, AddTx(s)
    PROVE  Books'
<1>1. PICK gone \in EnsureCapacity(s) : ReplaceTxs(gone, NewTxWithMeta(s))
  BY DEF AddTx
<1>2. PICK tx : tx = NewTxWithMeta(s)
  OBVIOUS
<1>3. gone \in SUBSET txStore /\ Fits(gone, s)
  BY DEF EnsureCapacity, Cheaper
<1>4. tx.id = s.id /\ tx.id \notin Ids(txStore) /\ tx.id \in TxId
  BY <1>2, PoolAssumption DEF NewTxWithMeta, AddTx, Acceptable
<1>5. IsFiniteSet(txStore) /\ \A t \in txStore : t.id \in TxId
  BY DEF IInv, TypeOK, Counted, Tx
<1>6. /\ Bytes(txStore) \in Nat /\ Bytes(gone) \in Nat
      /\ Bytes(txStore \ gone) = Bytes(txStore) - Bytes(gone)
  BY <1>3, <1>5, BytesWithout
<1>7. Bytes((txStore \ gone) \cup {tx}) = Bytes(txStore \ gone) + Size[tx.id]
  <2>1. IsFiniteSet(txStore \ gone) /\ tx \notin txStore \ gone
    BY <1>4, <1>5, FS_Subset DEF Ids
  <2>2. QED  BY <1>4, <1>5, <2>1, BytesWith
<1>8. /\ txStore' = (txStore \ gone) \cup {tx}
      /\ txBytes' = txBytes - Bytes(gone) + Size[tx.id]
      /\ txCount' = txCount - Cardinality(gone) + 1
  BY <1>1, <1>2 DEF ReplaceTxs
<1>9. txBytes' = Bytes(txStore')
  BY <1>6, <1>7, <1>8 DEF Books, Accounting
<1>10. \A x \in Senders : senderIndex'[x] = {t \in txStore' : t.sender = x}
  <2> SUFFICES ASSUME NEW x \in Senders
               PROVE  senderIndex'[x] = {t \in txStore' : t.sender = x}
    OBVIOUS
  <2>1. senderIndex'[x] = {t \in senderIndex[x] : t.id \notin Ids(gone)}
                              \cup {t \in {tx} : t.sender = x}
    BY <1>1, <1>2 DEF ReplaceTxs
  <2>2. senderIndex[x] = {t \in txStore : t.sender = x}
    BY DEF Books, Accounting
  <2>3. \A t \in txStore : t.id \in Ids(gone) <=> t \in gone
    BY <1>3 DEF Books, Accounting, Ids
  <2>4. QED  BY <1>8, <2>1, <2>2, <2>3
<1>11. \A t, u \in txStore' : t.id = u.id => t = u
  BY <1>4, <1>8 DEF Books, Accounting, Ids
<1>12. txCount' = Cardinality(txStore')
  BY DEF IInv, Counted
<1>13. Capacity'
  <2>1. IsFiniteSet(gone) /\ Cardinality(gone) \in Nat
    BY <1>3, <1>5, FS_Subset, FS_CardinalityType
  <2>2. txCount \in Nat /\ MaxTxs \in Nat
    BY LimitsAssumption DEF IInv, TypeOK
  <2>3. QED  BY <1>3, <1>4, <1>8, <2>1, <2>2 DEF Fits, Capacity
<1>14. QED  BY <1>9, <1>10, <1>11, <1>12, <1>13 DEF Books, Accounting

\* Every step of the pool.
LEMMA BooksStep == IInv /\ IInv' /\ Books /\ [Next]_vars => Books'
<1> SUFFICES ASSUME IInv, IInv', Books, [Next]_vars PROVE Books'
  OBVIOUS
<1>1. ASSUME NEW s \in Submissions, AddTx(s) PROVE Books'
  BY <1>1, AddKeepsBooks
<1>2. ASSUME NEW s \in Submissions, AddTxFull(s) PROVE Books'
  <2>1. Cheaper(s) \in SUBSET txStore
    BY DEF Cheaper
  <2>2. QED  BY <1>2, <2>1, RemoveKeepsBooks DEF AddTxFull
<1>3. ASSUME NEW committed \in Blocks, Update(committed) PROVE Books'
  <2>1. PICK gone : gone = {t \in txStore : t.id \in committed}
    OBVIOUS
  <2>2. PICK failed \in SUBSET (txStore \ gone) : RemoveTxs(gone \cup failed)
    BY <1>3, <2>1 DEF Update, Rechecked
  <2>3. gone \cup failed \in SUBSET txStore
    BY <2>1
  <2>4. QED  BY <2>2, <2>3, RemoveKeepsBooks
<1>4. CASE ExpireTxs
  <2>1. PICK expired : expired = {t \in txStore : clock - t.time > TTL}
    OBVIOUS
  <2>2. expired \in SUBSET txStore /\ RemoveTxs(expired)
    BY <1>4, <2>1 DEF ExpireTxs
  <2>3. QED  BY <2>2, RemoveKeepsBooks
<1>5. CASE Flush
  <2>1. /\ txStore' = {} /\ txCount' = 0 /\ txBytes' = 0
        /\ senderIndex' = [s \in Senders |-> {}]
    BY <1>5 DEF Flush
  <2>2. Bytes({}) = 0 /\ Cardinality({}) = 0
    BY FS_EmptySet DEF Bytes
  <2>3. MaxTxs \in Nat /\ MaxBytes \in Nat
    BY LimitsAssumption
  <2>4. QED  BY <2>1, <2>2, <2>3 DEF Books, Accounting, Capacity
<1>6. CASE Start \/ Stop \/ Tick \/ CleanupCache \/ UNCHANGED vars
  <2>1. UNCHANGED pool
    BY <1>6 DEF Start, Stop, Tick, CleanupCache, vars
  <2>2. QED  BY <2>1 DEF pool, Books, Accounting, Capacity
<1>7. QED  BY <1>1, <1>2, <1>3, <1>4, <1>5, <1>6 DEF Next

\* The books are kept throughout.
LEMMA BooksKept == Spec => []Books
<1>1. Init => Books
  <2> SUFFICES ASSUME Init PROVE Books
    OBVIOUS
  <2>1. Bytes({}) = 0 /\ Cardinality({}) = 0
    BY FS_EmptySet DEF Bytes
  <2>2. MaxTxs \in Nat /\ MaxBytes \in Nat
    BY LimitsAssumption
  <2>3. QED  BY <2>1, <2>2 DEF Init, Books, Accounting, Capacity
<1>2. QED  BY <1>1, BooksStep, PoolInvariant, PTL DEF Spec

\* Whatever sequence of admissions, evictions, commits, rechecks, expiries and
\* flushes, txCount and txBytes are the number and the size of what txStore holds,
\* the index of every sender is exact, and no hash is pooled twice.
THEOREM AccountsExact == Spec => []Accounting
<1>1. Books => Accounting
  BY DEF Books
<1>2. QED  BY <1>1, BooksKept, PTL

\* The pool never exceeds MaxTxs transactions or MaxBytes bytes.
THEOREM WithinCapacity == Spec => []Capacity
<1>1. Books => Capacity
  BY DEF Books
<1>2. QED  BY <1>1, BooksKept, PTL

-----------------------------------------------------------------------------
(***************************************************************************)
(* The pool implements BoundedPool.                                        *)
(***************************************************************************)
\* What the loops test on the counters is what the limits ask of the map.
LEMMA FitsIsWithin ==
    ASSUME IInv, Books, NEW gone \in SUBSET txStore,
           NEW s, NEW tx, tx.id = s.id, tx.id \in TxId, tx.id \notin Ids(txStore)
    PROVE  Fits(gone, s) <=> WithinLimits((txStore \ gone) \cup {tx})
<1>1. IsFiniteSet(txStore) /\ \A t \in txStore : t.id \in TxId
  BY DEF IInv, TypeOK, Counted, Tx
<1>2. /\ IsFiniteSet(gone) /\ Cardinality(gone) \in Nat
      /\ IsFiniteSet(txStore \ gone) /\ tx \notin txStore \ gone
  BY <1>1, FS_Subset, FS_CardinalityType DEF Ids
<1>3. Bytes((txStore \ gone) \cup {tx}) = txBytes - Bytes(gone) + Size[s.id]
  <2>1. /\ Bytes(txStore) \in Nat /\ Bytes(gone) \in Nat
        /\ Bytes(txStore \ gone) = Bytes(txStore) - Bytes(gone)
    BY <1>1, BytesWithout
  <2>2. Bytes((txStore \ gone) \cup {tx}) = Bytes(txStore \ gone) + Size[tx.id]
    BY <1>1, <1>2, BytesWith
  <2>3. QED  BY <2>1, <2>2 DEF Books, Accounting
<1>4. Cardinality((txStore \ gone) \cup {tx}) = txCount - Cardinality(gone) + 1
  <2>1. Cardinality(txStore \ gone) = Cardinality(txStore) - Cardinality(txStore \cap gone)
    BY <1>1, FS_Difference
  <2>2. txStore \cap gone = gone
    OBVIOUS
  <2>3. Cardinality((txStore \ gone) \cup {tx}) = Cardinality(txStore \ gone) + 1
    BY <1>2, FS_AddElement
  <2>4. QED  BY <2>1, <2>2, <2>3 DEF Books, Accounting
<1>5. txCount \in Nat /\ MaxTxs \in Nat
  BY LimitsAssumption DEF IInv, TypeOK
<1>6. QED  BY <1>2, <1>3, <1>4, <1>5 DEF Fits, WithinLimits

\* An admission evicts cheaper transactions only, and no more than it must.
LEMMA AddRefines ==
    ASSUME IInv, Books, NEW s \in Submissions, AddTx(s)
    PROVE  Abstract!Next
<1>1. PICK gone \in EnsureCapacity(s) : ReplaceTxs(gone, NewTxWithMeta(s))
  BY DEF AddTx
<1>2. PICK tx : tx = NewTxWithMeta(s)
  OBVIOUS
<1>3. /\ tx.id = s.id /\ tx.gasPrice = s.gasPrice
      /\ tx.id \in TxId /\ tx.id \notin Ids(txStore)
  BY <1>2, PoolAssumption DEF NewTxWithMeta, AddTx, Acceptable
<1>4. tx \in Stampings
  <2>1. clock \in 0 .. MaxClock
    BY LimitsAssumption DEF AddTx, IInv, TypeOK
  <2>2. QED  BY <1>2, <2>1 DEF NewTxWithMeta, Stampings
<1>5. gone \in SUBSET txStore /\ Fits(gone, s) /\ txStore' = (txStore \ gone) \cup {tx}
  BY <1>1, <1>2 DEF EnsureCapacity, Cheaper, ReplaceTxs
<1>6. \A t \in gone : t.gasPrice < tx.gasPrice
  BY <1>1, <1>3 DEF EnsureCapacity, Cheaper
<1>7. \A t \in gone, u \in txStore' : t.gasPrice <= u.gasPrice
  <2>1. \A t \in gone, u \in txStore \ gone : t.gasPrice <= u.gasPrice
    BY <1>1 DEF EnsureCapacity
  <2>2. \A t \in gone : t.gasPrice \in Nat /\ tx.gasPrice \in Nat
    BY <1>3, <1>5, PoolAssumption DEF IInv, TypeOK, Tx
  <2>3. QED  BY <1>5, <1>6, <2>1, <2>2
<1>8. WithinLimits(txStore')
  BY <1>3, <1>5, FitsIsWithin
<1>9. ASSUME gone # {}
      PROVE  \E last \in gone : /\ \A t \in gone : t.gasPrice <= last.gasPrice
                                /\ ~ WithinLimits(txStore' \cup {last})
  <2>1. PICK last \in gone : /\ \A t \in gone : t.gasPrice <= last.gasPrice
                             /\ ~ Fits(gone \ {last}, s)
    BY <1>1, <1>9 DEF EnsureCapacity
  <2>2. (txStore \ (gone \ {last})) \cup {tx} = txStore' \cup {last}
    BY <1>5, <2>1
  <2>3. ~ WithinLimits(txStore' \cup {last})
    <3>1. gone \ {last} \in SUBSET txStore
      BY <1>5
    <3>2. Fits(gone \ {last}, s) <=> WithinLimits((txStore \ (gone \ {last})) \cup {tx})
      BY <1>3, <3>1, FitsIsWithin
    <3>3. QED  BY <2>1, <2>2, <3>2
  <2>4. QED  BY <2>1, <2>3
<1>10. tx \notin txStore
  BY <1>3 DEF Ids
<1>11. Abstract!Admit(tx, gone)
  BY <1>5, <1>6, <1>7, <1>8, <1>9, <1>10 DEF Abstract!Admit
<1>12. QED  BY <1>4, <1>5, <1>11 DEF Abstract!Next

\* Whatever takes transactions out is a removal, or nothing happened.
LEMMA RemoveRefines ==
    ASSUME Books', NEW gone \in SUBSET txStore, txStore' = txStore \ gone
    PROVE  Abstract!Next \/ UNCHANGED txStore
<1>1. WithinLimits(txStore')
  BY DEF Books, Accounting, Capacity, WithinLimits
<1>2. CASE gone = {}
  BY <1>2
<1>3. CASE gone # {}
  <2>1. Abstract!Remove(gone)
    BY <1>1, <1>3 DEF Abstract!Remove
  <2>2. QED  BY <2>1 DEF Abstract!Next
<1>4. QED  BY <1>2, <1>3

\* Every step of the pool is one of BoundedPool or leaves its set alone.
LEMMA StepRefines ==
    IInv /\ Books /\ Books' /\ [Next]_vars => [Abstract!Next]_txStore
<1> SUFFICES ASSUME IInv, Books, Books', [Next]_vars
             PROVE  Abstract!Next \/ UNCHANGED txStore
  OBVIOUS
<1>1. ASSUME NEW s \in Submissions, AddTx(s)
      PROVE  Abstract!Next
  BY <1>1, AddRefines
<1>2. ASSUME NEW s \in Submissions, AddTxFull(s)
      PROVE  Abstract!Next \/ UNCHANGED txStore
  <2>1. Cheaper(s) \in SUBSET txStore /\ txStore' = txStore \ Cheaper(s)
    BY <1>2 DEF AddTxFull, RemoveTxs, Cheaper
  <2>2. QED  BY <2>1, RemoveRefines
<1>3. ASSUME NEW committed \in Blocks, Update(committed)
      PROVE  Abstract!Next \/ UNCHANGED txStore
  <2>1. PICK gone : gone = {t \in txStore : t.id \in committed}
    OBVIOUS
  <2>2. PICK failed \in SUBSET (txStore \ gone) : RemoveTxs(gone \cup failed)
    BY <1>3, <2>1 DEF Update, Rechecked
  <2>3. gone \cup failed \in SUBSET txStore /\ txStore' = txStore \ (gone \cup failed)
    BY <2>1, <2>2 DEF RemoveTxs
  <2>4. QED  BY <2>3, RemoveRefines
<1>4. CASE ExpireTxs
  <2>1. PICK expired : expired = {t \in txStore : clock - t.time > TTL}
    OBVIOUS
  <2>2. expired \in SUBSET txStore /\ txStore' = txStore \ expired
    BY <1>4, <2>1 DEF ExpireTxs, RemoveTxs
  <2>3. QED  BY <2>2, RemoveRefines
<1>5. CASE Flush
  <2>1. txStore \in SUBSET txStore /\ txStore' = txStore \ txStore
    BY <1>5 DEF Flush
  <2>2. QED  BY <2>1, RemoveRefines
<1>6. CASE Start \/ Stop \/ Tick \/ CleanupCache \/ UNCHANGED vars
  BY <1>6 DEF Start, Stop, Tick, CleanupCache, vars, pool
<1>7. QED  BY <1>1, <1>2, <1>3, <1>4, <1>5, <1>6 DEF Next

\* For every limit, price and size: seen from outside the pool is a bounded set that
\* takes one transaction a step, and for it gives up cheaper ones only, the
\* cheapest first and no more than it must (ensureCapacity, evictLowestPriority).
THEOREM PoolRefinement == Spec => ImplementsBoundedPool
<1>1. Init => Abstract!Init
  BY DEF Init, Abstract!Init
<1>2. IInv /\ Books /\ Books' /\ [Next]_vars => [Abstract!Next]_txStore
  BY StepRefines
<1>3. QED
  BY <1>1, <1>2, PoolInvariant, BooksKept, PTL
  DEF Spec, ImplementsBoundedPool, Abstract!Spec
=============================================================================
