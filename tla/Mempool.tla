------------------------------ MODULE Mempool ------------------------------
(***************************************************************************)
(* The transaction pool of one node (mempool/mempool.go).  Every method    *)
(* holds mp.mu from its first to its last line, so each is one atomic      *)
(* action.  A transaction is known by the hash of its bytes (its id); the  *)
(* same bytes may be submitted with different metadata.  The monitoring    *)
(* counters, tx.Height and the notification channel newTxCh, whose one     *)
(* reader drops what it reads (reactor.go receiveNewTxLoop), are left out. *)
(* A submission the pool refuses without touching its state is a stutter.  *)
(***************************************************************************)
EXTENDS Integers, FiniteSets

CONSTANTS
    TxId,            \* hashes of transaction bytes
    Size,            \* Size[id]: the length of those bytes
    Submissions,     \* what clients and peers submit: [id, sender, nonce, gasPrice]
    Blocks,          \* the sets of transactions that blocks commit
    Senders,         \* account names, without the empty one
    NoSender,        \* the empty sender of AddTx
    MaxTxs, MaxBytes, MaxTxBytes, MaxBatchTxs, TTL, CacheSize, MinGasPrice,
    RecheckEnabled,  \* the fields of Config
    HasCheckTx,      \* SetCheckTxCallback has installed a callback
    MaxClock         \* bound: how far time is followed

ASSUME PoolAssumption ==
    /\ IsFiniteSet(TxId)
    /\ Size \in [TxId -> Nat]
    /\ Blocks \subseteq SUBSET TxId
    /\ NoSender \notin Senders
    /\ Submissions \subseteq [id: TxId, sender: Senders \cup {NoSender},
                              nonce: Nat, gasPrice: Nat]

ASSUME LimitsAssumption ==
    /\ {MaxTxs, MaxBytes, MaxTxBytes, MaxBatchTxs, TTL, CacheSize,
        MinGasPrice, MaxClock} \subseteq Nat
    /\ {RecheckEnabled, HasCheckTx} \subseteq BOOLEAN

VARIABLES
    status,           \* "created", "running" (isRunning) or "stopped"
    txStore,          \* the pooled transactions, each stamped with its arrival
    txCount, txBytes, \* the counters kept beside the map
    senderIndex,      \* the pooled transactions of every sender
    senderNonce,      \* highest nonce taken from a sender; 0 also when no entry
    recentlyRemoved,  \* the duplicate cache: [id, time]
    clock,            \* time.Now()
    removedAt         \* history: when a transaction last entered the cache

pool == <<txStore, txCount, txBytes, senderIndex>>
vars == <<status, pool, senderNonce, recentlyRemoved, clock, removedAt>>

Never == 0

Tx == [id: TxId, sender: Senders \cup {NoSender}, nonce: Nat, gasPrice: Nat,
       time: Nat]

\* NewTxWithMeta: the submission, stamped with the time it is received.
NewTxWithMeta(s) ==
    [id |-> s.id, sender |-> s.sender, nonce |-> s.nonce,
     gasPrice |-> s.gasPrice, time |-> clock]

Ids(txs) == {t.id : t \in txs}

\* The sum of the sizes of txs: their bytes are numbered and counted.
BytesOf(t) == {t} \X (1 .. Size[t.id])
Bytes(txs) == Cardinality(UNION {BytesOf(t) : t \in txs})

Init ==
    /\ status = "created"
    /\ txStore = {} /\ txCount = 0 /\ txBytes = 0
    /\ senderIndex = [s \in Senders |-> {}]
    /\ senderNonce = [s \in Senders |-> 0]
    /\ recentlyRemoved = {}
    /\ clock = 1
    /\ removedAt = [i \in TxId |-> Never]

-----------------------------------------------------------------------------
(* removeTxLocked, addTxLocked *)

\* Mutant: the index keeps what the map loses.
RemoveTxsKeepIndex(gone) ==
    /\ txStore' = txStore \ gone
    /\ txCount' = txCount - Cardinality(gone)
    /\ txBytes' = txBytes - Bytes(gone)
    /\ UNCHANGED senderIndex

\* removeTxLocked on each of gone: out of the map, the counters and the index.
RemoveTxs(gone) ==
    /\ txStore' = txStore \ gone
    /\ txCount' = txCount - Cardinality(gone)
    /\ txBytes' = txBytes - Bytes(gone)
    /\ senderIndex' = [s \in Senders |->
            {t \in senderIndex[s] : t.id \notin Ids(gone)}]

\* The cache after removeTxLocked(id, true) on each of gone.
CacheRemoved(gone) ==
    /\ recentlyRemoved' = {r \in recentlyRemoved : r.id \notin Ids(gone)}
                            \cup {[id |-> i, time |-> clock] : i \in Ids(gone)}
    /\ removedAt' = [i \in TxId |-> IF i \in Ids(gone) THEN clock ELSE removedAt[i]]

\* gone is evicted and then tx is stored by addTxLocked.
ReplaceTxs(gone, tx) ==
    /\ txStore' = (txStore \ gone) \cup {tx}
    /\ txCount' = txCount - Cardinality(gone) + 1
    /\ txBytes' = txBytes - Bytes(gone) + Size[tx.id]
    /\ senderIndex' = [s \in Senders |->
            {t \in senderIndex[s] : t.id \notin Ids(gone)}
                \cup {t \in {tx} : t.sender = s}]
    /\ senderNonce' = [s \in Senders |->
            IF s = tx.sender /\ tx.nonce > senderNonce[s]
            THEN tx.nonce ELSE senderNonce[s]]

-----------------------------------------------------------------------------
(* AddTxWithMeta *)

\* Mutant: the nonce is not looked at.
CheckNonceSkipped(s) == TRUE

\* A sender without an entry may start at any nonce; later ones must exceed the
\* recorded one, and gaps are allowed.
CheckNonce(s) ==
    s.sender \in Senders =>
        \/ senderNonce[s.sender] = 0
        \/ s.nonce > senderNonce[s.sender]

\* The checks before the capacity check; a callback may accept or refuse.
Acceptable(s) ==
    /\ status = "running"
    /\ Size[s.id] <= MaxTxBytes
    /\ s.id \notin Ids(txStore)
    /\ s.id \notin Ids(recentlyRemoved)
    /\ s.gasPrice >= MinGasPrice
    /\ CheckNonce(s)

\* Mutant: the count loop stops one transaction too late.
FitsOneMore(gone, s) ==
    /\ txCount - Cardinality(gone) <= MaxTxs
    /\ txBytes - Bytes(gone) + Size[s.id] <= MaxBytes

\* Neither loop of ensureCapacity has anything left to do once gone is out.
Fits(gone, s) ==
    /\ txCount - Cardinality(gone) < MaxTxs
    /\ txBytes - Bytes(gone) + Size[s.id] <= MaxBytes

\* Mutant: evictLowestPriority compares with > instead of >=.
CheaperOrEqual(s) == {t \in txStore : t.gasPrice <= s.gasPrice}

Cheaper(s) == {t \in txStore : t.gasPrice < s.gasPrice}

\* What the loops of ensureCapacity can evict for s: evictLowestPriority takes a
\* cheapest transaction (any of several) while s does not fit and one is cheaper.
EnsureCapacity(s) ==
    {gone \in SUBSET Cheaper(s) :
        /\ Fits(gone, s)
        /\ \A t \in gone, u \in txStore \ gone : t.gasPrice <= u.gasPrice
        /\ gone # {} => \E last \in gone :
              /\ \A t \in gone : t.gasPrice <= last.gasPrice
              /\ ~ Fits(gone \ {last}, s)}

\* The submission is admitted.
AddTx(s) ==
    /\ Acceptable(s)
    /\ clock < MaxClock
    /\ \E gone \in EnsureCapacity(s) :
          /\ ReplaceTxs(gone, NewTxWithMeta(s))
          /\ CacheRemoved(gone)
    /\ clock' = clock + 1
    /\ UNCHANGED status

\* ErrMempoolFull: the loops evict all that is cheaper before they give up.
AddTxFull(s) ==
    /\ Acceptable(s)
    /\ EnsureCapacity(s) = {}
    /\ RemoveTxs(Cheaper(s))
    /\ CacheRemoved(Cheaper(s))
    /\ UNCHANGED <<status, senderNonce, clock>>

-----------------------------------------------------------------------------
(* Reaping and Update *)

\* ReapMaxTxs(max): the oldest transactions, at most max and MaxBatchTxs of them.
BatchLimit(max) == IF max <= 0 \/ max > MaxBatchTxs THEN MaxBatchTxs ELSE max

ReapMaxTxs(max) ==
    {t \in txStore :
        Cardinality({u \in txStore : u.time < t.time}) < BatchLimit(max)}

\* What recheckTxsLocked may drop from the transactions that stay.
Rechecked(staying) ==
    IF RecheckEnabled /\ HasCheckTx THEN SUBSET staying ELSE {{}}

\* Update: a block with the transactions committed has been executed.  They may
\* be ones this pool never saw.  What the recheck drops is not cached.  The engine
\* runs from after Start until after Stop (node.go).
Update(committed) ==
    LET gone == {t \in txStore : t.id \in committed}
    IN  /\ status # "created"
        /\ \E failed \in Rechecked(txStore \ gone) : RemoveTxs(gone \cup failed)
        /\ CacheRemoved(gone)
        /\ UNCHANGED <<status, senderNonce, clock>>

-----------------------------------------------------------------------------
(* Background loops, lifecycle *)

\* expireTxs, once Start has run its loop.  Stop cancels the loop's context, but a
\* tick taken before and waiting for mp.mu is still carried out after it.
ExpireTxs ==
    LET expired == {t \in txStore : clock - t.time > TTL}
    IN  /\ status # "created"
        /\ expired # {}
        /\ RemoveTxs(expired)
        /\ CacheRemoved(expired)
        /\ UNCHANGED <<status, senderNonce, clock>>

\* Mutant: the comparison with the cutoff is turned round.
FreshReversed == {r \in recentlyRemoved : r.time <= clock - TTL}

\* The entries cleanupCache does not drop for their age.
Fresh == {r \in recentlyRemoved : r.time >= clock - TTL}

\* cleanupCache: drop the old entries, then the oldest of the rest beyond CacheSize;
\* like expireTxs it may run once more after Stop.
CleanupCache ==
    /\ status # "created"
    /\ \E kept \in SUBSET Fresh :
          /\ \A r \in Fresh \ kept, k \in kept : r.time <= k.time
          /\ IF Cardinality(Fresh) > CacheSize
             THEN Cardinality(kept) = CacheSize ELSE kept = Fresh
          /\ recentlyRemoved' = kept
    /\ UNCHANGED <<status, pool, senderNonce, clock, removedAt>>

\* Mutant: the map is not emptied.
FlushKeepStore ==
    /\ txCount' = 0 /\ txBytes' = 0
    /\ senderIndex' = [s \in Senders |-> {}]
    /\ senderNonce' = [s \in Senders |-> 0]
    /\ UNCHANGED <<status, txStore, recentlyRemoved, clock, removedAt>>

\* Flush forgets the nonces too, and keeps the cache.
Flush ==
    /\ txStore' = {} /\ txCount' = 0 /\ txBytes' = 0
    /\ senderIndex' = [s \in Senders |-> {}]
    /\ senderNonce' = [s \in Senders |-> 0]
    /\ UNCHANGED <<status, recentlyRemoved, clock, removedAt>>

\* pbftd starts a node, and so its pool, once.
Start ==
    /\ status = "created"
    /\ status' = "running"
    /\ UNCHANGED <<pool, senderNonce, recentlyRemoved, clock, removedAt>>

Stop ==
    /\ status = "running"
    /\ status' = "stopped"
    /\ UNCHANGED <<pool, senderNonce, recentlyRemoved, clock, removedAt>>

Tick ==
    /\ clock < MaxClock
    /\ clock' = clock + 1
    /\ UNCHANGED <<status, pool, senderNonce, recentlyRemoved, removedAt>>

Next ==
    \/ Start
    \/ Stop
    \/ \E s \in Submissions : AddTx(s) \/ AddTxFull(s)
    \/ \E committed \in Blocks : Update(committed)
    \/ ExpireTxs
    \/ CleanupCache
    \/ Flush
    \/ Tick

Spec == Init /\ [][Next]_vars

-----------------------------------------------------------------------------
(* Properties *)

\* Every variable keeps its type; the value of txBytes is Accounting's.
TypeOK ==
    /\ status \in {"created", "running", "stopped"}
    /\ txStore \subseteq Tx
    /\ txCount \in Nat
    /\ senderIndex \in [Senders -> SUBSET Tx]
    /\ senderNonce \in [Senders -> Nat]
    /\ recentlyRemoved \subseteq [id: TxId, time: Nat]
    /\ clock \in Nat
    /\ removedAt \in [TxId -> Nat]

\* The counters and the sender index describe the map: whatever is admitted,
\* evicted, committed, rechecked, expired or flushed, txCount and txBytes are the
\* number and the size of what is pooled, GetTxsBySender returns exactly the
\* sender's pooled transactions, and no hash is pooled twice.
Accounting ==
    /\ txCount = Cardinality(txStore)
    /\ txBytes = Bytes(txStore)
    /\ \A s \in Senders : senderIndex[s] = {t \in txStore : t.sender = s}
    /\ \A t, u \in txStore : t.id = u.id => t = u

\* ensureCapacity keeps the pool within both limits of its configuration.
Capacity ==
    /\ txCount <= MaxTxs
    /\ txBytes <= MaxBytes

WithinLimits(txs) == Cardinality(txs) <= MaxTxs /\ Bytes(txs) <= MaxBytes

\* The submissions, with the time each may be stamped with.
Stampings ==
    {[id |-> s.id, sender |-> s.sender, nonce |-> s.nonce,
      gasPrice |-> s.gasPrice, time |-> c] : s \in Submissions, c \in 0 .. MaxClock}

Abstract == INSTANCE BoundedPool WITH
    Item <- Stampings, Within <- WithinLimits, pooled <- txStore

\* The pool keeps what BoundedPool promises, though its loops look at counters and
\* not at the map: each step admits one transaction, within both limits and for
\* cheaper ones only, none of them in vain, or takes some out (ensureCapacity,
\* evictLowestPriority, removeTxLocked).
ImplementsBoundedPool == Abstract!Spec

\* A batch ReapMaxTxs hands to a proposal never holds a transaction while leaving
\* out one of the same sender with a lower nonce, and in the batch's order of
\* arrival a sender's nonces do not go down.
ReapKeepsNonceOrder ==
    \A max \in 0 .. MaxBatchTxs, t, u \in txStore :
        /\ t \in ReapMaxTxs(max)
        /\ u.sender = t.sender /\ t.sender # NoSender /\ u.nonce < t.nonce
        => u \in ReapMaxTxs(max) /\ u.time < t.time

\* The transactions that left the pool since i did.
LeftSince(i) == {j \in TxId \ {i} : removedAt[j] >= removedAt[i]}

\* A transaction that was committed out of the pool, evicted or expired does not
\* come back before the TTL is over, however expiry and cleanup interleave, unless
\* CacheSize others have left since and taken its place in the cache.
RemovedStaysOut ==
    \A t \in txStore :
        removedAt[t.id] # Never =>
            \/ t.time - removedAt[t.id] > TTL
            \/ Cardinality(LeftSince(t.id)) >= CacheSize

=============================================================================
