----------------------------- MODULE Inclusion -----------------------------
(***************************************************************************)
(* The way of a transaction from a client into a block: Node (node.go),    *)
(* the pool's reactor (reactor.go), gossip over the gRPC transport         *)
(* (grpc.go) and the engine's request channel, of every validator.         *)
(*                                                                         *)
(* Pools are composed with an abstraction of the consensus: a proposal is  *)
(* a block that every node may execute, once and in any order; what it     *)
(* takes to be executed, water marks and a failing application are PBFT's. *)
(* Limits, nonces and expiry are Mempool's: here a pool refuses what it    *)
(* holds or has cached, drops any transaction at any time, and its cache   *)
(* forgets.                                                                *)
(***************************************************************************)
EXTENDS Integers, Sequences, FiniteSets, SequencesExt, Ascending

CONSTANTS Node,         \* the validators
          Validators,   \* in the order in which they are primaries
          Txs,          \* transactions
          Submissions,  \* what clients submit, each at most once: [at, tx, via]
          Restless,     \* the nodes whose Start and Stop are followed, a bound
          Perishable,   \* what pools may drop unexecuted: <<node, tx>>, a bound
          MaxBatchTxs,  \* what ReapMaxTxs returns at most
          RequestSize,  \* capacity of requestChan
          QueueSize,    \* ReactorConfig.MaxPendingTxs
          BroadcastSize,\* ReactorConfig.MaxBroadcastBatch
          MaxView       \* bound on the views

ASSUME NodesAssumption ==
  /\ Validators \in [1 .. Cardinality(Node) -> Node]
  /\ Node # {}
  /\ Restless \subseteq Node /\ Perishable \subseteq Node \X Txs
  /\ Submissions \subseteq [at : Node, tx : Txs, via : {"node", "reactor"}]

ASSUME SizesAssumption ==
  /\ {MaxBatchTxs, RequestSize, QueueSize, MaxView} \subseteq Nat
  /\ BroadcastSize \in Nat \ {0}

VARIABLES
  phase,       \* how far Node.Start or Node.Stop has come
  pool,        \* the pooled transactions in order of arrival
  cache,       \* recentlyRemoved
  submitting,  \* SubmitTx calls that have pooled their transaction, no more yet
  requests,    \* requestChan
  queue,       \* broadcastQueue
  batch,       \* the batch of broadcastLoop
  calls,       \* BroadcastTx calls in flight
  view,        \* the view the validators are in
  blocks,      \* what was proposed: the transactions of each block
  executed,    \* the blocks each node has executed
  tried,       \* the submissions made
  accepted,    \* history: the transactions each pool has ever taken
  offered,     \* history: those its reactor has queued
  dropped,     \* history: those it has dropped unexecuted
  refused,     \* history: those of the requests that led to no proposal
  lost         \* history: calls that came to nothing

node == <<phase, pool, cache>>
client == <<submitting, tried>>
gossip == <<queue, batch, calls>>
chain == <<view, blocks, executed>>
history == <<accepted, offered, dropped, refused, lost>>
vars == <<node, client, requests, gossip, chain, history>>

Init ==
  /\ phase = [n \in Node |-> IF n \in Restless THEN "created" ELSE "running"]
  /\ pool = [n \in Node |-> <<>>]
  /\ cache = [n \in Node |-> {}]
  /\ submitting = [n \in Node |-> {}]
  /\ requests = [n \in Node |-> <<>>]
  /\ queue = [n \in Node |-> <<>>]
  /\ batch = [n \in Node |-> <<>>]
  /\ calls = {}
  /\ view = 0
  /\ blocks = <<>>
  /\ executed = [n \in Node |-> {}]
  /\ tried = {}
  /\ accepted = [n \in Node |-> {}]
  /\ offered = [n \in Node |-> {}]
  /\ dropped = [n \in Node |-> {}]
  /\ refused = [n \in Node |-> {}]
  /\ lost = {}

Primary == Validators[(view % Cardinality(Node)) + 1]

-----------------------------------------------------------------------------

(***************************************************************************)
(* Node.Start: the transport, which has no handler yet, the pool and its   *)
(* reactor, then the handler of gossip and the engine.  Node.Stop: the     *)
(* reactor, the pool, then the engine and the transport.  pbftd does both  *)
(* once.                                                                   *)
(***************************************************************************)
Order == <<"created", "pooling", "running", "quiet", "closed", "stopped">>

PoolIsRunning(n) == phase[n] \in {"pooling", "running", "quiet"}
ReactorIsRunning(n) == phase[n] \in {"pooling", "running"}
HandlerIsSet(n) == phase[n] \in {"running", "quiet", "closed"}
EngineIsRunning(n) == phase[n] \in {"running", "quiet", "closed"}

StartOrStop(n) ==
  /\ n \in Restless
  /\ \E i \in 1 .. Len(Order) - 1 :
       phase[n] = Order[i] /\ phase' = [phase EXCEPT ![n] = Order[i + 1]]
  /\ UNCHANGED <<pool, cache, client, requests, gossip, chain, history>>

-----------------------------------------------------------------------------

(***************************************************************************)
(* Admission (AddTxWithMeta), for clients and for gossip.  Its other       *)
(* refusals, for size, price, nonce, CheckTx or a full pool, change        *)
(* nothing here: a client's call is then no step, a gossiped one CallLost. *)
(***************************************************************************)
\* Mutant: what the pool holds is not looked up.
AdmitsTwice(n, tx) == PoolIsRunning(n) /\ tx \notin cache[n]

Admits(n, tx) ==
  PoolIsRunning(n) /\ tx \notin ToSet(pool[n]) /\ tx \notin cache[n]

Submits(s) == s \in Submissions \ tried /\ tried' = tried \cup {s} /\ Admits(s.at, s.tx)

Pools(n, tx) ==
  /\ pool' = [pool EXCEPT ![n] = Append(@, tx)]
  /\ accepted' = [accepted EXCEPT ![n] = @ \cup {tx}]

(***************************************************************************)
(* Node.SubmitTx: the transaction is pooled; if this node is the primary   *)
(* by then, a request with it triggers a proposal.  A full channel is an   *)
(* error for the client, and the transaction stays in the pool.            *)
(***************************************************************************)
SubmitTx(s) ==
  /\ s.via = "node"
  /\ Submits(s)
  /\ Pools(s.at, s.tx)
  /\ submitting' = [submitting EXCEPT ![s.at] = @ \cup {s.tx}]
  /\ UNCHANGED <<phase, cache, requests, gossip, chain, offered, dropped, refused, lost>>

SubmitRequest(n, tx) ==
  /\ tx \in submitting[n]
  /\ submitting' = [submitting EXCEPT ![n] = @ \ {tx}]
  /\ requests' = IF n = Primary /\ Len(requests[n]) < RequestSize
                 THEN [requests EXCEPT ![n] = Append(@, tx)]
                 ELSE requests
  /\ UNCHANGED <<node, tried, gossip, chain, history>>

(***************************************************************************)
(* Reactor.SubmitTx: the transaction is pooled and queued for the peers; a *)
(* full queue drops it.  No proposal is triggered.                         *)
(***************************************************************************)
ReactorSubmitTx(s) ==
  /\ s.via = "reactor"
  /\ Submits(s)
  /\ Pools(s.at, s.tx)
  /\ IF Len(queue[s.at]) < QueueSize
     THEN /\ queue' = [queue EXCEPT ![s.at] = Append(@, s.tx)]
          /\ offered' = [offered EXCEPT ![s.at] = @ \cup {s.tx}]
     ELSE UNCHANGED <<queue, offered>>
  /\ UNCHANGED <<phase, cache, submitting, requests, batch, calls, chain,
                 dropped, refused, lost>>

(***************************************************************************)
(* broadcastLoop: it collects a batch and sends it when it is full or when *)
(* the ticker fires.                                                       *)
(***************************************************************************)
Calls(n, txs) == [from : {n}, to : Node \ {n}, tx : ToSet(txs)]

TakeFromQueue(n) ==
  LET collected == Append(batch[n], Head(queue[n])) IN
  /\ ReactorIsRunning(n) /\ queue[n] # <<>>
  /\ queue' = [queue EXCEPT ![n] = Tail(@)]
  /\ IF Len(collected) >= BroadcastSize
     THEN /\ batch' = [batch EXCEPT ![n] = <<>>]
          /\ calls' = calls \cup Calls(n, collected)
     ELSE /\ batch' = [batch EXCEPT ![n] = collected]
          /\ UNCHANGED calls
  /\ UNCHANGED <<node, client, requests, chain, history>>

\* Mutant: only full batches are sent.
TickerIdle(n) == FALSE /\ UNCHANGED vars

Ticker(n) ==
  /\ ReactorIsRunning(n) /\ batch[n] # <<>>
  /\ batch' = [batch EXCEPT ![n] = <<>>]
  /\ calls' = calls \cup Calls(n, batch[n])
  /\ UNCHANGED <<node, client, requests, queue, chain, history>>

(***************************************************************************)
(* GRPCTransport.BroadcastTx at the peer: without a handler the call is    *)
(* acknowledged and nothing happens.                                       *)
(***************************************************************************)
\* Mutant: what comes from a peer is passed on.
BroadcastTxForwards(c) ==
  /\ c \in calls /\ HandlerIsSet(c.to)
  /\ calls' = (calls \ {c}) \cup (Calls(c.to, <<c.tx>>) \ {c})
  /\ IF Admits(c.to, c.tx) THEN Pools(c.to, c.tx) ELSE UNCHANGED <<pool, accepted>>
  /\ UNCHANGED <<phase, cache, client, requests, queue, batch, chain,
                 offered, dropped, refused, lost>>

BroadcastTx(c) ==
  /\ c \in calls /\ HandlerIsSet(c.to)
  /\ calls' = calls \ {c}
  /\ IF Admits(c.to, c.tx) THEN Pools(c.to, c.tx) ELSE UNCHANGED <<pool, accepted>>
  /\ UNCHANGED <<phase, cache, client, requests, queue, batch, chain,
                 offered, dropped, refused, lost>>

\* The peer has no handler yet, or does not listen, or the call times out, or its
\* pool refuses the transaction for want of room, price, nonce or validity.
CallLost(c) ==
  /\ c \in calls
  /\ calls' = calls \ {c}
  /\ lost' = lost \cup {c}
  /\ UNCHANGED <<node, client, requests, queue, batch, chain,
                 accepted, offered, dropped, refused>>

-----------------------------------------------------------------------------


Reap(n) == SubSeq(pool[n], 1, IF Len(pool[n]) < MaxBatchTxs THEN Len(pool[n]) ELSE MaxBatchTxs)

Proposal(n) == IF Reap(n) = <<>> THEN {Head(requests[n])} ELSE ToSet(Reap(n))

\* Mutant: reaping takes the transactions out of the pool.
TakeRequestRemoving(n) ==
  /\ EngineIsRunning(n) /\ requests[n] # <<>>
  /\ requests' = [requests EXCEPT ![n] = Tail(@)]
  /\ blocks' = IF n = Primary THEN Append(blocks, Proposal(n)) ELSE blocks
  /\ pool' = IF n = Primary
             THEN [pool EXCEPT ![n] = Without(@, Proposal(n))] ELSE pool
  /\ UNCHANGED <<phase, cache, client, gossip, view, executed, history>>

TakeRequest(n) ==
  /\ EngineIsRunning(n) /\ requests[n] # <<>>
  /\ requests' = [requests EXCEPT ![n] = Tail(@)]
  /\ \/ n = Primary /\ blocks' = Append(blocks, Proposal(n)) /\ UNCHANGED refused
     \/ /\ n = Primary
        /\ refused' = [refused EXCEPT ![n] = @ \cup {Head(requests[n])}]
        /\ UNCHANGED blocks
     \/ n # Primary /\ UNCHANGED <<blocks, refused>>
  /\ UNCHANGED <<node, client, gossip, view, executed, accepted, offered, dropped, lost>>

\* executeBlock with Mempool.Update, which caches only what it removes.
Execute(n, i) ==
  /\ EngineIsRunning(n) /\ i \notin executed[n]
  /\ executed' = [executed EXCEPT ![n] = @ \cup {i}]
  /\ pool' = [pool EXCEPT ![n] = Without(@, blocks[i])]
  /\ cache' = [cache EXCEPT ![n] = @ \cup (ToSet(pool[n]) \cap blocks[i])]
  /\ UNCHANGED <<phase, client, requests, gossip, view, blocks, history>>

(***************************************************************************)
(* The ways out of a pool other than Update's: expiry and eviction, which  *)
(* cache what they remove, a failed recheck and Flush, which do not.       *)
(***************************************************************************)
PoolDrops(n) ==
  \E gone \in SUBSET ({tx \in ToSet(pool[n]) : <<n, tx>> \in Perishable}) \ {{}} :
    /\ pool' = [pool EXCEPT ![n] = Without(@, gone)]
    /\ cache' = [cache EXCEPT ![n] = @ \cup gone] \/ UNCHANGED cache
    /\ dropped' = [dropped EXCEPT ![n] = @ \cup gone]
    /\ UNCHANGED <<phase, client, requests, gossip, chain, accepted, offered, refused, lost>>

\* cleanupCache, after the TTL; what it does after Stop nobody asks for.
CleanupCache(n) ==
  /\ PoolIsRunning(n) /\ cache[n] # {}
  /\ cache' = [cache EXCEPT ![n] = {}]
  /\ UNCHANGED <<phase, pool, client, requests, gossip, chain, history>>

ChangeView ==
  /\ view < MaxView
  /\ view' = view + 1
  /\ UNCHANGED <<node, client, requests, gossip, blocks, executed, history>>

Next ==
  \/ \E n \in Node :
       \/ StartOrStop(n)
       \/ \E tx \in Txs : SubmitRequest(n, tx)
       \/ TakeFromQueue(n)
       \/ Ticker(n)
       \/ TakeRequest(n)
       \/ \E i \in 1 .. Len(blocks) : Execute(n, i)
       \/ PoolDrops(n)
       \/ CleanupCache(n)
  \/ \E s \in Submissions : SubmitTx(s) \/ ReactorSubmitTx(s)
  \/ \E c \in calls : BroadcastTx(c) \/ CallLost(c)
  \/ ChangeView

Spec == Init /\ [][Next]_vars

(***************************************************************************)
(* The goroutines of a running node, run and broadcastLoop, are scheduled, *)
(* its ticker fires, and its calls end, answered or not.                   *)
(***************************************************************************)
Fairness ==
  /\ \A n \in Node :
       /\ WF_vars(TakeFromQueue(n))
       /\ WF_vars(Ticker(n))
       /\ WF_vars(TakeRequest(n))
  /\ \A n \in Node : \A c \in Calls(n, SetToSeq(Txs)) : WF_vars(BroadcastTx(c) \/ CallLost(c))

LiveSpec == Spec /\ Fairness
-----------------------------------------------------------------------------
(***************************************************************************)
(* Properties.                                                             *)
(***************************************************************************)
ExecutedTxs(n) == UNION {blocks[i] : i \in executed[n]}

AllRun == \A n \in Node : phase[n] = "running"

\* Every variable holds values of its type; a pool holds a transaction once.
TypeOK ==
  /\ phase \in [Node -> ToSet(Order)]
  /\ {pool, requests, queue, batch} \subseteq [Node -> Seq(Txs)]
  /\ {cache, submitting, accepted, offered, dropped, refused} \subseteq [Node -> SUBSET Txs]
  /\ executed \in [Node -> SUBSET (1 .. Len(blocks))]
  /\ \A n \in Node :
       /\ IsInjective(pool[n])
       /\ Len(requests[n]) <= RequestSize /\ Len(queue[n]) <= QueueSize
       /\ Len(batch[n]) < BroadcastSize
  /\ tried \subseteq Submissions
  /\ calls \cup lost \subseteq [from : Node, to : Node, tx : Txs]
  /\ view \in 0 .. MaxView
  /\ blocks \in Seq(SUBSET Txs)

\* A transaction a pool has taken leaves it with a block that is executed there, or
\* because the pool itself drops it: no proposal, refused request, gossip call or
\* change of the primary costs it its place, so a later primary can still propose
\* it (ReapMaxTxs leaves it; Update takes out what the block holds, no more).
NothingLost ==
  \A n \in Node : accepted[n] \subseteq ToSet(pool[n]) \cup ExecutedTxs(n) \cup dropped[n]

\* Gossip dies out: a node only ever calls its peers with transactions that its
\* own clients gave its reactor, however the calls of others cross
\* (ReceiveTx and the handler do not queue).
GossipFromOrigin ==
  /\ \A c \in calls \cup lost : c.tx \in offered[c.from]
  /\ \A n \in Node : ToSet(queue[n]) \cup ToSet(batch[n]) \subseteq offered[n]


\* What a reactor has queued reaches every peer's pool, or its block does, but for
\* calls that were lost, although a batch may never fill (broadcastLoop).
GossipReaches ==
  \A n \in Node, tx \in Txs : \A k \in Node \ {n} :
    (tx \in offered[n])
      ~> (~AllRun \/ tx \in accepted[k] \cup ExecutedTxs(k)
            \/ \E c \in lost : c.to = k /\ c.tx = tx)
-----------------------------------------------------------------------------
(***************************************************************************)
(* What the documentation says and the code does not do.                   *)
(***************************************************************************)

\* No transaction is executed in two blocks of one node.
TxExecutedOnce ==
  \A n \in Node : \A i, j \in executed[n] : i # j => blocks[i] \cap blocks[j] = {}
=============================================================================
