-------------------------- MODULE Inclusion_proofs --------------------------
(***************************************************************************)
(* What is proved of the way of a transaction into a block, for any set of *)
(* validators, transactions and submissions and all capacities: the type   *)
(* invariant, that a pool loses nothing, and that gossip comes from where  *)
(* it was submitted.                                                       *)
(***************************************************************************)
EXTENDS Inclusion, Ascending_proofs

-----------------------------------------------------------------------------
(***************************************************************************)
(* Sequences and the transactions they hold.                               *)
(***************************************************************************)
\* An empty sequence holds nothing.
LEMMA EmptyHolds ==
  ASSUME NEW T
  PROVE  <<>> \in Seq(T) /\ Len(<<>>) = 0 /\ ToSet(<<>>) = {} /\ IsInjective(<<>>)
BY DEF ToSet, IsInjective

\* Appending adds one element, at the end.
LEMMA AppendHolds ==
  ASSUME NEW T, NEW s \in Seq(T), NEW x \in T
  PROVE  /\ Append(s, x) \in Seq(T) /\ Len(Append(s, x)) = Len(s) + 1 /\ Len(s) \in Nat
         /\ ToSet(Append(s, x)) = ToSet(s) \cup {x}
         /\ IsInjective(s) /\ x \notin ToSet(s) => IsInjective(Append(s, x))
<1>1. PICK a : a = Append(s, x)
  OBVIOUS
<1>2. PICK n \in Nat : n = Len(s)
  OBVIOUS
<1>3. /\ a \in Seq(T) /\ Len(a) = n + 1
      /\ DOMAIN a = 1 .. n + 1 /\ DOMAIN s = 1 .. n
      /\ \A i \in 1 .. n : a[i] = s[i]
      /\ a[n + 1] = x
  BY <1>1, <1>2
<1>4. ToSet(a) = ToSet(s) \cup {x}
  <2>1. \A i \in 1 .. n + 1 : i \in 1 .. n \/ i = n + 1
    OBVIOUS
  <2>2. \A i \in 1 .. n : i \in 1 .. n + 1
    OBVIOUS
  <2>3. n + 1 \in 1 .. n + 1
    OBVIOUS
  <2> QED BY <1>3, <2>1, <2>2, <2>3 DEF ToSet
<1>5. ASSUME IsInjective(s), x \notin ToSet(s) PROVE IsInjective(a)
  <2> SUFFICES ASSUME NEW i \in 1 .. n + 1, NEW j \in 1 .. n + 1, a[i] = a[j]
               PROVE  i = j
    BY <1>3 DEF IsInjective
  <2>1. i \in 1 .. n \/ i = n + 1
    OBVIOUS
  <2>2. j \in 1 .. n \/ j = n + 1
    OBVIOUS
  <2>3. \A k \in 1 .. n : s[k] # x
    BY <1>3, <1>5 DEF ToSet
  <2> QED BY <1>3, <1>5, <2>1, <2>2, <2>3 DEF IsInjective
<1> QED BY <1>1, <1>2, <1>3, <1>4, <1>5

\* Receiving takes the first element.
LEMMA TailHolds ==
  ASSUME NEW T, NEW s \in Seq(T), s # <<>>
  PROVE  /\ Head(s) \in T /\ Head(s) \in ToSet(s)
         /\ Tail(s) \in Seq(T) /\ Len(Tail(s)) < Len(s)
         /\ ToSet(Tail(s)) \subseteq ToSet(s)
<1>1. PICK t : t = Tail(s)
  OBVIOUS
<1>2. PICK n \in Nat : n = Len(s) /\ n # 0
  OBVIOUS
<1>3. /\ t \in Seq(T) /\ Len(t) = n - 1
      /\ DOMAIN t = 1 .. n - 1 /\ DOMAIN s = 1 .. n
      /\ \A i \in 1 .. n - 1 : t[i] = s[i + 1]
      /\ Head(s) = s[1]
  BY <1>1, <1>2
<1>4. ToSet(t) \subseteq ToSet(s)
  <2>1. \A i \in 1 .. n - 1 : i + 1 \in 1 .. n
    OBVIOUS
  <2> QED BY <1>3, <2>1 DEF ToSet
<1>5. Head(s) \in ToSet(s) /\ Head(s) \in T
  <2>1. 1 \in 1 .. n
    BY <1>2
  <2> QED BY <1>3, <2>1 DEF ToSet
<1> QED BY <1>1, <1>2, <1>3, <1>4, <1>5

\* What is left of a sequence without gone.
LEMMA WithoutSet ==
  ASSUME NEW T, NEW s \in Seq(T), NEW gone
  PROVE  /\ Without(s, gone) \in Seq(T)
         /\ ToSet(Without(s, gone)) = ToSet(s) \ gone
         /\ IsInjective(s) => IsInjective(Without(s, gone))
BY WithoutHolds DEF ToSet, IsInjective

\* The elements of a sequence are of its type.
LEMMA HoldsType ==
  ASSUME NEW T, NEW s \in Seq(T)
  PROVE  ToSet(s) \subseteq T
BY DEF ToSet

\* A batch a primary reaps is a set of transactions.
LEMMA ProposalType ==
  ASSUME NEW n \in Node, pool[n] \in Seq(Txs), requests[n] \in Seq(Txs), requests[n] # <<>>
  PROVE  Proposal(n) \in SUBSET Txs
<1>1. Reap(n) \in Seq(Txs)
  <2>1. PICK s \in Seq(Txs) : s = pool[n]
    OBVIOUS
  <2>2. PICK k : k = IF Len(s) < MaxBatchTxs THEN Len(s) ELSE MaxBatchTxs
    OBVIOUS
  <2>3. k \in 0 .. Len(s)
    BY <2>2, SizesAssumption
  <2>4. \A i \in 1 .. k : s[i] \in Txs
    BY <2>3
  <2>5. SubSeq(s, 1, k) \in Seq(Txs)
    BY <2>3, <2>4
  <2> QED BY <2>1, <2>2, <2>5 DEF Reap
<1>2. ToSet(Reap(n)) \subseteq Txs
  BY <1>1, HoldsType
<1>3. Head(requests[n]) \in Txs
  BY TailHolds
<1> QED BY <1>2, <1>3 DEF Proposal

-----------------------------------------------------------------------------
(***************************************************************************)
(* The type invariant, in parts: what a node's pool is, what its channels  *)
(* are, and the rest.                                                      *)
(***************************************************************************)
PoolsOK ==
  /\ pool \in [Node -> Seq(Txs)]
  /\ \A n \in Node : IsInjective(pool[n])

ChannelsOK ==
  /\ requests \in [Node -> Seq(Txs)] /\ queue \in [Node -> Seq(Txs)]
  /\ batch \in [Node -> Seq(Txs)]
  /\ \A n \in Node : /\ Len(requests[n]) <= RequestSize /\ Len(queue[n]) <= QueueSize
                      /\ Len(batch[n]) < BroadcastSize

ChainOK ==
  /\ blocks \in Seq(SUBSET Txs)
  /\ executed \in [Node -> SUBSET (1 .. Len(blocks))]
  /\ view \in 0 .. MaxView

RestOK ==
  /\ phase \in [Node -> ToSet(Order)]
  /\ cache \in [Node -> SUBSET Txs] /\ submitting \in [Node -> SUBSET Txs]
  /\ accepted \in [Node -> SUBSET Txs] /\ offered \in [Node -> SUBSET Txs]
  /\ dropped \in [Node -> SUBSET Txs] /\ refused \in [Node -> SUBSET Txs]
  /\ tried \subseteq Submissions
  /\ calls \subseteq [from : Node, to : Node, tx : Txs]
  /\ lost \subseteq [from : Node, to : Node, tx : Txs]

\* The parts are the whole.
LEMMA TypeParts ==
  /\ TypeOK <=> PoolsOK /\ ChannelsOK /\ ChainOK /\ RestOK
  /\ TypeOK' <=> PoolsOK' /\ ChannelsOK' /\ ChainOK' /\ RestOK'
BY DEF TypeOK, PoolsOK, ChannelsOK, ChainOK, RestOK

\* A submission is of a transaction at a node.
LEMMA SubmissionType == \A s \in Submissions : s.at \in Node /\ s.tx \in Txs
BY NodesAssumption

\* Calls go from one node to the others with what it has collected.
LEMMA CallsType ==
  ASSUME NEW n \in Node, NEW txs \in Seq(Txs)
  PROVE  /\ Calls(n, txs) \subseteq [from : Node, to : Node, tx : Txs]
         /\ \A c \in Calls(n, txs) : c.from = n /\ c.tx \in ToSet(txs)
<1>1. ToSet(txs) \subseteq Txs
  BY HoldsType
<1> QED BY <1>1 DEF Calls

\* Starting and stopping go through the phases one by one.
LEMMA PhaseType ==
  ASSUME RestOK, NEW n \in Node, StartOrStop(n)
  PROVE  phase' \in [Node -> ToSet(Order)]
<1>1. PICK i \in 1 .. Len(Order) - 1 : phase' = [phase EXCEPT ![n] = Order[i + 1]]
  BY DEF StartOrStop
<1>2. Order[i + 1] \in ToSet(Order)
  <2>1. Len(Order) = 6 /\ DOMAIN Order = 1 .. 6
    BY DEF Order
  <2>2. i + 1 \in 1 .. 6
    BY <2>1
  <2> QED BY <2>1, <2>2 DEF ToSet
<1> QED BY <1>1, <1>2 DEF RestOK

\* A pool takes a transaction that it does not hold.
LEMMA PoolsType ==
  ASSUME PoolsOK, RestOK, NEW n \in Node, NEW tx \in Txs, Admits(n, tx), Pools(n, tx)
  PROVE  PoolsOK' /\ accepted' \in [Node -> SUBSET Txs]
<1>1. pool' = [pool EXCEPT ![n] = Append(pool[n], tx)] /\ pool[n] \in Seq(Txs)
  BY DEF Pools, PoolsOK
<1>2. /\ Append(pool[n], tx) \in Seq(Txs)
      /\ IsInjective(Append(pool[n], tx))
  BY <1>1, AppendHolds DEF PoolsOK, Admits
<1>3. PoolsOK'
  BY <1>1, <1>2 DEF PoolsOK
<1>4. accepted' \in [Node -> SUBSET Txs]
  BY DEF Pools, RestOK
<1> QED BY <1>3, <1>4

\* A channel that takes one more element when it is not full.
LEMMA ChannelSend ==
  ASSUME NEW ch \in [Node -> Seq(Txs)], NEW size \in Nat, \A k \in Node : Len(ch[k]) <= size,
         NEW n \in Node, NEW tx \in Txs, Len(ch[n]) < size,
         NEW next, next = [ch EXCEPT ![n] = Append(@, tx)]
  PROVE  next \in [Node -> Seq(Txs)] /\ \A k \in Node : Len(next[k]) <= size
<1>1. Append(ch[n], tx) \in Seq(Txs) /\ Len(Append(ch[n], tx)) = Len(ch[n]) + 1
      /\ Len(ch[n]) \in Nat
  BY AppendHolds
<1> QED BY <1>1

\* A channel from which one element is received.
LEMMA ChannelReceive ==
  ASSUME NEW ch \in [Node -> Seq(Txs)], NEW size \in Nat, \A k \in Node : Len(ch[k]) <= size,
         NEW n \in Node, ch[n] # <<>>,
         NEW next, next = [ch EXCEPT ![n] = Tail(@)]
  PROVE  next \in [Node -> Seq(Txs)] /\ \A k \in Node : Len(next[k]) <= size
<1>1. /\ Tail(ch[n]) \in Seq(Txs) /\ Len(Tail(ch[n])) < Len(ch[n])
      /\ Len(ch[n]) \in Nat /\ Len(Tail(ch[n])) \in Nat /\ Len(ch[n]) <= size
  BY TailHolds
<1> QED BY <1>1

\* The clients' methods and those of the reactor.
LEMMA TypeSubmit ==
  ASSUME TypeOK, NEW s \in Submissions, SubmitTx(s) \/ ReactorSubmitTx(s)
  PROVE  TypeOK'
<1>1. PoolsOK /\ ChannelsOK /\ ChainOK /\ RestOK
  BY TypeParts
<1>2. s.at \in Node /\ s.tx \in Txs
  BY SubmissionType
<1>3. Admits(s.at, s.tx) /\ Pools(s.at, s.tx) /\ tried' \subseteq Submissions
  BY <1>1 DEF SubmitTx, ReactorSubmitTx, Submits, RestOK
<1>4. PoolsOK' /\ accepted' \in [Node -> SUBSET Txs]
  BY <1>1, <1>2, <1>3, PoolsType
<1>5. CASE SubmitTx(s)
  <2>1. UNCHANGED <<phase, cache, requests, gossip, chain, offered, dropped, refused, lost>>
    BY <1>5 DEF SubmitTx
  <2>2. submitting' \in [Node -> SUBSET Txs]
    BY <1>1, <1>2, <1>5 DEF SubmitTx, RestOK
  <2>3. ChannelsOK' /\ ChainOK' /\ RestOK'
    BY <1>1, <1>3, <1>4, <2>1, <2>2 DEF ChannelsOK, ChainOK, RestOK, gossip, chain
  <2> QED BY <1>4, <2>3, TypeParts
<1>6. CASE ReactorSubmitTx(s)
  <2>1. UNCHANGED <<phase, cache, submitting, requests, batch, calls, chain, dropped, refused, lost>>
    BY <1>6 DEF ReactorSubmitTx
  <2>2. queue' \in [Node -> Seq(Txs)] /\ \A k \in Node : Len(queue'[k]) <= QueueSize
    <3>1. CASE Len(queue[s.at]) < QueueSize
      <4>1. queue' = [queue EXCEPT ![s.at] = Append(@, s.tx)]
        BY <1>6, <3>1 DEF ReactorSubmitTx
      <4> QED BY <1>1, <1>2, <3>1, <4>1, ChannelSend, SizesAssumption DEF ChannelsOK
    <3>2. CASE ~ (Len(queue[s.at]) < QueueSize)
      BY <1>1, <1>6, <3>2 DEF ReactorSubmitTx, ChannelsOK
    <3> QED BY <3>1, <3>2
  <2>3. offered' \in [Node -> SUBSET Txs]
    <3>1. CASE Len(queue[s.at]) < QueueSize
      BY <1>1, <1>2, <1>6, <3>1 DEF ReactorSubmitTx, RestOK
    <3>2. CASE ~ (Len(queue[s.at]) < QueueSize)
      BY <1>1, <1>6, <3>2 DEF ReactorSubmitTx, RestOK
    <3> QED BY <3>1, <3>2
  <2>4. ChannelsOK' /\ ChainOK' /\ RestOK'
    BY <1>1, <1>3, <1>4, <2>1, <2>2, <2>3 DEF ChannelsOK, ChainOK, RestOK, chain
  <2> QED BY <1>4, <2>4, TypeParts
<1> QED BY <1>5, <1>6

\* A request for the primary, or the end of a client's call.
LEMMA TypeRequest ==
  ASSUME TypeOK, NEW n \in Node, NEW tx \in Txs, SubmitRequest(n, tx)
  PROVE  TypeOK'
<1>1. PoolsOK /\ ChannelsOK /\ ChainOK /\ RestOK
  BY TypeParts
<1>2. UNCHANGED <<node, tried, gossip, chain, history>>
  BY DEF SubmitRequest
<1>3. submitting' \in [Node -> SUBSET Txs]
  BY <1>1 DEF SubmitRequest, RestOK
<1>4. requests' \in [Node -> Seq(Txs)] /\ \A k \in Node : Len(requests'[k]) <= RequestSize
  <2>1. CASE n = Primary /\ Len(requests[n]) < RequestSize
    <3>1. requests' = [requests EXCEPT ![n] = Append(@, tx)]
      BY <2>1 DEF SubmitRequest
    <3> QED BY <1>1, <2>1, <3>1, ChannelSend, SizesAssumption DEF ChannelsOK
  <2>2. CASE ~ (n = Primary /\ Len(requests[n]) < RequestSize)
    BY <1>1, <2>2 DEF SubmitRequest, ChannelsOK
  <2> QED BY <2>1, <2>2
<1>5. PoolsOK' /\ ChannelsOK' /\ ChainOK' /\ RestOK'
  BY <1>1, <1>2, <1>3, <1>4
     DEF PoolsOK, ChannelsOK, ChainOK, RestOK, node, gossip, chain, history
<1> QED BY <1>5, TypeParts

\* What broadcastLoop collects, and what becomes of it.
LEMMA TakeFromQueueCases ==
  ASSUME TypeOK, NEW n \in Node, TakeFromQueue(n)
  PROVE  \E collected \in Seq(Txs) :
           /\ ToSet(collected) \subseteq ToSet(batch[n]) \cup ToSet(queue[n])
           /\ queue[n] # <<>> /\ queue' = [queue EXCEPT ![n] = Tail(@)]
           /\ \/ /\ batch' = [batch EXCEPT ![n] = <<>>]
                 /\ calls' = calls \cup Calls(n, collected)
              \/ /\ Len(collected) < BroadcastSize
                 /\ batch' = [batch EXCEPT ![n] = collected]
                 /\ UNCHANGED calls
           /\ UNCHANGED <<node, client, requests, chain, history>>
<1>1. queue[n] # <<>> /\ batch[n] \in Seq(Txs) /\ queue[n] \in Seq(Txs)
  BY TypeParts DEF TakeFromQueue, ChannelsOK
<1>2. PICK collected : collected = Append(batch[n], Head(queue[n]))
  OBVIOUS
<1>3. Head(queue[n]) \in Txs /\ Head(queue[n]) \in ToSet(queue[n])
  BY <1>1, TailHolds
<1>4. /\ collected \in Seq(Txs) /\ Len(collected) \in Nat
      /\ ToSet(collected) \subseteq ToSet(batch[n]) \cup ToSet(queue[n])
  BY <1>1, <1>2, <1>3, AppendHolds
<1>5. /\ queue' = [queue EXCEPT ![n] = Tail(@)]
      /\ UNCHANGED <<node, client, requests, chain, history>>
  BY DEF TakeFromQueue
<1>6. CASE Len(collected) >= BroadcastSize
  <2>1. /\ batch' = [batch EXCEPT ![n] = <<>>]
        /\ calls' = calls \cup Calls(n, collected)
    BY <1>2, <1>6 DEF TakeFromQueue
  <2> QED BY <1>1, <1>4, <1>5, <2>1
<1>7. CASE ~ (Len(collected) >= BroadcastSize)
  <2>1. batch' = [batch EXCEPT ![n] = collected] /\ UNCHANGED calls
    BY <1>2, <1>7 DEF TakeFromQueue
  <2>2. Len(collected) < BroadcastSize
    BY <1>4, <1>7, SizesAssumption
  <2> QED BY <1>1, <1>4, <1>5, <2>1, <2>2
<1> QED BY <1>6, <1>7

\* A batch that is emptied or replaced by a short one.
LEMMA BatchType ==
  ASSUME ChannelsOK, NEW n \in Node, NEW b \in Seq(Txs), Len(b) < BroadcastSize,
         batch' = [batch EXCEPT ![n] = b]
  PROVE  batch' \in [Node -> Seq(Txs)] /\ \A k \in Node : Len(batch'[k]) < BroadcastSize
BY DEF ChannelsOK

\* An empty batch is short.
LEMMA EmptyShort == <<>> \in Seq(Txs) /\ Len(<<>>) < BroadcastSize
BY EmptyHolds, SizesAssumption

\* The goroutine of the reactor.
LEMMA TypeLoop ==
  ASSUME TypeOK, NEW n \in Node, TakeFromQueue(n) \/ Ticker(n)
  PROVE  TypeOK'
<1>1. PoolsOK /\ ChannelsOK /\ ChainOK /\ RestOK
  BY TypeParts
<1>2. UNCHANGED <<node, client, requests, chain, history>>
  BY DEF TakeFromQueue, Ticker
<1>3. /\ batch' \in [Node -> Seq(Txs)]
      /\ \A k \in Node : Len(batch'[k]) < BroadcastSize
      /\ queue' \in [Node -> Seq(Txs)]
      /\ \A k \in Node : Len(queue'[k]) <= QueueSize
      /\ calls' \subseteq [from : Node, to : Node, tx : Txs]
  <2>1. CASE TakeFromQueue(n)
    <3>1. PICK collected \in Seq(Txs) :
            /\ queue[n] # <<>> /\ queue' = [queue EXCEPT ![n] = Tail(@)]
            /\ \/ /\ batch' = [batch EXCEPT ![n] = <<>>]
                  /\ calls' = calls \cup Calls(n, collected)
               \/ /\ Len(collected) < BroadcastSize
                  /\ batch' = [batch EXCEPT ![n] = collected]
                  /\ UNCHANGED calls
      BY <2>1, TakeFromQueueCases
    <3>2. queue' \in [Node -> Seq(Txs)] /\ \A k \in Node : Len(queue'[k]) <= QueueSize
      BY <1>1, <3>1, ChannelReceive, SizesAssumption DEF ChannelsOK
    <3>3. batch' \in [Node -> Seq(Txs)] /\ \A k \in Node : Len(batch'[k]) < BroadcastSize
      BY <1>1, <3>1, BatchType, EmptyShort
    <3>4. calls' \subseteq [from : Node, to : Node, tx : Txs]
      BY <1>1, <3>1, CallsType DEF RestOK
    <3> QED BY <3>2, <3>3, <3>4
  <2>2. CASE Ticker(n)
    <3>1. /\ batch' = [batch EXCEPT ![n] = <<>>] /\ calls' = calls \cup Calls(n, batch[n])
          /\ UNCHANGED queue
      BY <2>2 DEF Ticker
    <3>2. batch' \in [Node -> Seq(Txs)] /\ \A k \in Node : Len(batch'[k]) < BroadcastSize
      BY <1>1, <3>1, BatchType, EmptyShort
    <3>3. calls' \subseteq [from : Node, to : Node, tx : Txs]
      <4>1. batch[n] \in Seq(Txs)
        BY <1>1 DEF ChannelsOK
      <4> QED BY <1>1, <3>1, <4>1, CallsType DEF RestOK
    <3> QED BY <1>1, <3>1, <3>2, <3>3 DEF ChannelsOK
  <2> QED BY <2>1, <2>2
<1>4. PoolsOK' /\ ChannelsOK' /\ ChainOK' /\ RestOK'
  BY <1>1, <1>2, <1>3
     DEF PoolsOK, ChannelsOK, ChainOK, RestOK, node, client, chain, history
<1> QED BY <1>4, TypeParts

\* A call reaches its peer or is lost.
LEMMA TypeCall ==
  ASSUME TypeOK, NEW c \in calls, BroadcastTx(c) \/ CallLost(c)
  PROVE  TypeOK'
<1>1. PoolsOK /\ ChannelsOK /\ ChainOK /\ RestOK
  BY TypeParts
<1>2. c \in [from : Node, to : Node, tx : Txs] /\ c.to \in Node /\ c.tx \in Txs
  BY <1>1 DEF RestOK
<1>3. CASE BroadcastTx(c)
  <2>1. PoolsOK' /\ accepted' \in [Node -> SUBSET Txs]
    <3>1. CASE Admits(c.to, c.tx)
      <4>1. Pools(c.to, c.tx)
        BY <1>3, <3>1 DEF BroadcastTx
      <4> QED BY <1>1, <1>2, <3>1, <4>1, PoolsType
    <3>2. CASE ~ Admits(c.to, c.tx)
      <4>1. UNCHANGED <<pool, accepted>>
        BY <1>3, <3>2 DEF BroadcastTx
      <4> QED BY <1>1, <4>1 DEF PoolsOK, RestOK
    <3> QED BY <3>1, <3>2
  <2>2. calls' \subseteq calls
    BY <1>3 DEF BroadcastTx
  <2>3. UNCHANGED <<phase, cache, client, requests, queue, batch, chain,
                   offered, dropped, refused, lost>>
    BY <1>3 DEF BroadcastTx
  <2>4. ChannelsOK' /\ ChainOK' /\ RestOK'
    BY <1>1, <2>1, <2>2, <2>3 DEF ChannelsOK, ChainOK, RestOK, client, chain
  <2> QED BY <2>1, <2>4, TypeParts
<1>4. CASE CallLost(c)
  <2>1. /\ calls' \subseteq calls /\ lost' = lost \cup {c}
        /\ UNCHANGED <<node, client, requests, queue, batch, chain,
                       accepted, offered, dropped, refused>>
    BY <1>4 DEF CallLost
  <2>2. PoolsOK' /\ ChannelsOK' /\ ChainOK' /\ RestOK'
    BY <1>1, <1>2, <2>1 DEF PoolsOK, ChannelsOK, ChainOK, RestOK, node, client, chain
  <2> QED BY <2>2, TypeParts
<1> QED BY <1>3, <1>4

\* The engine takes a request or executes a block.
LEMMA TypeEngine ==
  ASSUME TypeOK, NEW n \in Node,
         TakeRequest(n) \/ \E i \in 1 .. Len(blocks) : Execute(n, i)
  PROVE  TypeOK'
<1>1. PoolsOK /\ ChannelsOK /\ ChainOK /\ RestOK
  BY TypeParts
<1>2. CASE TakeRequest(n)
  <2>1. /\ requests[n] # <<>> /\ requests' = [requests EXCEPT ![n] = Tail(@)]
        /\ UNCHANGED <<node, client, gossip, view, executed, accepted, offered, dropped, lost>>
        /\ \/ blocks' = Append(blocks, Proposal(n)) /\ UNCHANGED refused
           \/ /\ refused' = [refused EXCEPT ![n] = @ \cup {Head(requests[n])}]
              /\ UNCHANGED blocks
           \/ UNCHANGED <<blocks, refused>>
    BY <1>2 DEF TakeRequest
  <2>2. requests' \in [Node -> Seq(Txs)] /\ \A k \in Node : Len(requests'[k]) <= RequestSize
    BY <1>1, <2>1, ChannelReceive, SizesAssumption DEF ChannelsOK
  <2>3. blocks' \in Seq(SUBSET Txs) /\ 1 .. Len(blocks) \subseteq 1 .. Len(blocks')
    <3>1. CASE blocks' = Append(blocks, Proposal(n))
      <4>2. pool[n] \in Seq(Txs) /\ requests[n] \in Seq(Txs)
        BY <1>1 DEF PoolsOK, ChannelsOK
      <4>3. Proposal(n) \in SUBSET Txs
        BY <2>1, <4>2, ProposalType
      <4>4. blocks \in Seq(SUBSET Txs)
        BY <1>1 DEF ChainOK
      <4> QED BY <3>1, <4>3, <4>4
    <3>2. CASE UNCHANGED blocks
      BY <1>1, <3>2 DEF ChainOK
    <3> QED BY <2>1, <3>1, <3>2
  <2>4. ChainOK'
    <3>1. executed' = executed /\ view' = view
      BY <2>1
    <3>2. executed' \in [Node -> SUBSET (1 .. Len(blocks'))]
      BY <1>1, <2>3, <3>1 DEF ChainOK
    <3> QED BY <1>1, <2>3, <3>1, <3>2 DEF ChainOK
  <2>5. refused' \in [Node -> SUBSET Txs]
    <3>1. Head(requests[n]) \in Txs /\ refused \in [Node -> SUBSET Txs]
      BY <1>1, <2>1, TailHolds DEF ChannelsOK, RestOK
    <3> QED BY <2>1, <3>1
  <2>6. PoolsOK' /\ ChannelsOK' /\ RestOK'
    BY <1>1, <2>1, <2>2, <2>5
       DEF PoolsOK, ChannelsOK, RestOK, node, client, gossip
  <2> QED BY <2>4, <2>6, TypeParts
<1>3. ASSUME NEW i \in 1 .. Len(blocks), Execute(n, i) PROVE TypeOK'
  <2>1. /\ executed' = [executed EXCEPT ![n] = @ \cup {i}]
        /\ pool' = [pool EXCEPT ![n] = Without(@, blocks[i])]
        /\ cache' = [cache EXCEPT ![n] = @ \cup (ToSet(pool[n]) \cap blocks[i])]
        /\ UNCHANGED <<phase, client, requests, gossip, view, blocks, history>>
    BY <1>3 DEF Execute
  <2>2. pool[n] \in Seq(Txs)
    BY <1>1 DEF PoolsOK
  <2>3. /\ Without(pool[n], blocks[i]) \in Seq(Txs)
        /\ IsInjective(pool[n]) => IsInjective(Without(pool[n], blocks[i]))
    BY <2>2, WithoutSet
  <2>4. PoolsOK'
    BY <1>1, <2>1, <2>3 DEF PoolsOK
  <2>5. ToSet(pool[n]) \subseteq Txs
    BY <2>2, HoldsType
  <2>6. cache' \in [Node -> SUBSET Txs]
    BY <1>1, <2>1, <2>5 DEF RestOK
  <2>7. ChannelsOK' /\ ChainOK' /\ RestOK'
    BY <1>1, <2>1, <2>6 DEF ChannelsOK, ChainOK, RestOK, client, gossip, history
  <2> QED BY <2>4, <2>7, TypeParts
<1> QED BY <1>2, <1>3

\* A pool drops some of what it holds.
LEMMA TypeDrops ==
  ASSUME TypeOK, NEW n \in Node, PoolDrops(n)
  PROVE  TypeOK'
<1>1. PoolsOK /\ ChannelsOK /\ ChainOK /\ RestOK
  BY TypeParts
<1>2. PICK gone \in SUBSET {tx \in ToSet(pool[n]) : <<n, tx>> \in Perishable} :
        /\ pool' = [pool EXCEPT ![n] = Without(@, gone)]
        /\ cache' = [cache EXCEPT ![n] = @ \cup gone] \/ UNCHANGED cache
        /\ dropped' = [dropped EXCEPT ![n] = @ \cup gone]
        /\ UNCHANGED <<phase, client, requests, gossip, chain, accepted, offered, refused, lost>>
  BY DEF PoolDrops
<1>3. pool[n] \in Seq(Txs)
  BY <1>1 DEF PoolsOK
<1>4. gone \subseteq Txs
  BY <1>3, HoldsType
<1>5. /\ Without(pool[n], gone) \in Seq(Txs)
      /\ IsInjective(pool[n]) => IsInjective(Without(pool[n], gone))
  BY <1>3, WithoutSet
<1>6. PoolsOK'
  BY <1>1, <1>2, <1>5 DEF PoolsOK
<1>7. cache' \in [Node -> SUBSET Txs] /\ dropped' \in [Node -> SUBSET Txs]
  BY <1>1, <1>2, <1>4 DEF RestOK
<1>8. ChannelsOK' /\ ChainOK' /\ RestOK'
  BY <1>1, <1>2, <1>7 DEF ChannelsOK, ChainOK, RestOK, client, gossip, chain
<1> QED BY <1>6, <1>8, TypeParts

\* Every step keeps the types.
LEMMA TypeStep == TypeOK /\ [Next]_vars => TypeOK'
<1> SUFFICES ASSUME TypeOK, [Next]_vars PROVE TypeOK'
  OBVIOUS
<1>1. PoolsOK /\ ChannelsOK /\ ChainOK /\ RestOK
  BY TypeParts
<1>2. ASSUME NEW n \in Node, StartOrStop(n) PROVE TypeOK'
  <2>1. phase' \in [Node -> ToSet(Order)]
    BY <1>1, <1>2, PhaseType
  <2>2. UNCHANGED <<pool, cache, client, requests, gossip, chain, history>>
    BY <1>2 DEF StartOrStop
  <2>3. PoolsOK' /\ ChannelsOK' /\ ChainOK' /\ RestOK'
    BY <1>1, <2>1, <2>2
       DEF PoolsOK, ChannelsOK, ChainOK, RestOK, client, gossip, chain, history
  <2> QED BY <2>3, TypeParts
<1>3. ASSUME NEW n \in Node, CleanupCache(n) PROVE TypeOK'
  <2>1. cache' \in [Node -> SUBSET Txs]
    BY <1>1, <1>3 DEF CleanupCache, RestOK
  <2>2. UNCHANGED <<phase, pool, client, requests, gossip, chain, history>>
    BY <1>3 DEF CleanupCache
  <2>3. PoolsOK' /\ ChannelsOK' /\ ChainOK' /\ RestOK'
    BY <1>1, <2>1, <2>2
       DEF PoolsOK, ChannelsOK, ChainOK, RestOK, client, gossip, chain, history
  <2> QED BY <2>3, TypeParts
<1>4. CASE ChangeView
  <2>1. view' = view + 1 /\ view < MaxView
    BY <1>4 DEF ChangeView
  <2>2. UNCHANGED <<node, client, requests, gossip, blocks, executed, history>>
    BY <1>4 DEF ChangeView
  <2>3. view' \in 0 .. MaxView
    BY <1>1, <2>1, SizesAssumption DEF ChainOK
  <2>4. PoolsOK' /\ ChannelsOK' /\ ChainOK' /\ RestOK'
    BY <1>1, <2>2, <2>3
       DEF PoolsOK, ChannelsOK, ChainOK, RestOK, node, client, gossip, history
  <2> QED BY <2>4, TypeParts
<1>5. CASE UNCHANGED vars
  <2>1. PoolsOK' /\ ChannelsOK' /\ ChainOK' /\ RestOK'
    BY <1>1, <1>5
       DEF PoolsOK, ChannelsOK, ChainOK, RestOK, vars, node, client, gossip, chain, history
  <2> QED BY <2>1, TypeParts
<1> QED
  BY <1>2, <1>3, <1>4, <1>5, TypeSubmit, TypeRequest, TypeLoop, TypeCall, TypeEngine,
     TypeDrops DEF Next

\* Nothing is in a pool, a channel or a block at first.
LEMMA TypeInit == Init => TypeOK
<1> SUFFICES ASSUME Init PROVE TypeOK
  OBVIOUS
<1>1. PICK none : none = <<>> /\ none \in Seq(Txs) /\ Len(none) = 0 /\ IsInjective(none)
  BY EmptyHolds
<1>2. PoolsOK
  BY <1>1 DEF Init, PoolsOK
<1>3. ChannelsOK
  BY <1>1, SizesAssumption DEF Init, ChannelsOK
<1>4. blocks \in Seq(SUBSET Txs)
  BY DEF Init
<1>5. ChainOK
  BY <1>4, SizesAssumption DEF Init, ChainOK
<1>6. phase \in [Node -> ToSet(Order)]
  <2>1. DOMAIN Order = 1 .. 6 /\ Order[1] = "created" /\ Order[3] = "running"
    BY DEF Order
  <2>2. "created" \in ToSet(Order) /\ "running" \in ToSet(Order)
    BY <2>1 DEF ToSet
  <2> QED BY <2>2 DEF Init
<1>7. RestOK
  BY <1>6 DEF Init, RestOK
<1> QED BY <1>2, <1>3, <1>5, <1>7, TypeParts

\* Pools, channels, calls and blocks keep their types, and a pool, which takes
\* transactions from clients and peers at once, never holds one twice
\* (AddTxWithMeta).
THEOREM InclusionTypeCorrect == Spec => []TypeOK
<1>1. QED  BY TypeInit, TypeStep, PTL DEF Spec

-----------------------------------------------------------------------------
(***************************************************************************)
(* NothingLost.                                                            *)
(***************************************************************************)
\* What a node has executed stays executed, as the blocks it has executed are
\* proposed already.
LEMMA ExecutedStays ==
  ASSUME TypeOK, NEW n \in Node, executed[n] \subseteq executed'[n],
         \A i \in 1 .. Len(blocks) : blocks'[i] = blocks[i]
  PROVE  ExecutedTxs(n) \subseteq ExecutedTxs(n)'
<1>1. executed[n] \subseteq 1 .. Len(blocks)
  BY DEF TypeOK
<1> QED BY <1>1 DEF ExecutedTxs

\* A step in which pools lose nothing and take what is accepted.
LEMMA LostKept ==
  ASSUME TypeOK, NothingLost, UNCHANGED <<blocks, executed, dropped>>,
         \A n \in Node : ToSet(pool[n]) \cup (accepted'[n] \ accepted[n]) \subseteq ToSet(pool'[n])
  PROVE  NothingLost'
<1>1. \A n \in Node : ExecutedTxs(n)' = ExecutedTxs(n)
  BY DEF ExecutedTxs
<1> QED BY <1>1 DEF NothingLost

\* What a pool accepts it holds.
LEMMA LostPools ==
  ASSUME TypeOK, NothingLost, UNCHANGED <<blocks, executed, dropped>>,
         NEW n \in Node, NEW tx \in Txs, Pools(n, tx)
  PROVE  NothingLost'
<1>1. /\ pool' = [pool EXCEPT ![n] = Append(pool[n], tx)] /\ pool[n] \in Seq(Txs)
      /\ accepted' = [accepted EXCEPT ![n] = @ \cup {tx}]
      /\ pool \in [Node -> Seq(Txs)] /\ accepted \in [Node -> SUBSET Txs]
  BY DEF Pools, TypeOK
<1>2. ToSet(Append(pool[n], tx)) = ToSet(pool[n]) \cup {tx}
  BY <1>1, AppendHolds
<1>3. \A k \in Node :
        ToSet(pool[k]) \cup (accepted'[k] \ accepted[k]) \subseteq ToSet(pool'[k])
  <2> SUFFICES ASSUME NEW k \in Node
               PROVE  ToSet(pool[k]) \cup (accepted'[k] \ accepted[k]) \subseteq ToSet(pool'[k])
    OBVIOUS
  <2>1. CASE k = n
    <3>1. pool'[k] = Append(pool[n], tx) /\ accepted'[k] = accepted[n] \cup {tx}
      BY <1>1, <2>1
    <3> QED BY <1>2, <2>1, <3>1
  <2>2. CASE k # n
    <3>1. pool'[k] = pool[k] /\ accepted'[k] = accepted[k]
      BY <1>1, <2>2
    <3> QED BY <3>1
  <2> QED BY <2>1, <2>2
<1> QED BY <1>3, LostKept

\* What executing a block takes out of the pool is in the block.
LEMMA LostExecute ==
  ASSUME TypeOK, NothingLost, NEW n \in Node, NEW i \in 1 .. Len(blocks), Execute(n, i)
  PROVE  NothingLost'
<1>1. /\ executed' = [executed EXCEPT ![n] = @ \cup {i}]
      /\ pool' = [pool EXCEPT ![n] = Without(@, blocks[i])]
      /\ UNCHANGED <<blocks, accepted, dropped>>
  BY DEF Execute, history
<1>2. pool \in [Node -> Seq(Txs)] /\ executed \in [Node -> SUBSET (1 .. Len(blocks))]
  BY DEF TypeOK
<1>3. ToSet(Without(pool[n], blocks[i])) = ToSet(pool[n]) \ blocks[i]
  BY <1>2, WithoutSet
<1> SUFFICES ASSUME NEW k \in Node
             PROVE  accepted'[k] \subseteq ToSet(pool'[k]) \cup ExecutedTxs(k)' \cup dropped'[k]
  BY DEF NothingLost
<1>4. accepted[k] \subseteq ToSet(pool[k]) \cup ExecutedTxs(k) \cup dropped[k]
  BY DEF NothingLost
<1>5. ExecutedTxs(k) \subseteq ExecutedTxs(k)'
  <2>1. executed[k] \subseteq executed'[k]
    BY <1>1, <1>2
  <2> QED BY <1>1, <2>1, ExecutedStays
<1>6. CASE k = n
  <2>1. pool'[k] = Without(pool[n], blocks[i])
    BY <1>1, <1>2, <1>6
  <2>2. blocks[i] \subseteq ExecutedTxs(k)'
    <3>1. i \in executed'[k] /\ blocks'[i] = blocks[i]
      BY <1>1, <1>2, <1>6
    <3> QED BY <3>1 DEF ExecutedTxs
  <2> QED BY <1>1, <1>3, <1>4, <1>5, <1>6, <2>1, <2>2
<1>7. CASE k # n
  <2>1. pool'[k] = pool[k]
    BY <1>1, <1>2, <1>7
  <2> QED BY <1>1, <1>4, <1>5, <2>1
<1> QED BY <1>6, <1>7

\* A proposal reaps the pool and leaves it as it is.
LEMMA LostTakeRequest ==
  ASSUME TypeOK, NothingLost, NEW n \in Node, TakeRequest(n)
  PROVE  NothingLost'
<1>1. UNCHANGED <<pool, executed, accepted, dropped>>
  BY DEF TakeRequest, node
<1>2. \A i \in 1 .. Len(blocks) : blocks'[i] = blocks[i]
  <2>1. blocks \in Seq(SUBSET Txs)
    BY DEF TypeOK
  <2>2. CASE blocks' = Append(blocks, Proposal(n))
    BY <2>1, <2>2
  <2>3. CASE UNCHANGED blocks
    BY <2>3
  <2> QED BY <2>2, <2>3 DEF TakeRequest
<1>3. \A k \in Node : ExecutedTxs(k) \subseteq ExecutedTxs(k)'
  BY <1>1, <1>2, ExecutedStays
<1> QED BY <1>1, <1>3 DEF NothingLost

\* What a pool drops is counted as dropped.
LEMMA LostDrops ==
  ASSUME TypeOK, NothingLost, NEW n \in Node, PoolDrops(n)
  PROVE  NothingLost'
<1>1. PICK gone : /\ pool' = [pool EXCEPT ![n] = Without(@, gone)]
                  /\ dropped' = [dropped EXCEPT ![n] = @ \cup gone]
                  /\ UNCHANGED <<blocks, executed, accepted>>
  BY DEF PoolDrops, chain
<1>2. /\ pool \in [Node -> Seq(Txs)] /\ dropped \in [Node -> SUBSET Txs]
      /\ ToSet(Without(pool[n], gone)) = ToSet(pool[n]) \ gone
  BY WithoutSet DEF TypeOK
<1>3. \A k \in Node : ToSet(pool[k]) \cup dropped[k] \subseteq ToSet(pool'[k]) \cup dropped'[k]
  <2> SUFFICES ASSUME NEW k \in Node
               PROVE  ToSet(pool[k]) \cup dropped[k] \subseteq ToSet(pool'[k]) \cup dropped'[k]
    OBVIOUS
  <2>1. CASE k = n
    <3>1. pool'[k] = Without(pool[n], gone) /\ dropped'[k] = dropped[n] \cup gone
      BY <1>1, <1>2, <2>1
    <3> QED BY <1>2, <2>1, <3>1
  <2>2. CASE k # n
    <3>1. pool'[k] = pool[k] /\ dropped'[k] = dropped[k]
      BY <1>1, <1>2, <2>2
    <3> QED BY <3>1
  <2> QED BY <2>1, <2>2
<1>4. \A k \in Node : ExecutedTxs(k)' = ExecutedTxs(k)
  BY <1>1 DEF ExecutedTxs
<1> QED BY <1>1, <1>3, <1>4 DEF NothingLost

\* Every step keeps what was accepted.
LEMMA LostStep == TypeOK /\ NothingLost /\ [Next]_vars => NothingLost'
<1> SUFFICES ASSUME TypeOK, NothingLost, [Next]_vars PROVE NothingLost'
  OBVIOUS
<1>1. ASSUME UNCHANGED <<pool, accepted, dropped, blocks, executed>> PROVE NothingLost'
  BY <1>1, LostKept
<1>2. ASSUME NEW n \in Node, NEW tx \in Txs, SubmitRequest(n, tx) PROVE NothingLost'
  BY <1>1, <1>2 DEF SubmitRequest, node, chain, history
<1>3. ASSUME NEW s \in Submissions, SubmitTx(s) \/ ReactorSubmitTx(s) PROVE NothingLost'
  <2>1. /\ s.at \in Node /\ s.tx \in Txs /\ Pools(s.at, s.tx)
        /\ UNCHANGED <<blocks, executed, dropped>>
    BY <1>3, SubmissionType DEF SubmitTx, ReactorSubmitTx, chain
  <2> QED BY <2>1, LostPools
<1>4. ASSUME NEW c \in calls, BroadcastTx(c) \/ CallLost(c) PROVE NothingLost'
  <2>1. UNCHANGED <<blocks, executed, dropped>>
    BY <1>4 DEF BroadcastTx, CallLost, chain
  <2>2. c.to \in Node /\ c.tx \in Txs
    BY DEF TypeOK
  <2>3. Pools(c.to, c.tx) \/ UNCHANGED <<pool, accepted>>
    BY <1>4 DEF BroadcastTx, CallLost, node
  <2> QED BY <1>1, <2>1, <2>2, <2>3, LostPools
<1>5. CASE ChangeView \/ UNCHANGED vars
  BY <1>1, <1>5 DEF ChangeView, vars, node, chain, history
<1>6. ASSUME NEW n \in Node, StartOrStop(n) \/ TakeFromQueue(n) \/ Ticker(n)
                                \/ CleanupCache(n)
      PROVE  NothingLost'
  BY <1>1, <1>6 DEF StartOrStop, TakeFromQueue, Ticker, CleanupCache, node, chain, history
<1> QED
  BY <1>2, <1>3, <1>4, <1>5, <1>6, LostTakeRequest, LostExecute, LostDrops
     DEF Next

\* A transaction a pool has taken, from a client or from gossip, leaves it only with
\* a block that is executed there or by the pool's own expiry, eviction, recheck or
\* Flush: proposals that come to nothing, refused requests, changes of the primary
\* and the phases of Start and Stop leave it where it is.
THEOREM TransactionsKept == Spec => []NothingLost
<1>1. Init => NothingLost
  BY DEF Init, NothingLost
<1>2. QED  BY <1>1, LostStep, InclusionTypeCorrect, PTL DEF Spec

-----------------------------------------------------------------------------
(***************************************************************************)
(* GossipFromOrigin.                                                       *)
(***************************************************************************)
\* Every step keeps where gossip comes from.
LEMMA GossipStep == TypeOK /\ GossipFromOrigin /\ [Next]_vars => GossipFromOrigin'
<1> SUFFICES ASSUME TypeOK, GossipFromOrigin, [Next]_vars PROVE GossipFromOrigin'
  OBVIOUS
<1>1. /\ queue \in [Node -> Seq(Txs)] /\ batch \in [Node -> Seq(Txs)]
      /\ offered \in [Node -> SUBSET Txs]
      /\ \A c \in calls \cup lost : c.from \in Node
      /\ calls \subseteq [from : Node, to : Node, tx : Txs]
  BY DEF TypeOK
<1>2. ASSUME UNCHANGED <<queue, batch, offered>>, calls' \cup lost' \subseteq calls \cup lost
      PROVE  GossipFromOrigin'
  BY <1>2 DEF GossipFromOrigin
<1>3. ASSUME NEW n \in Node, StartOrStop(n) \/ TakeRequest(n) \/ CleanupCache(n) \/ PoolDrops(n)
                                \/ (\E tx \in Txs : SubmitRequest(n, tx))
                                \/ (\E i \in 1 .. Len(blocks) : Execute(n, i))
      PROVE  GossipFromOrigin'
  BY <1>2, <1>3 DEF StartOrStop, TakeRequest, CleanupCache, PoolDrops, SubmitRequest, Execute,
                    gossip, history
<1>4. ASSUME NEW s \in Submissions, SubmitTx(s) PROVE GossipFromOrigin'
  BY <1>2, <1>4 DEF SubmitTx, gossip
<1>5. ASSUME NEW c \in calls, BroadcastTx(c) \/ CallLost(c) PROVE GossipFromOrigin'
  BY <1>2, <1>5 DEF BroadcastTx, CallLost
<1>6. CASE ChangeView \/ UNCHANGED vars
  BY <1>2, <1>6 DEF ChangeView, vars, gossip, history
<1>7. ASSUME NEW s \in Submissions, ReactorSubmitTx(s) PROVE GossipFromOrigin'
  <2>1. UNCHANGED <<batch, calls, lost>> /\ s.at \in Node /\ s.tx \in Txs
    BY <1>7, SubmissionType DEF ReactorSubmitTx
  <2>2. CASE Len(queue[s.at]) < QueueSize
    <3>1. /\ queue' = [queue EXCEPT ![s.at] = Append(queue[s.at], s.tx)]
          /\ offered' = [offered EXCEPT ![s.at] = @ \cup {s.tx}]
      BY <1>7, <2>2 DEF ReactorSubmitTx
    <3>2. ToSet(Append(queue[s.at], s.tx)) = ToSet(queue[s.at]) \cup {s.tx}
      BY <1>1, <2>1, AppendHolds
    <3>3. \A n \in Node : offered[n] \subseteq offered'[n]
      BY <1>1, <3>1
    <3>4. ASSUME NEW n \in Node
          PROVE  ToSet(queue'[n]) \cup ToSet(batch'[n]) \subseteq offered'[n]
      <4>1. CASE n = s.at
        <5>1. /\ queue'[n] = Append(queue[s.at], s.tx)
              /\ offered'[n] = offered[n] \cup {s.tx}
          BY <1>1, <3>1, <4>1
        <5> QED BY <2>1, <3>2, <4>1, <5>1 DEF GossipFromOrigin
      <4>2. CASE n # s.at
        <5>1. queue'[n] = queue[n]
          BY <1>1, <3>1, <4>2
        <5> QED BY <2>1, <3>3, <5>1 DEF GossipFromOrigin
      <4> QED BY <4>1, <4>2
    <3> QED BY <1>1, <2>1, <3>3, <3>4 DEF GossipFromOrigin
  <2>3. CASE ~ (Len(queue[s.at]) < QueueSize)
    BY <1>2, <1>7, <2>1, <2>3 DEF ReactorSubmitTx
  <2> QED BY <2>2, <2>3
<1>8. ASSUME NEW n \in Node, NEW txs \in Seq(Txs), ToSet(txs) \subseteq offered[n],
             calls' \subseteq calls \cup Calls(n, txs), UNCHANGED <<offered, lost>>,
             \A k \in Node : ToSet(queue'[k]) \cup ToSet(batch'[k])
                               \subseteq ToSet(queue[k]) \cup ToSet(batch[k]) \cup
                                         (IF k = n THEN ToSet(txs) ELSE {})
      PROVE  GossipFromOrigin'
  <2>1. \A c \in Calls(n, txs) : c.tx \in offered[c.from]
    BY <1>8, CallsType
  <2> QED BY <1>8, <2>1 DEF GossipFromOrigin
<1>9. ToSet(<<>>) = {}
  BY EmptyHolds
<1>10. ASSUME NEW n \in Node, TakeFromQueue(n) PROVE GossipFromOrigin'
  <2>1. PICK collected \in Seq(Txs) :
          /\ ToSet(collected) \subseteq ToSet(batch[n]) \cup ToSet(queue[n])
          /\ queue[n] # <<>> /\ queue' = [queue EXCEPT ![n] = Tail(@)]
          /\ \/ /\ batch' = [batch EXCEPT ![n] = <<>>]
                /\ calls' = calls \cup Calls(n, collected)
             \/ /\ batch' = [batch EXCEPT ![n] = collected]
                /\ UNCHANGED calls
    BY <1>10, TakeFromQueueCases
  <2>2. UNCHANGED <<offered, lost>>
    BY <1>10 DEF TakeFromQueue, history
  <2>3. ToSet(collected) \subseteq offered[n]
    BY <2>1 DEF GossipFromOrigin
  <2>4. ToSet(Tail(queue[n])) \subseteq ToSet(queue[n])
    BY <1>1, <2>1, TailHolds
  <2>5. ASSUME NEW k \in Node
        PROVE  ToSet(queue'[k]) \cup ToSet(batch'[k])
                 \subseteq ToSet(queue[k]) \cup ToSet(batch[k]) \cup
                           (IF k = n THEN ToSet(collected) ELSE {})
    <3>1. CASE k = n
      <4>1. /\ queue'[k] = Tail(queue[n])
            /\ batch'[k] = <<>> \/ batch'[k] = collected
        BY <1>1, <2>1, <3>1
      <4> QED BY <1>9, <2>4, <3>1, <4>1
    <3>2. CASE k # n
      <4>1. queue'[k] = queue[k] /\ batch'[k] = batch[k]
        BY <1>1, <2>1, <3>2
      <4> QED BY <4>1
    <3> QED BY <3>1, <3>2
  <2> QED BY <1>8, <2>1, <2>2, <2>3, <2>5
<1>11. ASSUME NEW n \in Node, Ticker(n) PROVE GossipFromOrigin'
  <2>1. /\ batch' = [batch EXCEPT ![n] = <<>>] /\ calls' = calls \cup Calls(n, batch[n])
        /\ UNCHANGED <<queue, offered, lost>> /\ batch[n] \in Seq(Txs)
    BY <1>1, <1>11 DEF Ticker, history
  <2>2. ToSet(batch[n]) \subseteq offered[n]
    BY DEF GossipFromOrigin
  <2>3. ASSUME NEW k \in Node
        PROVE  ToSet(queue'[k]) \cup ToSet(batch'[k])
                 \subseteq ToSet(queue[k]) \cup ToSet(batch[k]) \cup
                           (IF k = n THEN ToSet(batch[n]) ELSE {})
    <3>1. batch'[k] = <<>> \/ batch'[k] = batch[k]
      BY <1>1, <2>1
    <3> QED BY <1>9, <2>1, <3>1
  <2> QED BY <1>8, <2>1, <2>2, <2>3
<1> QED
  BY <1>3, <1>4, <1>5, <1>6, <1>7, <1>10, <1>11 DEF Next

\* A reactor calls its peers only with what its own clients gave it: a transaction
\* that came by gossip is not queued again, however the calls cross, are lost, or
\* meet a node that starts or stops.
THEOREM GossipOrigin == Spec => []GossipFromOrigin
<1>1. Init => GossipFromOrigin
  BY EmptyHolds DEF Init, GossipFromOrigin
<1>2. QED  BY <1>1, GossipStep, InclusionTypeCorrect, PTL DEF Spec
=============================================================================
