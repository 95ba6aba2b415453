------------------------- MODULE PBFTBlocks_proofs --------------------------
(***************************************************************************)
(* The theorems on views and blocks: a quorum behind every view and no     *)
(* trace of view changes that are over; everything that is executed was    *)
(* proposed, a view gives a height to one block, and without view changes  *)
(* all nodes execute the same block at a height.                           *)
(***************************************************************************)
EXTENDS PBFT_proofs

-----------------------------------------------------------------------------
(***************************************************************************)
(* The messages a manager holds.                                           *)
(***************************************************************************)

\* Storing a message keeps one message per view and sender.
LEMMA StoreOnePerSender ==
  ASSUME NEW vcs, NEW m, OnePerSender(vcs)
  PROVE  /\ OnePerSender(StoreViewChange(vcs, m))
         /\ \A S \in SUBSET StoreViewChange(vcs, m) : OnePerSender(S)
  BY DEF OnePerSender, StoreViewChange

\* What handleViewChange does: it stores the message, and either that is all,
\* or it sends a NEW-VIEW on a quorum for its view and may enter that view.
LEMMA HandleViewChangeCases ==
  ASSUME NEW n, NEW m, HandleViewChange(n, m), NEW vcs,
         vcs = StoreViewChange(viewChangeMsgs[n], m)
  PROVE  \/ /\ viewChangeMsgs' = [viewChangeMsgs EXCEPT ![n] = vcs]
            /\ sent' = sent
            /\ UNCHANGED <<view, vcmView, inProgress>>
         \/ \E nv :
              /\ nv.type = "NewView"
              /\ nv.view = m.newView
              /\ nv.viewChangeMsgs = ForView(vcs, m.newView)
              /\ nv.prePrepares \in ComputePrePrepareSets(ForView(vcs, m.newView))
              /\ sent' = sent \cup {nv}
              /\ Cardinality(ForView(vcs, m.newView)) >= Quorum
              /\ \/ EnterView(n, m.newView, vcs)
                 \/ /\ viewChangeMsgs' = [viewChangeMsgs EXCEPT ![n] = vcs]
                    /\ UNCHANGED <<view, vcmView, inProgress>>
<1> DEFINE quorum == ForView(vcs, m.newView)
           nv(pps) == [type |-> "NewView", from |-> n, view |-> m.newView,
                       viewChangeMsgs |-> quorum, prePrepares |-> pps]
<1>1. CASE Cardinality(quorum) >= Quorum /\ n = Primary(m.newView)
  <2>1. PICK pps \in ComputePrePrepareSets(quorum) :
          /\ Deliver(n, m, {nv(pps)})
          /\ \/ EnterView(n, m.newView, vcs)
             \/ /\ viewChangeMsgs' = [viewChangeMsgs EXCEPT ![n] = vcs]
                /\ UNCHANGED <<view, vcmView, inProgress>>
    BY <1>1 DEF HandleViewChange, BroadcastNewView
  <2>2. /\ nv(pps).type = "NewView"
        /\ nv(pps).view = m.newView
        /\ nv(pps).viewChangeMsgs = quorum
        /\ nv(pps).prePrepares = pps
    OBVIOUS
  <2>3. sent' = sent \cup {nv(pps)}
    BY <2>1 DEF Deliver
  <2> HIDE DEF nv
  <2> QED BY <1>1, <2>1, <2>2, <2>3
<1>2. CASE ~(Cardinality(quorum) >= Quorum /\ n = Primary(m.newView))
  BY <1>2 DEF HandleViewChange, BroadcastNewView, Deliver
<1> QED BY <1>1, <1>2

\* A step on the manager of one node, which sends at most one NEW-VIEW, keeps
\* the messages it holds among the ones sent.
LEMMA ManagerStep ==
  ASSUME TypeOK, ViewChangesWereSent, sent \subseteq sent', NEW n \in Node, NEW vcs,
         viewChangeMsgs' = [viewChangeMsgs EXCEPT ![n] = vcs],
         vcs \subseteq sent', OnePerSender(vcs),
         \A w \in sent' : w \in sent \/ w.type # "NewView"
                            \/ (w.viewChangeMsgs \subseteq sent' /\ OnePerSender(w.viewChangeMsgs))
  PROVE  ViewChangesWereSent'
<1>1. ASSUME NEW k \in Node
      PROVE  viewChangeMsgs'[k] \subseteq sent' /\ OnePerSender(viewChangeMsgs'[k])
  BY DEF ViewChangesWereSent, TypeOK
<1>2. ASSUME NEW w \in sent', w.type = "NewView"
      PROVE  w.viewChangeMsgs \subseteq sent' /\ OnePerSender(w.viewChangeMsgs)
  BY <1>2 DEF ViewChangesWereSent
<1> QED BY <1>1, <1>2 DEF ViewChangesWereSent, OnePerSender

\* So does a step that leaves the managers alone and sends no NEW-VIEW.
LEMMA ManagerIdle ==
  ASSUME TypeOK, ViewChangesWereSent, sent \subseteq sent', UNCHANGED viewChangeMsgs,
         \A w \in sent' : w \in sent \/ w.type # "NewView"
  PROVE  ViewChangesWereSent'
<1>1. ASSUME NEW w \in sent', w.type = "NewView"
      PROVE  w.viewChangeMsgs \subseteq sent' /\ OnePerSender(w.viewChangeMsgs)
  BY <1>1 DEF ViewChangesWereSent
<1>2. \A k \in Node : viewChangeMsgs'[k] \subseteq sent' /\ OnePerSender(viewChangeMsgs'[k])
  BY DEF ViewChangesWereSent
<1> QED BY <1>1, <1>2 DEF ViewChangesWereSent, OnePerSender

\* Every step keeps ViewChangesWereSent.
LEMMA ViewChangesStep == TypeOK /\ ViewChangesWereSent /\ [Next]_vars => ViewChangesWereSent'
<1> SUFFICES ASSUME TypeOK, ViewChangesWereSent, [Next]_vars PROVE ViewChangesWereSent'
  OBVIOUS
<1>1. sent \subseteq sent'
  BY SentGrows
<1>2. CASE UNCHANGED vars
  BY <1>1, <1>2, ManagerIdle DEF vars, vcmVars, netVars
<1>3. ASSUME NEW n \in Node, NEW tx, ProposeBlock(n, tx) PROVE ViewChangesWereSent'
  BY <1>1, <1>3, ManagerIdle DEF ProposeBlock, Broadcast, PhaseMsg, vcmVars
<1>4. ASSUME NEW n \in Node, SkipSequence(n) \/ TimerFires(n) PROVE ViewChangesWereSent'
  BY <1>1, <1>4, ManagerIdle DEF SkipSequence, TimerFires, vcmVars, netVars
<1>5. ASSUME NEW n \in Node, StartViewChange(n) PROVE ViewChangesWereSent'
  <2>1. CASE Overtaken(n)
    BY <1>1, <1>5, <2>1, ManagerIdle DEF StartViewChange, vcmVars, netVars
  <2>2. CASE ~Overtaken(n)
    <3> DEFINE vcs == StoreViewChange(viewChangeMsgs[n], timeout[n])
    <3>1. timeout[n].type = "ViewChange"
      BY <1>5 DEF StartViewChange, TypeOK, ViewChangeMsgs
    <3>2. sent' = sent \cup {timeout[n]}
      BY <1>5, <2>2 DEF StartViewChange, Broadcast
    <3>3. OnePerSender(vcs)
      BY StoreOnePerSender DEF ViewChangesWereSent
    <3>4. vcs \subseteq sent'
      BY <3>2 DEF StoreViewChange, ViewChangesWereSent
    <3>5. viewChangeMsgs' = [viewChangeMsgs EXCEPT ![n] = vcs]
      BY <1>5, <2>2 DEF StartViewChange
    <3>6. \A w \in sent' : w \in sent \/ w.type # "NewView"
      BY <3>1, <3>2
    <3> HIDE DEF vcs
    <3> QED BY <1>1, <3>3, <3>4, <3>5, <3>6, ManagerStep
  <2> QED BY <2>1, <2>2
<1>6. ASSUME NEW n \in Node, NEW m \in Pending(n), HandleViewChange(n, m)
      PROVE  ViewChangesWereSent'
  <2>1. PICK vcs : vcs = StoreViewChange(viewChangeMsgs[n], m)
    OBVIOUS
  <2> DEFINE ahead == {vc \in vcs : vc.newView > m.newView}
  <2>2. vcs \subseteq sent'
    BY <1>1, <2>1 DEF Pending, StoreViewChange, ViewChangesWereSent
  <2>3. OnePerSender(vcs) /\ OnePerSender(ahead) /\ OnePerSender(ForView(vcs, m.newView))
    BY <2>1, StoreOnePerSender DEF ViewChangesWereSent, ForView
  <2>4. ForView(vcs, m.newView) \subseteq sent'
    BY <2>2 DEF ForView
  <2>5. \A w \in sent' : w \in sent \/ w.type # "NewView"
          \/ (w.viewChangeMsgs \subseteq sent' /\ OnePerSender(w.viewChangeMsgs))
    BY <1>6, <2>1, <2>3, <2>4, HandleViewChangeCases
  <2>6. \/ viewChangeMsgs' = [viewChangeMsgs EXCEPT ![n] = vcs]
        \/ viewChangeMsgs' = [viewChangeMsgs EXCEPT ![n] = ahead]
    BY <1>6, <2>1, HandleViewChangeCases DEF EnterView
  <2>7. ahead \subseteq sent'
    BY <2>2
  <2> HIDE DEF ahead
  <2> QED BY <1>1, <2>2, <2>3, <2>5, <2>6, <2>7, ManagerStep
<1>7. ASSUME NEW n \in Node, NEW m \in Pending(n), HandleNewView(n, m)
      PROVE  ViewChangesWereSent'
  <2> DEFINE ahead == {vc \in viewChangeMsgs[n] : vc.newView > m.view}
  <2>1. viewChangeMsgs' = [viewChangeMsgs EXCEPT ![n] = ahead]
    BY <1>7 DEF HandleNewView, EnterView
  <2>2. OnePerSender(ahead) /\ ahead \subseteq sent'
    BY <1>1 DEF ViewChangesWereSent, OnePerSender
  <2>3. \A w \in sent' : w \in sent \/ w.type # "NewView"
    <3>1. sent' = sent \cup {PhaseMsg("Prepare", n, m.view, p) : p \in m.prePrepares}
      BY <1>7 DEF HandleNewView, Deliver
    <3>2. \A p : PhaseMsg("Prepare", n, m.view, p).type = "Prepare"
      BY DEF PhaseMsg
    <3> QED BY <3>1, <3>2
  <2> HIDE DEF ahead
  <2> QED BY <1>1, <2>1, <2>2, <2>3, ManagerStep
<1>8. ASSUME NEW n \in Node, NEW m \in Pending(n),
             HandlePrePrepare(n, m) \/ HandlePrepare(n, m) \/ HandleCommit(n, m)
               \/ ReturnEarly(n, m)
      PROVE  ViewChangesWereSent'
  <2>1. UNCHANGED viewChangeMsgs
    BY <1>8 DEF HandlePrePrepare, HandlePrepare, HandleCommit, ReturnEarly, vcmVars
  <2>2. \A w \in sent' : w \in sent \/ w.type # "NewView"
    <3> DEFINE prepare == PhaseMsg("Prepare", n, m.view, m.block)
               commit == PhaseMsg("Commit", n, m.view, m.block)
    <3>1. prepare.type = "Prepare" /\ commit.type = "Commit"
      BY DEF PhaseMsg
    <3>2. Deliver(n, m, {}) \/ Deliver(n, m, {prepare}) \/ Deliver(n, m, {commit})
      <4>1. CASE HandleCommit(n, m) \/ ReturnEarly(n, m)
        BY <4>1 DEF HandleCommit, ReturnEarly
      <4>2. CASE HandlePrePrepare(n, m)
        BY <4>2 DEF HandlePrePrepare
      <4>3. CASE HandlePrepare(n, m)
        BY <4>3 DEF HandlePrepare
      <4> QED BY <1>8, <4>1, <4>2, <4>3
    <3> HIDE DEF prepare, commit
    <3> QED BY <3>1, <3>2 DEF Deliver
  <2> QED BY <1>1, <2>1, <2>2, ManagerIdle
<1> QED BY <1>2, <1>3, <1>4, <1>5, <1>6, <1>7, <1>8 DEF Next, HandleMessage

-----------------------------------------------------------------------------
(***************************************************************************)
(* A quorum behind every view.                                             *)
(***************************************************************************)

\* Messages for one view, sent by different nodes, count the nodes that asked
\* for it.
LEMMA AskersCounted ==
  ASSUME TypeOK', NEW vcs, NEW v, vcs \subseteq sent', OnePerSender(vcs),
         \A vc \in vcs : vc.newView = v /\ vc.type = "ViewChange",
         Cardinality(vcs) >= Quorum
  PROVE  Cardinality(AskedFor(v)') >= Quorum
<1> DEFINE f == [vc \in vcs |-> vc.from]
           A == AskedFor(v)'
<1>1. \A vc \in vcs : vc.from \in Node
  BY MessageKinds DEF TypeOK, ViewChangeMsgs
<1>2. \A vc \in vcs : vc.from \in A
  BY <1>1 DEF AskedFor
<1>3. f \in [vcs -> A]
  BY <1>2
<1>4. \A a, b \in vcs : f[a] = f[b] => a = b
  BY DEF OnePerSender
<1>5. f \in Injection(vcs, A)
  BY <1>3, <1>4 DEF Injection, IsInjective
<1>6. A \subseteq Node
  BY DEF AskedFor
<1>7. IsFiniteSet(A)
  BY <1>6, NodeFinite, FS_Subset
<1>8. Cardinality(vcs) <= Cardinality(A) /\ IsFiniteSet(vcs)
  BY <1>5, <1>7, FS_Injection
<1>9. Cardinality(vcs) \in Nat /\ Cardinality(A) \in Nat
  BY <1>7, <1>8, FS_CardinalityType
<1> QED BY <1>8, <1>9, QuorumType

\* Entering a view takes a quorum for it: the one the new primary counted, or
\* the one in the NEW-VIEW a backup verified.
LEMMA ViewQuorumStep ==
  TypeOK /\ TypeOK' /\ ViewChangesWereSent /\ ViewHasQuorum /\ [Next]_vars => ViewHasQuorum'
<1> SUFFICES ASSUME TypeOK, TypeOK', ViewChangesWereSent, ViewHasQuorum, [Next]_vars
             PROVE  ViewHasQuorum'
  OBVIOUS
<1>1. sent \subseteq sent'
  BY SentGrows
<1>2. \A v : Cardinality(AskedFor(v)) >= Quorum => Cardinality(AskedFor(v)') >= Quorum
  <2>1. \A v : AskedFor(v)' \subseteq Node
    BY DEF AskedFor
  <2> QED BY <1>1, <2>1, Monotone, QuorumGrows
<1>3. ASSUME NEW n \in Node, NEW v, view' = view \/ view' = [view EXCEPT ![n] = v],
             Cardinality(AskedFor(v)') >= Quorum \/ view' = view
      PROVE  ViewHasQuorum'
  <2> SUFFICES ASSUME NEW k \in Node, NEW x, x = view'[k], x > 0
               PROVE  Cardinality(AskedFor(x)') >= Quorum
    BY DEF ViewHasQuorum
  <2>1. CASE view' = [view EXCEPT ![n] = v] /\ k = n /\ view' # view
    BY <1>3, <2>1 DEF TypeOK
  <2>2. CASE view'[k] = view[k]
    BY <1>2, <2>2 DEF ViewHasQuorum
  <2> QED BY <1>3, <2>1, <2>2 DEF TypeOK
<1>4. ASSUME UNCHANGED view PROVE ViewHasQuorum'
  <2>1. PICK n : n \in Node
    BY ValidatorsAssumption
  <2> QED BY <1>3, <1>4, <2>1
<1>5. ASSUME NEW n \in Node, NEW m \in Pending(n), HandleViewChange(n, m) PROVE ViewHasQuorum'
  <2>1. PICK vcs : vcs = StoreViewChange(viewChangeMsgs[n], m)
    OBVIOUS
  <2> DEFINE quorum == ForView(vcs, m.newView)
  <2>2. m \in sent /\ m \in ViewChangeMsgs
    BY <1>5, MessageKinds DEF Pending, TypeOK, HandleViewChange, BroadcastNewView
  <2>3. quorum \subseteq sent' /\ quorum \subseteq ViewChangeMsgs
    BY <1>1, <2>1, <2>2 DEF ForView, StoreViewChange, ViewChangesWereSent, TypeOK
  <2>4. OnePerSender(quorum)
    BY <2>1, StoreOnePerSender DEF ViewChangesWereSent, ForView
  <2>5. \A vc \in quorum : vc.newView = m.newView /\ vc.type = "ViewChange"
    BY <2>3 DEF ForView, ViewChangeMsgs
  <2>6. CASE view' = view
    BY <1>4, <2>6
  <2>7. CASE view' = [view EXCEPT ![n] = m.newView] /\ Cardinality(quorum) >= Quorum
    <3> HIDE DEF quorum
    <3>1. Cardinality(AskedFor(m.newView)') >= Quorum
      BY <2>3, <2>4, <2>5, <2>7, AskersCounted
    <3> QED BY <1>3, <2>7, <3>1
  <2> QED BY <1>5, <2>1, <2>6, <2>7, HandleViewChangeCases DEF EnterView
<1>6. ASSUME NEW n \in Node, NEW m \in Pending(n), HandleNewView(n, m) PROVE ViewHasQuorum'
  <2> DEFINE vcs == m.viewChangeMsgs
  <2>1. m \in sent /\ m \in NewViewMsgs /\ m.type = "NewView"
    BY <1>6, MessageKinds DEF Pending, TypeOK, HandleNewView
  <2>2. vcs \subseteq sent' /\ OnePerSender(vcs)
    BY <1>1, <2>1 DEF ViewChangesWereSent
  <2>3. Cardinality(vcs) >= Quorum /\ \A vc \in vcs : vc.newView = m.view
    BY <1>6 DEF HandleNewView, TakesNewView, VerifyNewViewMsg
  <2>4. \A vc \in vcs : vc.type = "ViewChange"
    BY <2>1 DEF NewViewMsgs, ViewChangeMsgs
  <2>5. view' = [view EXCEPT ![n] = m.view]
    BY <1>6 DEF HandleNewView, EnterView
  <2>6. Cardinality(AskedFor(m.view)') >= Quorum
    BY <2>2, <2>3, <2>4, AskersCounted
  <2> QED BY <1>3, <2>5, <2>6
<1>7. ASSUME NEW n \in Node, NEW m \in Pending(n), HandleMessage(n, m) PROVE ViewHasQuorum'
  BY <1>4, <1>5, <1>6, <1>7
     DEF HandleMessage, HandlePrePrepare, HandlePrepare, HandleCommit, ReturnEarly, engineVars
<1>8. ASSUME NEW n \in Node, NEW tx, ProposeBlock(n, tx) PROVE ViewHasQuorum'
  BY <1>4, <1>8 DEF ProposeBlock
<1>9. ASSUME NEW n \in Node, SkipSequence(n) \/ TimerFires(n) \/ StartViewChange(n)
      PROVE  ViewHasQuorum'
  BY <1>4, <1>9 DEF SkipSequence, TimerFires, StartViewChange, engineVars
<1> QED BY <1>4, <1>7, <1>8, <1>9 DEF Next, vars, engineVars

\* What a view-change manager holds and what a NEW-VIEW carries was broadcast,
\* one message per sender and view (viewChangeMsgs, broadcastNewView).
THEOREM ViewChangesSent == Spec => []ViewChangesWereSent
<1>1. Init => ViewChangesWereSent
  BY DEF Init, ViewChangesWereSent, OnePerSender
<1> QED BY <1>1, TypeCorrect, ViewChangesStep, PTL DEF Spec

\* A node is in a view above 0 only if 2f+1 validators asked for that view,
\* for every number of validators (handleViewChange, handleNewView).
THEOREM ViewQuorum == Spec => []ViewHasQuorum
<1>1. Init => ViewChangesWereSent /\ ViewHasQuorum
  BY DEF Init, ViewChangesWereSent, ViewHasQuorum, OnePerSender
<1> QED BY <1>1, TypeCorrect, ViewChangesStep, ViewQuorumStep, PTL DEF Spec

\* The quorums behind any two later views have validators in common, for every
\* number of validators: more than f of them when that is 3f+1, but only f or f-1
\* when it is 3f+2 or 3f+3 (QuorumSize).
THEOREM ViewQuorumsMeet == Spec => []ViewQuorumsOverlap
<1>1. TypeOK /\ ViewHasQuorum => ViewQuorumsOverlap
  <2> SUFFICES ASSUME ViewHasQuorum, NEW v \in {view[n] : n \in Node} \ {0},
                      NEW w \in {view[n] : n \in Node} \ {0}, TypeOK
               PROVE  Cardinality(AskedFor(v) \cap AskedFor(w))
                        >= (Cardinality(Node) - 1) \div 3 + 1 - ((Cardinality(Node) - 1) % 3)
    BY DEF ViewQuorumsOverlap
  <2>1. \A n \in Node : view[n] # 0 => /\ AskedFor(view[n]) \in SUBSET Node
                                       /\ Cardinality(AskedFor(view[n])) >= Quorum
    <3> SUFFICES ASSUME NEW n \in Node, view[n] # 0
                 PROVE  /\ AskedFor(view[n]) \in SUBSET Node
                        /\ Cardinality(AskedFor(view[n])) >= Quorum
      OBVIOUS
    <3>1. view[n] > 0
      BY BoundsAssumption DEF TypeOK, Views
    <3>2. AskedFor(view[n]) \in SUBSET Node
      BY DEF AskedFor
    <3> QED BY <3>1, <3>2 DEF ViewHasQuorum
  <2>2. PICK A, B : /\ A = AskedFor(v) /\ A \in SUBSET Node /\ Cardinality(A) >= Quorum
                    /\ B = AskedFor(w) /\ B \in SUBSET Node /\ Cardinality(B) >= Quorum
    BY <2>1
  <2>3. Cardinality(A \cap B) >= 2 * Quorum - Cardinality(Node)
    BY <2>2, QuorumsMeet
  <2>4. 2 * Quorum - Cardinality(Node)
          = (Cardinality(Node) - 1) \div 3 + 1 - ((Cardinality(Node) - 1) % 3)
    BY NodeCount, QuorumExcess DEF Quorum
  <2> QED BY <2>2, <2>3, <2>4
<1> QED BY <1>1, ViewQuorum, TypeCorrect, PTL

-----------------------------------------------------------------------------
(***************************************************************************)
(* No stale view changes.                                                  *)
(***************************************************************************)

\* What a timer goroutine holds is the node's own request, and for no view
\* beyond the next: the view may only have moved on since it was read.
TimeoutOwn ==
  \A n \in Node : timeout[n] # NoTimeout =>
    timeout[n].from = n /\ timeout[n].newView <= view[n] + 1

\* NoStaleViewChange, for one node.
NodeClean(n) ==
  /\ vcmView[n] = view[n]
  /\ \A vc \in viewChangeMsgs[n] : vc.newView > view[n]
  /\ inProgress[n] => \E vc \in viewChangeMsgs[n] : vc.from = n /\ vc.newView = view[n] + 1

\* A step that touches the manager and the timer of one node only has to be
\* looked at on that node.
LEMMA CleanLocal ==
  ASSUME TypeOK, TypeOK', NoStaleViewChange, TimeoutOwn, NEW n \in Node,
         \A k \in Node \ {n} :
            /\ view'[k] = view[k] /\ vcmView'[k] = vcmView[k] /\ inProgress'[k] = inProgress[k]
            /\ viewChangeMsgs'[k] = viewChangeMsgs[k] /\ timeout'[k] = timeout[k],
         NodeClean(n)',
         timeout'[n] # NoTimeout => timeout'[n].from = n /\ timeout'[n].newView <= view'[n] + 1
  PROVE  NoStaleViewChange' /\ TimeoutOwn'
<1>1. NoStaleViewChange'
  <2> SUFFICES ASSUME NEW k \in Node PROVE NodeClean(k)'
    BY DEF NoStaleViewChange, NodeClean
  <2>1. CASE k # n
    BY <2>1 DEF NoStaleViewChange, NodeClean
  <2> QED BY <2>1
<1>2. TimeoutOwn'
  BY DEF TimeoutOwn
<1> QED BY <1>1, <1>2

\* Every step keeps the managers clean.
LEMMA CleanStep ==
  TypeOK /\ TypeOK' /\ NoStaleViewChange /\ TimeoutOwn /\ [Next]_vars
    => NoStaleViewChange' /\ TimeoutOwn'
<1> SUFFICES ASSUME TypeOK, TypeOK', NoStaleViewChange, TimeoutOwn, [Next]_vars
             PROVE  NoStaleViewChange' /\ TimeoutOwn'
  OBVIOUS
<1> DEFINE Goal == NoStaleViewChange' /\ TimeoutOwn'
<1>1. ASSUME UNCHANGED <<view, vcmVars, timeout>> PROVE Goal
  BY <1>1 DEF NoStaleViewChange, TimeoutOwn, vcmVars
<1>2. ASSUME NEW n \in Node, TimerFires(n) PROVE Goal
  <2>1. UNCHANGED <<view, vcmVars>>
    BY <1>2 DEF TimerFires, engineVars
  <2>2. timeout'[n].from = n /\ timeout'[n].newView = view[n] + 1
    BY <1>2 DEF TimerFires, TypeOK
  <2>3. \A k \in Node \ {n} : timeout'[k] = timeout[k]
    BY <1>2 DEF TimerFires, TypeOK
  <2>4. view[n] \in Nat
    BY DEF TypeOK, Views
  <2> QED BY <2>1, <2>2, <2>3, <2>4 DEF NoStaleViewChange, TimeoutOwn, vcmVars
<1>3. ASSUME NEW n \in Node, StartViewChange(n) PROVE Goal
  <2>1. UNCHANGED <<view, vcmView>>
    BY <1>3 DEF StartViewChange, engineVars, vcmVars
  <2>2. timeout' = [timeout EXCEPT ![n] = NoTimeout]
    BY <1>3 DEF StartViewChange
  <2>3. CASE Overtaken(n)
    BY <1>3, <2>1, <2>2, <2>3 DEF StartViewChange, NoStaleViewChange, TimeoutOwn, vcmVars, TypeOK
  <2>4. CASE ~Overtaken(n)
    <3> DEFINE vc == timeout[n]
               vcs == StoreViewChange(viewChangeMsgs[n], vc)
    <3>1. vc.newView \in Nat /\ view[n] \in Nat /\ vcmView[n] = view[n]
      BY <1>3 DEF StartViewChange, TypeOK, ViewChangeMsgs, Views, NoStaleViewChange
    <3>2. vc.from = n /\ vc.newView = view[n] + 1
      BY <1>3, <2>4, <3>1 DEF StartViewChange, Overtaken, TimeoutOwn
    <3>3. /\ viewChangeMsgs' = [viewChangeMsgs EXCEPT ![n] = vcs]
          /\ inProgress' = [inProgress EXCEPT ![n] = TRUE]
      BY <1>3, <2>4 DEF StartViewChange
    <3>4. vc \in vcs /\ \A w \in vcs : w.newView > view[n]
      BY <3>1, <3>2 DEF StoreViewChange, NoStaleViewChange
    <3>5. viewChangeMsgs'[n] = vcs /\ view'[n] = view[n] /\ vcmView'[n] = vcmView[n]
      BY <2>1, <3>3 DEF TypeOK
    <3>6. NodeClean(n)'
      <4> HIDE DEF vc, vcs
      <4> QED BY <3>1, <3>2, <3>4, <3>5 DEF NodeClean
    <3> HIDE DEF vcs
    <3> QED BY <2>1, <2>2, <3>3, <3>6, CleanLocal DEF TypeOK
  <2> QED BY <2>3, <2>4
<1>4. ASSUME NEW n \in Node, NEW v \in Nat, NEW vcs, EnterView(n, v, vcs), v > view[n],
             UNCHANGED timeout
      PROVE  Goal
  <2>1. /\ view'[n] = v /\ vcmView'[n] = v /\ inProgress'[n] = FALSE
        /\ viewChangeMsgs'[n] = {vc \in vcs : vc.newView > v}
    BY <1>4 DEF EnterView, TypeOK
  <2>2. NodeClean(n)'
    BY <2>1 DEF NodeClean
  <2>3. timeout'[n] # NoTimeout => timeout'[n].from = n /\ timeout'[n].newView <= view'[n] + 1
    <3>1. view[n] \in Nat /\ (timeout[n] # NoTimeout => timeout[n].newView \in Nat)
      BY DEF TypeOK, Views, ViewChangeMsgs
    <3> QED BY <1>4, <2>1, <3>1 DEF TimeoutOwn
  <2> QED BY <1>4, <2>2, <2>3, CleanLocal DEF EnterView, TypeOK
<1>5. ASSUME NEW n \in Node, NEW m \in Pending(n), HandleViewChange(n, m) PROVE Goal
  <2>1. PICK vcs : vcs = StoreViewChange(viewChangeMsgs[n], m)
    OBVIOUS
  <2>2. m.newView \in Nat /\ m.newView > view[n] /\ m.from # n /\ UNCHANGED timeout
    BY <1>5, MessageKinds
       DEF HandleViewChange, BroadcastNewView, TakesViewChange, Pending, TypeOK, ViewChangeMsgs, Views
  <2>3. CASE EnterView(n, m.newView, vcs)
    BY <1>4, <2>2, <2>3
  <2>4. CASE /\ viewChangeMsgs' = [viewChangeMsgs EXCEPT ![n] = vcs]
             /\ UNCHANGED <<view, vcmView, inProgress>>
    <3>1. viewChangeMsgs'[n] = vcs
      BY <2>4 DEF TypeOK
    <3>2. \A w \in vcs : w.newView > view[n]
      BY <2>1, <2>2 DEF StoreViewChange, NoStaleViewChange
    <3>3. \A w \in viewChangeMsgs[n] : w.from = n => w \in vcs
      BY <2>1, <2>2 DEF StoreViewChange
    <3>4. NodeClean(n)'
      BY <2>4, <3>1, <3>2, <3>3 DEF NodeClean, NoStaleViewChange
    <3> QED BY <2>2, <2>4, <3>4, CleanLocal DEF TypeOK, TimeoutOwn
  <2> QED BY <1>5, <2>1, <2>3, <2>4, HandleViewChangeCases
<1>6. ASSUME NEW n \in Node, NEW m \in Pending(n), HandleNewView(n, m) PROVE Goal
  <2>1. m.view \in Nat /\ m.view > view[n]
    BY <1>6, MessageKinds DEF HandleNewView, TakesNewView, Pending, TypeOK, NewViewMsgs, Views
  <2> QED BY <1>4, <1>6, <2>1 DEF HandleNewView
<1>7. ASSUME NEW n \in Node, NEW m \in Pending(n), HandleMessage(n, m) PROVE Goal
  BY <1>1, <1>5, <1>6, <1>7
     DEF HandleMessage, HandlePrePrepare, HandlePrepare, HandleCommit, ReturnEarly, engineVars
<1>8. ASSUME NEW n \in Node, NEW tx, ProposeBlock(n, tx) PROVE Goal
  BY <1>1, <1>8 DEF ProposeBlock
<1>9. ASSUME NEW n \in Node, SkipSequence(n) PROVE Goal
  BY <1>1, <1>9 DEF SkipSequence
<1> QED BY <1>1, <1>2, <1>3, <1>7, <1>8, <1>9 DEF Next, vars, engineVars

\* A view change that is over leaves nothing behind: the manager and the engine
\* agree on the view, hold requests for later views only, and the in-progress
\* flag stands for the node's own request for the next view
\* (ViewChangeManager.StartViewChange, HandleNewView).
THEOREM StaleFree == Spec => []NoStaleViewChange
<1>1. Init => NoStaleViewChange /\ TimeoutOwn
  BY DEF Init, NoStaleViewChange, TimeoutOwn
<1> QED BY <1>1, TypeCorrect, CleanStep, PTL DEF Spec

-----------------------------------------------------------------------------
(***************************************************************************)
(* BlocksWereProposed, piece by piece.                                     *)
(***************************************************************************)

\* The blocks a message carries were proposed.
CarriesProposed(m) ==
  /\ m.type \in {"PrePrepare", "Prepare", "Commit"} => Proposed(m.block)
  /\ m.type = "ViewChange" => \A b \in m.preparedSet : Proposed(b)
  /\ m.type = "NewView" => \A b \in m.prePrepares : Proposed(b)

\* A PRE-PREPARE is from the primary of its view, for a number that is used up.
FromPrimary(m) ==
  m.type = "PrePrepare" =>
    /\ m.from = Primary(m.view)
    /\ m.block.view = m.view
    /\ m.block.height <= sequenceNum[m.from]

\* The blocks a node holds were proposed.
HoldsProposed(n) ==
  /\ \A s \in Seqs : stateLog[n][s] # NoState => Proposed(stateLog[n][s].block)
  /\ timeout[n] # NoTimeout => \A b \in timeout[n].preparedSet : Proposed(b)
  /\ \A i \in 1 .. Len(committedBlocks[n]) : Proposed(committedBlocks[n][i])

\* The parts make the whole.
LEMMA BlocksByPart ==
  BlocksWereProposed <=>
    /\ \A m \in sent : FromPrimary(m) /\ CarriesProposed(m)
    /\ \A m, w \in sent :
         m.type = "PrePrepare" /\ w.type = "PrePrepare"
           /\ m.view = w.view /\ m.block.height = w.block.height => m = w
    /\ \A n \in Node : HoldsProposed(n)
  BY DEF BlocksWereProposed, CarriesProposed, FromPrimary, HoldsProposed

\* A block of a PRE-PREPARE that was sent stays proposed.
LEMMA ProposedGrows ==
  ASSUME sent \subseteq sent', NEW b, Proposed(b)
  PROVE  Proposed(b)'
  BY Monotone DEF Proposed

\* A message on the network stays good as the network and the sequence
\* numbers grow.
LEMMA OldMessages ==
  ASSUME TypeOK, TypeOK', BlocksWereProposed, sent \subseteq sent',
         \A k \in Node : sequenceNum[k] <= sequenceNum'[k],
         NEW m \in sent
  PROVE  FromPrimary(m)' /\ CarriesProposed(m)'
<1>1. CarriesProposed(m)'
  BY BlocksByPart, ProposedGrows DEF CarriesProposed
<1>2. FromPrimary(m)'
  <2> SUFFICES ASSUME m.type = "PrePrepare" PROVE m.block.height <= sequenceNum'[m.from]
    BY BlocksByPart DEF FromPrimary
  <2>1. m.from \in Node /\ m.block.height \in Nat
    BY MessageKinds DEF TypeOK, PhaseMsgs, Blocks, Seqs
  <2>2. sequenceNum[m.from] \in Nat /\ sequenceNum'[m.from] \in Nat
    BY <2>1 DEF TypeOK
  <2>3. m.block.height <= sequenceNum[m.from] /\ sequenceNum[m.from] <= sequenceNum'[m.from]
    BY <2>1, BlocksByPart DEF FromPrimary
  <2> QED BY <2>1, <2>2, <2>3
<1> QED BY <1>1, <1>2

\* A step that proposes nothing, sends only proposed blocks and leaves only
\* proposed blocks at the nodes keeps BlocksWereProposed.
LEMMA BlocksOther ==
  ASSUME TypeOK, TypeOK', BlocksWereProposed, sent \subseteq sent',
         \A k \in Node : sequenceNum[k] <= sequenceNum'[k],
         \A m \in sent' : m \in sent \/ (m.type # "PrePrepare" /\ CarriesProposed(m)'),
         \A k \in Node : HoldsProposed(k)'
  PROVE  BlocksWereProposed'
<1>1. \A m \in sent' : FromPrimary(m)' /\ CarriesProposed(m)'
  BY OldMessages DEF FromPrimary
<1>2. \A m, w \in sent' :
         m.type = "PrePrepare" /\ w.type = "PrePrepare"
           /\ m.view = w.view /\ m.block.height = w.block.height => m = w
  BY BlocksByPart
<1> QED BY <1>1, <1>2 DEF BlocksWereProposed, FromPrimary, CarriesProposed, HoldsProposed

\* A node that a step leaves alone holds what it held.
LEMMA HoldsOld ==
  ASSUME BlocksWereProposed, sent \subseteq sent', NEW k \in Node,
         stateLog'[k] = stateLog[k], timeout'[k] = timeout[k],
         committedBlocks'[k] = committedBlocks[k]
  PROVE  HoldsProposed(k)'
<1>1. HoldsProposed(k)
  BY BlocksByPart
<1>2. \A b : Proposed(b) => Proposed(b)'
  BY ProposedGrows
<1> QED BY <1>1, <1>2 DEF HoldsProposed, Proposed

\* A node whose log becomes one of proposed blocks, and that executes at most
\* one more proposed block, holds proposed blocks; the others hold what they
\* held.
LEMMA HoldsLog ==
  ASSUME TypeOK, BlocksWereProposed, sent \subseteq sent', NEW n \in Node, NEW log,
         stateLog' = [stateLog EXCEPT ![n] = log],
         \A s \in Seqs : log[s] # NoState => Proposed(log[s].block)',
         UNCHANGED timeout,
         \/ UNCHANGED committedBlocks
         \/ \E b : /\ Proposed(b)'
                  /\ committedBlocks' = [committedBlocks EXCEPT ![n] = Append(@, b)]
  PROVE  \A k \in Node : HoldsProposed(k)'
<1> SUFFICES ASSUME NEW k \in Node PROVE HoldsProposed(k)'
  OBVIOUS
<1>1. CASE k # n
  BY <1>1, HoldsOld DEF TypeOK
<1>2. CASE k = n
  <2>1. HoldsProposed(n)
    BY BlocksByPart
  <2>2. \A b : Proposed(b) => Proposed(b)'
    BY ProposedGrows
  <2>3. stateLog'[n] = log
    BY DEF TypeOK
  <2>4. \A i \in 1 .. Len(committedBlocks'[n]) :
           \A b : b = committedBlocks'[n][i] => Proposed(b)'
    <3>1. \A i \in 1 .. Len(committedBlocks[n]) : Proposed(committedBlocks[n][i])
      BY <2>1 DEF HoldsProposed
    <3>2. CASE UNCHANGED committedBlocks
      BY <2>2, <3>1, <3>2
    <3>3. ASSUME NEW c, Proposed(c)',
                 committedBlocks' = [committedBlocks EXCEPT ![n] = Append(@, c)],
                 NEW i \in 1 .. Len(committedBlocks'[n]), NEW b, b = committedBlocks'[n][i]
          PROVE  Proposed(b)'
      <4>1. committedBlocks[n] \in Seq(Blocks)
        BY DEF TypeOK
      <4>2. \/ i \in 1 .. Len(committedBlocks[n]) /\ b = committedBlocks[n][i]
            \/ b = c
        BY <3>3, <4>1 DEF TypeOK
      <4> QED BY <2>2, <3>1, <3>3, <4>2
    <3> QED BY <3>2, <3>3
  <2>5. timeout'[n] # NoTimeout => \A b \in timeout'[n].preparedSet : Proposed(b)'
    BY <2>1, <2>2 DEF HoldsProposed
  <2> QED BY <1>2, <2>3, <2>4, <2>5 DEF HoldsProposed, Proposed
<1> QED BY <1>1, <1>2

\* In particular when one entry of the log changes.
LEMMA HoldsEntry ==
  ASSUME TypeOK, BlocksWereProposed, sent \subseteq sent', NEW n \in Node, NEW h \in Seqs, NEW st,
         stateLog' = [stateLog EXCEPT ![n][h] = st], Proposed(st.block)',
         UNCHANGED <<timeout, committedBlocks>>
  PROVE  \A k \in Node : HoldsProposed(k)'
<1> DEFINE log == [stateLog[n] EXCEPT ![h] = st]
<1>1. stateLog' = [stateLog EXCEPT ![n] = log]
  BY DEF TypeOK
<1>2. \A s \in Seqs : log[s] = stateLog[n][s] \/ log[s] = st
  BY DEF TypeOK
<1>3. \A s \in Seqs : stateLog[n][s] # NoState => Proposed(stateLog[n][s].block)
  BY BlocksByPart DEF HoldsProposed
<1> HIDE DEF log
<1>4. PICK l : l = log
  OBVIOUS
<1>5. \A s \in Seqs : l[s] # NoState => Proposed(l[s].block)'
  <2> SUFFICES ASSUME NEW s \in Seqs, l[s] # NoState PROVE Proposed(l[s].block)'
    OBVIOUS
  <2>1. CASE l[s] = stateLog[n][s]
    <3>1. Proposed(l[s].block)
      BY <1>3, <2>1
    <3> QED BY <3>1, ProposedGrows
  <2> QED BY <1>2, <1>4, <2>1
<1> QED BY <1>1, <1>4, <1>5, HoldsLog

\* A vote or a phase does not change a state's block.
LEMMA BlockKept ==
  ASSUME NEW st \in States, NEW k, NEW vote, NEW b
  PROVE  /\ AddPrepare(st, k, vote).block = st.block
         /\ AddCommit(st, k, vote).block = st.block
         /\ \A p : [st EXCEPT !.phase = p].block = st.block
         /\ \A e : [st EXCEPT !.executed = e].block = st.block
         /\ SetPrePrepare(st, b).block = b
  BY DEF AddPrepare, AddCommit, SetPrePrepare, States

\* The state a pre-prepare leaves is one of its block.
LEMMA PrePreparedBlock ==
  ASSUME NEW log \in [Seqs -> States \cup {NoState}], NEW b \in Blocks, NEW k \in Node,
         NEW vote \in Votes
  PROVE  /\ SetPrePrepare(GetState(log, b), b).block = b
         /\ AddPrepare(SetPrePrepare(GetState(log, b), b), k, vote).block = b
<1>1. GetState(log, b) \in States
  BY GetStateType
<1>2. SetPrePrepare(GetState(log, b), b) \in States
  BY <1>1, StateOps
<1> QED BY <1>1, <1>2, BlockKept

-----------------------------------------------------------------------------
(***************************************************************************)
(* The steps.                                                              *)
(***************************************************************************)

\* proposeBlock proposes a block for a number no block of its view has.
LEMMA BlocksPropose ==
  ASSUME TypeOK, TypeOK', BlocksWereProposed, sent \subseteq sent', NEW n \in Node, NEW tx \in Txs,
         ProposeBlock(n, tx)
  PROVE  BlocksWereProposed'
<1>1. PICK v, b :
        /\ v = view[n] /\ b.view = v /\ b.height = sequenceNum[n] + 1
        /\ sent' = sent \cup {PhaseMsg("PrePrepare", n, v, b)}
        /\ stateLog' = [stateLog EXCEPT ![n][b.height] =
             AddPrepare(SetPrePrepare(GetState(stateLog[n], b), b), n, Vote(v, b))]
  <2> DEFINE b == [height |-> sequenceNum[n] + 1, view |-> view[n], tx |-> tx,
                   prev |-> LastHeight(n)]
  <2>1. /\ b.view = view[n] /\ b.height = sequenceNum[n] + 1
        /\ sent' = sent \cup {PhaseMsg("PrePrepare", n, view[n], b)}
        /\ stateLog' = [stateLog EXCEPT ![n][b.height] =
             AddPrepare(SetPrePrepare(GetState(stateLog[n], b), b), n, Vote(view[n], b))]
    BY DEF ProposeBlock, NextSequence, Broadcast
  <2> HIDE DEF b
  <2> QED BY <2>1
<1>2. n = Primary(v) /\ sequenceNum' = [sequenceNum EXCEPT ![n] = b.height]
  BY <1>1 DEF ProposeBlock, NextSequence
<1>3. UNCHANGED <<timeout, committedBlocks>>
  BY DEF ProposeBlock
<1>4. PICK pp : /\ sent' = sent \cup {pp} /\ pp = PhaseMsg("PrePrepare", n, v, b)
                /\ pp.type = "PrePrepare" /\ pp.from = n /\ pp.view = v /\ pp.block = b
  <2>1. PICK pp : pp = PhaseMsg("PrePrepare", n, v, b)
    OBVIOUS
  <2>2. pp.type = "PrePrepare" /\ pp.from = n /\ pp.view = v /\ pp.block = b
    BY <2>1 DEF PhaseMsg
  <2> QED BY <1>1, <2>1, <2>2
<1>5. b \in Blocks /\ v \in Views /\ b.height \in Seqs
  <2>1. pp \in PhaseMsgs
    BY <1>4, MessageKinds DEF TypeOK
  <2> QED BY <1>4, <2>1 DEF PhaseMsgs, Blocks
<1>6. sequenceNum \in [Node -> Nat] /\ sequenceNum'[n] = b.height /\ b.height \in Nat
  BY <1>2, <1>5 DEF TypeOK, Seqs
<1>7. \A k \in Node : sequenceNum[k] <= sequenceNum'[k]
  BY <1>1, <1>2, <1>6
<1>8. Proposed(b)'
  BY <1>1, <1>2 DEF Proposed
<1>9. FromPrimary(pp)' /\ CarriesProposed(pp)'
  BY <1>1, <1>2, <1>4, <1>6, <1>8 DEF FromPrimary, CarriesProposed
<1>10. \A m \in sent' : FromPrimary(m)' /\ CarriesProposed(m)'
  <2> SUFFICES ASSUME NEW m \in sent' PROVE FromPrimary(m)' /\ CarriesProposed(m)'
    OBVIOUS
  <2>1. CASE m \in sent
    BY <1>7, <2>1, OldMessages
  <2>2. CASE m = pp
    BY <1>9, <2>2
  <2> QED BY <1>4, <2>1, <2>2
<1>11. \A m \in sent : m.type = "PrePrepare" /\ m.view = v => m.block.height # b.height
  <2> SUFFICES ASSUME NEW m \in sent, m.type = "PrePrepare", m.view = v
               PROVE  m.block.height # b.height
    OBVIOUS
  <2>1. m.from = n /\ m.block.height <= sequenceNum[n]
    BY <1>2, BlocksByPart DEF FromPrimary
  <2>2. m.block.height \in Nat
    BY MessageKinds DEF TypeOK, PhaseMsgs, Blocks, Seqs
  <2> QED BY <1>1, <1>6, <2>1, <2>2
<1>12. \A m, w \in sent' :
         m.type = "PrePrepare" /\ w.type = "PrePrepare"
           /\ m.view = w.view /\ m.block.height = w.block.height => m = w
  BY <1>4, <1>11, BlocksByPart
<1>13. \A k \in Node : HoldsProposed(k)'
  <2>1. Vote(v, b) \in Votes
    BY <1>5, PhaseMsgType
  <2>2. PICK st : st = AddPrepare(SetPrePrepare(GetState(stateLog[n], b), b), n, Vote(v, b))
    OBVIOUS
  <2>3. st.block = b
    BY <1>5, <2>1, <2>2, PrePreparedBlock DEF TypeOK
  <2>4. Proposed(st.block)'
    BY <1>8, <2>3
  <2> QED BY <1>1, <1>3, <1>5, <2>2, <2>4, HoldsEntry
<1> QED BY <1>10, <1>12, <1>13 DEF BlocksWereProposed, FromPrimary, CarriesProposed, HoldsProposed

\* The handlers of PRE-PREPARE, PREPARE and COMMIT pass on the block they were
\* given.
LEMMA BlocksVote ==
  ASSUME TypeOK, TypeOK', BlocksWereProposed, sent \subseteq sent', NEW n \in Node,
         NEW m \in Pending(n),
         HandlePrePrepare(n, m) \/ HandlePrepare(n, m) \/ HandleCommit(n, m)
  PROVE  BlocksWereProposed'
<1> DEFINE h == m.block.height
           vote == Vote(m.view, m.block)
<1>1. m \in sent /\ m \in PhaseMsgs /\ m.type \in {"PrePrepare", "Prepare", "Commit"}
  BY MessageKinds DEF TypeOK, Pending, HandlePrePrepare, HandlePrepare, HandleCommit
<1>2. m.block \in Blocks /\ h \in Seqs /\ m.from \in Node /\ vote \in Votes
  BY <1>1, PhaseMsgType DEF PhaseMsgs, Blocks
<1>3. Proposed(m.block)'
  <2>1. Proposed(m.block)
    BY <1>1, BlocksByPart DEF CarriesProposed
  <2> QED BY <2>1, ProposedGrows
<1>4. \A w \in sent' : w \in sent \/ (w.type # "PrePrepare" /\ CarriesProposed(w)')
  <2>1. ASSUME NEW t \in {"Prepare", "Commit"}, NEW w, w = PhaseMsg(t, n, m.view, m.block)
        PROVE  w.type # "PrePrepare" /\ CarriesProposed(w)'
    <3>1. w.type = t /\ w.block = m.block
      BY <2>1 DEF PhaseMsg
    <3> QED BY <1>3, <3>1 DEF CarriesProposed
  <2>2. CASE HandlePrePrepare(n, m)
    BY <2>1, <2>2 DEF HandlePrePrepare, Deliver
  <2>3. CASE HandlePrepare(n, m)
    BY <2>1, <2>3 DEF HandlePrepare, Deliver
  <2>4. CASE HandleCommit(n, m)
    BY <2>4 DEF HandleCommit, Deliver
  <2> QED BY <2>2, <2>3, <2>4
<1>5. \A k \in Node : sequenceNum[k] <= sequenceNum'[k]
  BY DEF HandlePrePrepare, HandlePrepare, HandleCommit, TypeOK
<1>6. ASSUME TakesVote(n, m)
      PROVE  stateLog[n][h] \in States /\ Proposed(stateLog[n][h].block)
  BY <1>2, <1>6, BlocksByPart DEF TakesVote, TypeOK, HoldsProposed
<1>7. CASE HandlePrePrepare(n, m)
  <2>1. PICK st : st = AddPrepare(SetPrePrepare(GetState(stateLog[n], m.block), m.block), n, vote)
    OBVIOUS
  <2>2. st.block = m.block
    BY <1>2, <2>1, PrePreparedBlock DEF TypeOK
  <2>3. Proposed(st.block)'
    BY <1>3, <2>2
  <2>4. \A k \in Node : HoldsProposed(k)'
    BY <1>2, <1>7, <2>1, <2>3, HoldsEntry DEF HandlePrePrepare
  <2> QED BY <1>4, <1>5, <2>4, BlocksOther
<1>8. CASE HandlePrepare(n, m)
  <2> DEFINE voted == AddPrepare(stateLog[n][h], m.from, vote)
             prepared == [voted EXCEPT !.phase = Prepared]
  <2>1. PICK st : st = AfterPrepare(n, m)
    OBVIOUS
  <2>2. stateLog[n][h] \in States /\ Proposed(stateLog[n][h].block)
    BY <1>6, <1>8 DEF HandlePrepare
  <2>3. voted \in States /\ voted.block = stateLog[n][h].block
    <3>1. voted \in States
      BY <1>2, <2>2, StateOps
    <3> QED BY <2>2, <3>1 DEF AddPrepare, States
  <2>4. prepared \in States /\ prepared.block = voted.block
    BY <1>2, <2>3, StateOps, BlockKept
  <2>5. AddCommit(prepared, n, vote).block = prepared.block
    BY <2>4 DEF AddCommit, States
  <2>6. st.block = stateLog[n][h].block
    BY <2>1, <2>3, <2>4, <2>5 DEF AfterPrepare
  <2>7. Proposed(st.block)'
    BY <2>2, <2>6, ProposedGrows
  <2>8. \A k \in Node : HoldsProposed(k)'
    BY <1>2, <1>8, <2>1, <2>7, HoldsEntry DEF HandlePrepare
  <2> QED BY <1>4, <1>5, <2>8, BlocksOther
<1>9. CASE HandleCommit(n, m)
  <2>1. PICK st : st = AddCommit(stateLog[n][h], m.from, vote)
    OBVIOUS
  <2> DEFINE committed == [st EXCEPT !.phase = Committed]
             executed == [committed EXCEPT !.executed = TRUE]
  <2>2. stateLog[n][h] \in States /\ Proposed(stateLog[n][h].block)
    BY <1>6, <1>9 DEF HandleCommit
  <2>3. st \in States /\ st.block = stateLog[n][h].block
    <3>1. st \in States
      BY <1>2, <2>1, <2>2, StateOps
    <3> QED BY <2>1, <2>2, <3>1 DEF AddCommit, States
  <2>4. committed \in States /\ committed.block = st.block
    BY <1>2, <2>3, StateOps, BlockKept
  <2>5. executed.block = st.block
    BY <1>2, <2>4, BlockKept
  <2>6. Proposed(st.block)'
    BY <2>2, <2>3, ProposedGrows
  <2>7. Proposed(committed.block)' /\ Proposed(executed.block)'
    BY <2>4, <2>5, <2>6
  <2>8. CASE ExecuteBlock(n, h, committed)
    <3>1. PICK log : log = [stateLog[n] EXCEPT ![h] = executed]
      OBVIOUS
    <3>2. \A s \in Seqs : log[s] = stateLog[n][s] \/ log[s] = executed
      BY <3>1 DEF TypeOK
    <3>3. \A s \in Seqs : log[s] # NoState => Proposed(log[s].block)'
      <4> SUFFICES ASSUME NEW s \in Seqs, log[s] # NoState PROVE Proposed(log[s].block)'
        OBVIOUS
      <4>1. CASE log[s] = stateLog[n][s]
        <5>1. Proposed(log[s].block)
          BY <4>1, BlocksByPart DEF HoldsProposed
        <5> QED BY <5>1, ProposedGrows
      <4>2. CASE log[s] = executed
        BY <2>7, <4>2
      <4> QED BY <3>2, <4>1, <4>2
    <3>4. PICK kept : /\ stateLog' = [stateLog EXCEPT ![n] = kept]
                      /\ \A s \in Seqs : kept[s] = NoState \/ kept[s] = log[s]
      <4>1. DOMAIN log = Seqs
        BY <3>1 DEF TypeOK
      <4>2. \A s \in Seqs : CollectGarbage(log, lowWaterMark[n], h)[s] \in {NoState, log[s]}
        BY <4>1 DEF CollectGarbage
      <4>3. stateLog' \in {[stateLog EXCEPT ![n] = log],
                           [stateLog EXCEPT ![n] = CollectGarbage(log, lowWaterMark[n], h)]}
        BY <2>8, <3>1 DEF ExecuteBlock, CreateCheckpoint
      <4> QED BY <4>2, <4>3
    <3>5. \A s \in Seqs : kept[s] # NoState => Proposed(kept[s].block)'
      BY <3>3, <3>4
    <3>6. \E b : /\ Proposed(b)'
                 /\ committedBlocks' = [committedBlocks EXCEPT ![n] = Append(@, b)]
      <4>1. committedBlocks' = [committedBlocks EXCEPT ![n] = Append(@, st.block)]
        BY <2>4, <2>8 DEF ExecuteBlock
      <4> QED BY <2>6, <4>1
    <3>7. UNCHANGED timeout
      BY <1>9 DEF HandleCommit
    <3>8. \A k \in Node : HoldsProposed(k)'
      BY <3>4, <3>5, <3>6, <3>7, HoldsLog
    <3> QED BY <1>4, <1>5, <3>8, BlocksOther
  <2>9. ASSUME NEW st2, stateLog' = [stateLog EXCEPT ![n][h] = st2], Proposed(st2.block)',
               UNCHANGED committedBlocks
        PROVE  BlocksWereProposed'
    <3>1. \A k \in Node : HoldsProposed(k)'
      BY <1>2, <1>9, <2>9, HoldsEntry DEF HandleCommit
    <3> QED BY <1>4, <1>5, <3>1, BlocksOther
  <2>10. CASE ExecuteNothing(n, h, committed)
    <3>1. PICK st2 : st2 = committed
      OBVIOUS
    <3>2. Proposed(st2.block)'
      BY <2>4, <2>6, <3>1
    <3> QED BY <2>9, <2>10, <3>1, <3>2 DEF ExecuteNothing
  <2>11. CASE stateLog' = [stateLog EXCEPT ![n][h] = st] /\ UNCHANGED committedBlocks
    BY <2>6, <2>9, <2>11
  <2> QED BY <1>9, <2>1, <2>8, <2>10, <2>11 DEF HandleCommit
<1> QED BY <1>7, <1>8, <1>9

\* A timer reads certificates off the log, and a VIEW-CHANGE carries what the
\* timer has read.
LEMMA BlocksTimer ==
  ASSUME TypeOK, TypeOK', BlocksWereProposed, sent \subseteq sent', NEW n \in Node,
         TimerFires(n) \/ StartViewChange(n)
  PROVE  BlocksWereProposed'
<1>1. UNCHANGED <<stateLog, committedBlocks, sequenceNum>>
  BY DEF TimerFires, StartViewChange, engineVars
<1>2. \A k \in Node : sequenceNum[k] <= sequenceNum'[k]
  BY <1>1 DEF TypeOK
<1>3. HoldsProposed(n) /\ \A b : Proposed(b) => Proposed(b)'
  BY BlocksByPart, ProposedGrows
<1>4. CASE TimerFires(n)
  <2>1. UNCHANGED sent
    BY <1>4 DEF TimerFires, netVars
  <2>2. \A b \in PreparedCertificates(n) : Proposed(b)
    BY <1>3 DEF PreparedCertificates, PreparedSeqs, HoldsProposed
  <2>3. timeout'[n].preparedSet = PreparedCertificates(n)
    BY <1>4 DEF TimerFires, TypeOK
  <2>4. HoldsProposed(n)'
    <3>1. \A b \in timeout'[n].preparedSet : Proposed(b)'
      BY <1>3, <2>2, <2>3
    <3> QED BY <1>1, <1>3, <2>1, <3>1 DEF HoldsProposed, Proposed
  <2>5. \A k \in Node : HoldsProposed(k)'
    <3>1. \A k \in Node : k # n => timeout'[k] = timeout[k]
      BY <1>4 DEF TimerFires, TypeOK
    <3> QED BY <1>1, <2>4, <3>1, HoldsOld
  <2> QED BY <1>2, <2>1, <2>5, BlocksOther
<1>5. CASE StartViewChange(n)
  <2>1. timeout' = [timeout EXCEPT ![n] = NoTimeout]
    BY <1>5 DEF StartViewChange
  <2>2. \A k \in Node : HoldsProposed(k)'
    <3>1. \A k \in Node : k # n => timeout'[k] = timeout[k]
      BY <2>1 DEF TypeOK
    <3>2. timeout'[n] = NoTimeout
      BY <2>1 DEF TypeOK
    <3>3. HoldsProposed(n)'
      BY <1>1, <1>3, <3>2 DEF HoldsProposed, Proposed
    <3> QED BY <1>1, <3>1, <3>3, HoldsOld
  <2>3. PICK vc : vc = timeout[n]
    OBVIOUS
  <2>4. vc.type = "ViewChange" /\ \A b \in vc.preparedSet : Proposed(b)'
    BY <1>3, <1>5, <2>3 DEF StartViewChange, TypeOK, ViewChangeMsgs, HoldsProposed
  <2>5. vc.type # "PrePrepare" /\ CarriesProposed(vc)'
    BY <2>4 DEF CarriesProposed
  <2>6. sent' = sent \/ sent' = sent \cup {vc}
    BY <1>5, <2>3 DEF StartViewChange, Broadcast, netVars
  <2>7. \A w \in sent' : w \in sent \/ (w.type # "PrePrepare" /\ CarriesProposed(w)')
    BY <2>5, <2>6
  <2> QED BY <1>2, <2>2, <2>7, BlocksOther
<1> QED BY <1>4, <1>5

\* The pre-prepares of a NEW-VIEW come out of certificates that were sent.
LEMMA BlocksViewChange ==
  ASSUME TypeOK, TypeOK', BlocksWereProposed, ViewChangesWereSent, sent \subseteq sent',
         NEW n \in Node, NEW m \in Pending(n), HandleViewChange(n, m)
  PROVE  BlocksWereProposed'
<1>1. PICK vcs : vcs = StoreViewChange(viewChangeMsgs[n], m)
  OBVIOUS
<1>2. vcs \subseteq sent /\ vcs \subseteq ViewChangeMsgs
  <2>1. m \in sent /\ m \in ViewChangeMsgs
    BY MessageKinds DEF Pending, TypeOK, HandleViewChange, BroadcastNewView
  <2> QED BY <1>1, <2>1 DEF StoreViewChange, ViewChangesWereSent, TypeOK
<1>3. \A vc \in vcs : \A b \in vc.preparedSet : Proposed(b)
  <2>1. \A vc \in vcs : vc.type = "ViewChange"
    BY <1>2 DEF ViewChangeMsgs
  <2> QED BY <1>2, <2>1, BlocksByPart DEF CarriesProposed
<1>4. \A pps \in ComputePrePrepareSets(ForView(vcs, m.newView)) : \A b \in pps : Proposed(b)
  BY <1>3 DEF ComputePrePrepareSets, AboveCheckpoints, ReportedPrepared, ForView
<1>5. \A w \in sent' : w \in sent \/ (w.type # "PrePrepare" /\ CarriesProposed(w)')
  <2>1. ASSUME NEW nv, nv.type = "NewView",
               nv.prePrepares \in ComputePrePrepareSets(ForView(vcs, m.newView))
        PROVE  CarriesProposed(nv)'
    BY <1>4, <2>1, ProposedGrows DEF CarriesProposed
  <2> QED BY <1>1, <2>1, HandleViewChangeCases
<1>6. UNCHANGED <<stateLog, committedBlocks, sequenceNum, timeout>>
  BY DEF HandleViewChange, BroadcastNewView
<1>7. \A k \in Node : HoldsProposed(k)'
  BY <1>6, HoldsOld
<1>8. \A k \in Node : sequenceNum[k] <= sequenceNum'[k]
  BY <1>6 DEF TypeOK
<1> QED BY <1>5, <1>7, <1>8, BlocksOther

\* handleNewView takes the NEW-VIEW's blocks into the log and votes for them.
LEMMA BlocksNewView ==
  ASSUME TypeOK, TypeOK', BlocksWereProposed, sent \subseteq sent',
         NEW n \in Node, NEW m \in Pending(n), HandleNewView(n, m)
  PROVE  BlocksWereProposed'
<1>1. m \in sent /\ m.type = "NewView" /\ m.prePrepares \subseteq Blocks
  BY MessageKinds DEF Pending, TypeOK, HandleNewView, NewViewMsgs
<1>2. \A p \in m.prePrepares : Proposed(p)'
  BY <1>1, BlocksByPart, ProposedGrows DEF CarriesProposed
<1>3. \A w \in sent' : w \in sent \/ (w.type # "PrePrepare" /\ CarriesProposed(w)')
  <2>1. ASSUME NEW p \in m.prePrepares, NEW w, w = PhaseMsg("Prepare", n, m.view, p)
        PROVE  w.type # "PrePrepare" /\ CarriesProposed(w)'
    <3>1. w.type = "Prepare" /\ w.block = p
      BY <2>1 DEF PhaseMsg
    <3> QED BY <1>2, <3>1 DEF CarriesProposed
  <2>2. sent' = sent \cup {PhaseMsg("Prepare", n, m.view, p) : p \in m.prePrepares}
    BY DEF HandleNewView, Deliver
  <2> QED BY <2>1, <2>2
<1>4. PICK log : log = Reprocess(stateLog[n], m.prePrepares)
  OBVIOUS
<1>5. stateLog[n] \in [Seqs -> States \cup {NoState}]
  BY DEF TypeOK
<1>6. ASSUME NEW s \in Seqs, log[s] # NoState PROVE Proposed(log[s].block)'
  <2>1. CASE \E p \in m.prePrepares : p.height = s
    <3>1. PICK p \in m.prePrepares : log[s] = SetPrePrepare(GetState(stateLog[n], p), p)
      BY <1>4, <1>5, <2>1 DEF Reprocess
    <3>2. GetState(stateLog[n], p) \in States
      BY <1>1, <1>5, GetStateType
    <3>3. log[s].block = p
      BY <3>1, <3>2 DEF SetPrePrepare, States
    <3> QED BY <1>2, <3>3
  <2>2. CASE ~ \E p \in m.prePrepares : p.height = s
    <3>1. log[s] = stateLog[n][s]
      BY <1>4, <1>5, <2>2 DEF Reprocess
    <3>2. Proposed(log[s].block)
      BY <1>6, <3>1, BlocksByPart DEF HoldsProposed
    <3> QED BY <3>2, ProposedGrows
  <2> QED BY <2>1, <2>2
<1>7. \A k \in Node : HoldsProposed(k)'
  BY <1>4, <1>6, HoldsLog DEF HandleNewView
<1>8. \A k \in Node : sequenceNum[k] <= sequenceNum'[k]
  BY DEF TypeOK, HandleNewView
<1> QED BY <1>3, <1>7, <1>8, BlocksOther

\* Every step keeps BlocksWereProposed.
LEMMA BlocksStep ==
  TypeOK /\ TypeOK' /\ ViewChangesWereSent /\ BlocksWereProposed /\ [Next]_vars
    => BlocksWereProposed'
<1> SUFFICES ASSUME TypeOK, TypeOK', ViewChangesWereSent, BlocksWereProposed, [Next]_vars
             PROVE  BlocksWereProposed'
  OBVIOUS
<1>1. sent \subseteq sent'
  BY SentGrows
<1>2. ASSUME UNCHANGED <<stateLog, committedBlocks, timeout, sent>>,
             \A k \in Node : sequenceNum[k] <= sequenceNum'[k]
      PROVE  BlocksWereProposed'
  <2>1. \A k \in Node : HoldsProposed(k)'
    BY <1>1, <1>2, HoldsOld
  <2> QED BY <1>1, <1>2, <2>1, BlocksOther
<1>3. ASSUME UNCHANGED sequenceNum PROVE \A k \in Node : sequenceNum[k] <= sequenceNum'[k]
  BY <1>3 DEF TypeOK
<1>4. ASSUME NEW n \in Node, SkipSequence(n) PROVE BlocksWereProposed'
  <2>1. \A k \in Node : sequenceNum[k] <= sequenceNum'[k]
    BY <1>4 DEF SkipSequence, NextSequence, TypeOK
  <2> QED BY <1>2, <1>4, <2>1 DEF SkipSequence, netVars
<1>5. ASSUME NEW n \in Node, NEW m \in Pending(n), ReturnEarly(n, m) PROVE BlocksWereProposed'
  <2>1. UNCHANGED <<stateLog, committedBlocks, timeout, sequenceNum>>
    BY <1>5 DEF ReturnEarly, engineVars
  <2>2. UNCHANGED sent
    BY <1>5 DEF ReturnEarly, Deliver
  <2> QED BY <1>2, <1>3, <2>1, <2>2
<1>6. CASE UNCHANGED vars
  BY <1>2, <1>3, <1>6 DEF vars, engineVars, netVars
<1>7. ASSUME NEW n \in Node, NEW m \in Pending(n), HandleMessage(n, m) PROVE BlocksWereProposed'
  BY <1>1, <1>5, <1>7, BlocksVote, BlocksViewChange, BlocksNewView DEF HandleMessage
<1> QED BY <1>1, <1>4, <1>6, <1>7, BlocksPropose, BlocksTimer DEF Next

-----------------------------------------------------------------------------
(***************************************************************************)
(* The theorems.                                                           *)
(***************************************************************************)

\* The blocks on the network, in the logs and executed are blocks that the
\* primary of their view proposed, one per view and height.
THEOREM BlocksProposed == Spec => []BlocksWereProposed
<1>1. Init => ViewChangesWereSent /\ BlocksWereProposed
  BY DEF Init, ViewChangesWereSent, BlocksWereProposed, OnePerSender
<1> QED BY <1>1, TypeCorrect, ViewChangesStep, BlocksStep, PTL DEF Spec

\* Two executed blocks of one view and one height are the same block, for every
\* number of validators, window and checkpoint interval (proposeBlock's
\* sequence numbers, and re-issued pre-prepares keeping their block).
THEOREM InViewAgreement == Spec => []AgreementInView
<1>1. BlocksWereProposed => AgreementInView
  <2> SUFFICES ASSUME BlocksWereProposed, NEW n \in Node, NEW k \in Node,
                      NEW b \in Executed(n), NEW c \in Executed(k),
                      b.height = c.height, b.view = c.view
               PROVE  b = c
    BY DEF AgreementInView
  <2>1. Proposed(b) /\ Proposed(c)
    BY DEF Executed, BlocksWereProposed
  <2>2. PICK p \in sent, q \in sent :
          /\ p.type = "PrePrepare" /\ p.view = b.view /\ p.block = b
          /\ q.type = "PrePrepare" /\ q.view = c.view /\ q.block = c
    BY <2>1 DEF Proposed, PhaseMsg
  <2>3. p = q
    BY <2>2, BlocksByPart
  <2> QED BY <2>2, <2>3
<1> QED BY <1>1, BlocksProposed, PTL
=============================================================================
