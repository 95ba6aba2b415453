-------------------------- MODULE PBFTLedger_proofs --------------------------
(***************************************************************************)
(* The refinement: every behaviour of the engine is one of Ledger; and     *)
(* what follows of heights executed twice, of checkpoints and the window.  *)
(***************************************************************************)
EXTENDS PBFTBlocks_proofs, PBFTLedger, Ascending_proofs

-----------------------------------------------------------------------------
(***************************************************************************)
(* ExecutedIsKept, node by node.                                           *)
(***************************************************************************)

\* A new entry with the flag of the old one, above the low water mark as long as
\* the node is in view 0.
LEMMA KeptEntry ==
  ASSUME NEW log \in [Seqs -> States \cup {NoState}], NEW low \in Nat, NEW list,
         NEW v \in Nat, Kept(log, low, list, v),
         NEW h \in Seqs, v = 0 => h > low, NEW st \in States,
         log[h] # NoState /\ log[h].executed => st.executed
  PROVE  Kept([log EXCEPT ![h] = st], low, list, v)
<1> SUFFICES ASSUME NEW s \in Seqs
             PROVE  /\ v = 0 /\ s <= low => [log EXCEPT ![h] = st][s] = NoState
                    /\ s > low /\ (\E i \in 1 .. Len(list) : list[i].height = s)
                         => /\ [log EXCEPT ![h] = st][s] # NoState
                            /\ [log EXCEPT ![h] = st][s].executed
  BY DEF Kept
<1>1. h \in Nat /\ s \in Nat
  BY BoundsAssumption DEF Seqs
<1>2. CASE s = h
  BY <1>1, <1>2, NoStateAssumption DEF Kept
<1>3. CASE s # h
  BY <1>3 DEF Kept
<1> QED BY <1>2, <1>3

\* The height of an executed block joins the list with the flag set.
LEMMA KeptAppend ==
  ASSUME NEW log \in [Seqs -> States \cup {NoState}], NEW low \in Nat, NEW list \in Seq(Blocks),
         NEW v \in Nat, Kept(log, low, list, v),
         NEW b \in Blocks, log[b.height] # NoState, log[b.height].executed
  PROVE  Kept(log, low, Append(list, b), v)
<1>1. \A i \in 1 .. Len(Append(list, b)) :
         \/ i \in 1 .. Len(list) /\ Append(list, b)[i] = list[i]
         \/ Append(list, b)[i] = b
  OBVIOUS
<1> QED BY <1>1 DEF Kept

\* A checkpoint drops what it covers and moves the low water mark.
LEMMA KeptCheckpoint ==
  ASSUME NEW log \in [Seqs -> States \cup {NoState}], NEW low \in Nat, NEW list,
         NEW v \in Nat, Kept(log, low, list, v), NEW cp \in Seqs
  PROVE  Kept(CollectGarbage(log, low, cp), IF cp > low THEN cp ELSE low, list, v)
<1>1. cp \in Nat /\ Seqs \subseteq Nat
  BY BoundsAssumption DEF Seqs
<1>2. CASE cp > low
  <2>1. \A s \in Seqs : CollectGarbage(log, low, cp)[s] = IF s <= cp THEN NoState ELSE log[s]
    BY <1>2 DEF CollectGarbage
  <2> QED BY <1>1, <1>2, <2>1 DEF Kept
<1>3. CASE ~(cp > low)
  BY <1>3 DEF CollectGarbage
<1> QED BY <1>2, <1>3

\* A NEW-VIEW replaces blocks and creates states, and clears no flag.
LEMMA KeptReprocess ==
  ASSUME NEW log \in [Seqs -> States \cup {NoState}], NEW low \in Nat, NEW list,
         NEW v \in Nat, Kept(log, low, list, v), NEW pps, pps \subseteq Blocks,
         NEW w \in Nat, w > 0
  PROVE  Kept(Reprocess(log, pps), low, list, w)
<1> SUFFICES ASSUME NEW s \in Seqs, s > low,
                    \E i \in 1 .. Len(list) : list[i].height = s
             PROVE  Reprocess(log, pps)[s] # NoState /\ Reprocess(log, pps)[s].executed
  BY DEF Kept
<1>1. log[s] # NoState /\ log[s].executed /\ log[s] \in States
  BY DEF Kept
<1>2. CASE \E p \in pps : p.height = s
  <2>1. PICK p \in pps : p = CHOOSE q \in pps : q.height = s
    BY <1>2
  <2>2. p.height = s
    BY <1>2, <2>1
  <2>3. PICK old : old = log[s]
    OBVIOUS
  <2>4. PICK st : st = SetPrePrepare(old, p)
    OBVIOUS
  <2>5. Reprocess(log, pps)[s] = st
    BY <1>1, <1>2, <2>1, <2>2, <2>3, <2>4 DEF Reprocess, GetState
  <2>6. p \in Blocks /\ old \in States /\ old.executed
    BY <1>1, <2>3
  <2>7. st \in States
    <3>1. PrePrepared \in Phase
      BY DEF PrePrepared, Phase, Idle, Committed
    <3> QED BY <2>4, <2>6, <3>1 DEF SetPrePrepare, States
  <2>8. st.executed
    BY <2>4, <2>6 DEF SetPrePrepare, States
  <2> QED BY <2>5, <2>7, <2>8, NoStateAssumption
<1>3. CASE ~\E p \in pps : p.height = s
  BY <1>1, <1>3 DEF Reprocess
<1> QED BY <1>2, <1>3

-----------------------------------------------------------------------------
(***************************************************************************)
(* The steps keep it.                                                      *)
(***************************************************************************)

\* Only node n changes.
LEMMA KeptLocal ==
  ASSUME TypeOK, ExecutedIsKept, NEW n \in Node, NEW log, NEW low, NEW list, NEW v,
         stateLog' = [stateLog EXCEPT ![n] = log],
         lowWaterMark' = [lowWaterMark EXCEPT ![n] = low],
         committedBlocks' = [committedBlocks EXCEPT ![n] = list],
         view' = [view EXCEPT ![n] = v],
         Kept(log, low, list, v)
  PROVE  ExecutedIsKept'
<1>1. \A k \in Node : k # n =>
        /\ stateLog'[k] = stateLog[k] /\ lowWaterMark'[k] = lowWaterMark[k]
        /\ committedBlocks'[k] = committedBlocks[k] /\ view'[k] = view[k]
  BY DEF TypeOK
<1>2. /\ stateLog'[n] = log /\ lowWaterMark'[n] = low
      /\ committedBlocks'[n] = list /\ view'[n] = v
  BY DEF TypeOK
<1> QED BY <1>1, <1>2 DEF ExecutedIsKept

\* One entry of the log of n changes, above its low water mark if n is in view 0.
LEMMA KeptEntryStep ==
  ASSUME TypeOK, ExecutedIsKept, NEW n \in Node, NEW h \in Seqs,
         view[n] = 0 => h > lowWaterMark[n],
         NEW st \in States,
         stateLog[n][h] # NoState /\ stateLog[n][h].executed => st.executed,
         stateLog' = [stateLog EXCEPT ![n][h] = st],
         UNCHANGED <<view, lowWaterMark, committedBlocks>>
  PROVE  ExecutedIsKept'
<1>1. PICK log : log = [stateLog[n] EXCEPT ![h] = st]
  OBVIOUS
<1>2. stateLog' = [stateLog EXCEPT ![n] = log]
  BY <1>1 DEF TypeOK
<1>3. /\ lowWaterMark' = [lowWaterMark EXCEPT ![n] = lowWaterMark[n]]
      /\ committedBlocks' = [committedBlocks EXCEPT ![n] = committedBlocks[n]]
      /\ view' = [view EXCEPT ![n] = view[n]]
  BY DEF TypeOK
<1>4. /\ stateLog[n] \in [Seqs -> States \cup {NoState}] /\ lowWaterMark[n] \in Nat
      /\ view[n] \in Nat
  BY BoundsAssumption DEF TypeOK, Views
<1>5. Kept(log, lowWaterMark[n], committedBlocks[n], view[n])
  <2>1. PICK old, low, list, v :
          /\ old = stateLog[n] /\ low = lowWaterMark[n]
          /\ list = committedBlocks[n] /\ v = view[n]
    OBVIOUS
  <2>2. /\ old \in [Seqs -> States \cup {NoState}] /\ low \in Nat /\ v \in Nat
        /\ v = 0 => h > low
        /\ old[h] # NoState /\ old[h].executed => st.executed
    BY <1>4, <2>1
  <2>3. Kept(old, low, list, v)
    BY <2>1 DEF ExecutedIsKept
  <2>4. Kept([old EXCEPT ![h] = st], low, list, v)
    BY <2>2, <2>3, KeptEntry
  <2> QED BY <1>1, <2>1, <2>4
<1>6. PICK low, list, v :
        low = lowWaterMark[n] /\ list = committedBlocks[n] /\ v = view[n]
  OBVIOUS
<1>7. /\ lowWaterMark' = [lowWaterMark EXCEPT ![n] = low]
      /\ committedBlocks' = [committedBlocks EXCEPT ![n] = list]
      /\ view' = [view EXCEPT ![n] = v]
      /\ Kept(log, low, list, v)
  BY <1>3, <1>5, <1>6
<1> QED BY <1>2, <1>7, KeptLocal

\* A pre-prepare above the low water mark, the node's own or the primary's.
LEMMA KeptPrePrepare ==
  ASSUME TypeOK, ExecutedIsKept, NEW n \in Node, NEW b \in Blocks, NEW v \in Views,
         b.height > lowWaterMark[n],
         stateLog' = [stateLog EXCEPT ![n][b.height] =
                        AddPrepare(SetPrePrepare(GetState(stateLog[n], b), b), n, Vote(v, b))],
         UNCHANGED <<view, lowWaterMark, committedBlocks>>
  PROVE  ExecutedIsKept'
<1>1. PICK old : old = GetState(stateLog[n], b)
  OBVIOUS
<1>2. old \in States /\ b.height \in Seqs /\ Vote(v, b) \in Votes
  BY <1>1, GetStateType, PhaseMsgType DEF TypeOK, Blocks
<1>3. PICK set : set = SetPrePrepare(old, b)
  OBVIOUS
<1>4. set \in States /\ set.executed = old.executed
  BY <1>2, <1>3, StateOps DEF SetPrePrepare, States
<1>5. PICK st : st = AddPrepare(set, n, Vote(v, b))
  OBVIOUS
<1>6. st \in States /\ st.executed = set.executed
  <2>1. st \in States
    BY <1>2, <1>4, <1>5, StateOps
  <2> QED BY <1>4, <1>5, <2>1 DEF AddPrepare, States
<1>7. stateLog[n][b.height] # NoState => old = stateLog[n][b.height]
  BY <1>1 DEF GetState
<1>8. stateLog' = [stateLog EXCEPT ![n][b.height] = st]
  BY <1>1, <1>3, <1>5
<1>9. stateLog[n][b.height] # NoState /\ stateLog[n][b.height].executed => st.executed
  BY <1>4, <1>6, <1>7
<1>10. PICK h : h = b.height
  OBVIOUS
<1>11. h \in Seqs /\ h > lowWaterMark[n] /\ st \in States
  BY <1>2, <1>6, <1>10
<1>12. stateLog[n][h] # NoState /\ stateLog[n][h].executed => st.executed
  BY <1>9, <1>10
<1>13. stateLog' = [stateLog EXCEPT ![n][h] = st]
  BY <1>8, <1>10
<1> QED BY <1>11, <1>12, <1>13, KeptEntryStep

\* A state that exists lies above the low water mark in view 0.
LEMMA VotesAboveMark ==
  ASSUME TypeOK, ExecutedIsKept, NEW n \in Node, NEW h \in Seqs, stateLog[n][h] # NoState
  PROVE  /\ view[n] = 0 => h > lowWaterMark[n]
         /\ stateLog[n][h] \in States
<1>1. h \in Nat /\ lowWaterMark[n] \in Nat
  BY BoundsAssumption DEF TypeOK, Seqs
<1>2. view[n] = 0 => ~(h <= lowWaterMark[n])
  BY DEF ExecutedIsKept, Kept
<1> QED BY <1>1, <1>2 DEF TypeOK

\* handlePrepare.
LEMMA KeptPrepare ==
  ASSUME TypeOK, ExecutedIsKept, NEW n \in Node, NEW m \in Pending(n), HandlePrepare(n, m)
  PROVE  ExecutedIsKept'
<1> DEFINE h == m.block.height
           vote == Vote(m.view, m.block)
<1>1. m \in PhaseMsgs
  BY MessageKinds DEF TypeOK, Pending, HandlePrepare
<1>2. h \in Seqs /\ m.from \in Node /\ vote \in Votes /\ m.block \in Blocks
  BY <1>1, PhaseMsgType DEF PhaseMsgs, Blocks
<1>3. PICK old : old = stateLog[n][h]
  OBVIOUS
<1>4. old \in States /\ (view[n] = 0 => h > lowWaterMark[n])
  BY <1>2, <1>3, VotesAboveMark DEF HandlePrepare, TakesVote
<1>5. PICK voted : voted = AddPrepare(old, m.from, vote)
  OBVIOUS
<1>6. voted \in States /\ voted.executed = old.executed
  <2>1. voted \in States
    BY <1>2, <1>4, <1>5, StateOps
  <2> QED BY <1>4, <1>5, <2>1 DEF AddPrepare, States
<1>7. PICK prepared : prepared = [voted EXCEPT !.phase = Prepared]
  OBVIOUS
<1>8. prepared \in States /\ prepared.executed = old.executed
  <2>1. prepared \in States
    BY <1>2, <1>6, <1>7, StateOps
  <2> QED BY <1>6, <1>7, <2>1 DEF States
<1>9. PICK st : st = AfterPrepare(n, m)
  OBVIOUS
<1>10. st = voted \/ st = AddCommit(prepared, n, vote)
  BY <1>3, <1>5, <1>7, <1>9 DEF AfterPrepare
<1>11. st \in States /\ st.executed = old.executed
  <2>1. st \in States
    BY <1>2, <1>6, <1>8, <1>10, StateOps
  <2>2. CASE st = AddCommit(prepared, n, vote)
    BY <1>8, <2>1, <2>2 DEF AddCommit, States
  <2> QED BY <1>6, <1>10, <2>1, <2>2
<1>12. /\ stateLog' = [stateLog EXCEPT ![n][h] = st]
       /\ UNCHANGED <<view, lowWaterMark, committedBlocks>>
  BY <1>9 DEF HandlePrepare
<1> QED BY <1>2, <1>3, <1>4, <1>11, <1>12, KeptEntryStep

\* What handleCommit does to one node: the vote alone, with another phase or
\* not, or the execution of the block of a state that was not executed.
LEMMA CommitCases ==
  ASSUME TypeOK, NEW n \in Node, NEW m \in Pending(n), HandleCommit(n, m)
  PROVE  \E h \in Seqs : \E st \in States :
           /\ stateLog[n][h] \in States /\ stateLog[n][h] # NoState
           /\ st.executed = stateLog[n][h].executed /\ st.block = stateLog[n][h].block
           /\ \/ /\ stateLog' = [stateLog EXCEPT ![n][h] = st]
                 /\ UNCHANGED <<committedBlocks, checkpoints, lowWaterMark>>
              \/ /\ ~st.executed
                 /\ ExecuteBlock(n, h, st)
<1> DEFINE h == m.block.height
           vote == Vote(m.view, m.block)
<1>1. m \in PhaseMsgs
  BY MessageKinds DEF TypeOK, Pending, HandleCommit
<1>2. h \in Seqs /\ m.from \in Node /\ vote \in Votes /\ m.block \in Blocks
  BY <1>1, PhaseMsgType DEF PhaseMsgs, Blocks
<1>3. PICK old : old = stateLog[n][h]
  OBVIOUS
<1>4. old \in States /\ old # NoState
  BY <1>2, <1>3 DEF HandleCommit, TakesVote, TypeOK
<1>5. PICK st : st = AddCommit(old, m.from, vote)
  OBVIOUS
<1>6. st \in States /\ st.executed = old.executed /\ st.block = old.block
  <2>1. st \in States
    BY <1>2, <1>4, <1>5, StateOps
  <2> QED BY <1>4, <1>5, <2>1 DEF AddCommit, States
<1>7. PICK committed : committed = [st EXCEPT !.phase = Committed]
  OBVIOUS
<1>8. committed \in States /\ committed.executed = old.executed /\ committed.block = old.block
  <2>1. committed \in States
    BY <1>2, <1>6, <1>7, StateOps
  <2> QED BY <1>6, <1>7, <2>1 DEF States
<1>9. \/ ExecuteBlock(n, h, committed)
      \/ ExecuteNothing(n, h, committed)
      \/ /\ stateLog' = [stateLog EXCEPT ![n][h] = st]
         /\ UNCHANGED <<committedBlocks, checkpoints, lowWaterMark>>
  BY <1>3, <1>5, <1>7 DEF HandleCommit
<1>10. CASE ExecuteBlock(n, h, committed)
  BY <1>2, <1>3, <1>4, <1>8, <1>10 DEF ExecuteBlock
<1>11. CASE ExecuteNothing(n, h, committed)
  BY <1>2, <1>3, <1>4, <1>8, <1>11 DEF ExecuteNothing
<1>12. CASE /\ stateLog' = [stateLog EXCEPT ![n][h] = st]
            /\ UNCHANGED <<committedBlocks, checkpoints, lowWaterMark>>
  BY <1>2, <1>3, <1>4, <1>6, <1>12
<1> QED BY <1>9, <1>10, <1>11, <1>12

\* handleCommit.
LEMMA KeptCommit ==
  ASSUME TypeOK, VotesWereCast, ExecutedIsKept, NEW n \in Node, NEW m \in Pending(n),
         HandleCommit(n, m)
  PROVE  ExecutedIsKept'
<1>1. PICK h \in Seqs : \E st \in States :
         /\ stateLog[n][h] \in States /\ stateLog[n][h] # NoState
         /\ st.executed = stateLog[n][h].executed /\ st.block = stateLog[n][h].block
         /\ \/ /\ stateLog' = [stateLog EXCEPT ![n][h] = st]
               /\ UNCHANGED <<committedBlocks, lowWaterMark>>
            \/ /\ ~st.executed
               /\ ExecuteBlock(n, h, st)
  BY CommitCases
<1>2. PICK st \in States :
         /\ stateLog[n][h] \in States /\ stateLog[n][h] # NoState
         /\ st.executed = stateLog[n][h].executed /\ st.block = stateLog[n][h].block
         /\ \/ /\ stateLog' = [stateLog EXCEPT ![n][h] = st]
               /\ UNCHANGED <<committedBlocks, lowWaterMark>>
            \/ /\ ~st.executed
               /\ ExecuteBlock(n, h, st)
  BY <1>1
<1>3. /\ view[n] = 0 => h > lowWaterMark[n]
      /\ view' = view /\ view' = [view EXCEPT ![n] = view[n]]
  BY <1>2, VotesAboveMark DEF HandleCommit, TypeOK
<1>4. CASE /\ stateLog' = [stateLog EXCEPT ![n][h] = st]
           /\ UNCHANGED <<committedBlocks, lowWaterMark>>
  BY <1>2, <1>3, <1>4, KeptEntryStep
<1>5. CASE ExecuteBlock(n, h, st)
  <2>1. st.block \in Blocks /\ st.block.height = h
    BY <1>2 DEF VotesWereCast, States
  <2>2. PICK done : done = [st EXCEPT !.executed = TRUE]
    OBVIOUS
  <2>3. done \in States /\ done.executed
    BY <2>2 DEF States
  <2>4. PICK log : log = [stateLog[n] EXCEPT ![h] = done]
    OBVIOUS
  <2>5. stateLog[n] \in [Seqs -> States \cup {NoState}] /\ lowWaterMark[n] \in Nat
        /\ committedBlocks[n] \in Seq(Blocks) /\ view[n] \in Nat
    BY BoundsAssumption DEF TypeOK, Views
  <2>6. /\ log \in [Seqs -> States \cup {NoState}]
        /\ log[h] # NoState /\ log[h].executed
    BY <2>3, <2>4, <2>5, NoStateAssumption
  <2>7. Kept(log, lowWaterMark[n], committedBlocks[n], view[n])
    BY <1>3, <2>3, <2>4, <2>5, KeptEntry DEF ExecutedIsKept
  <2>8. PICK list : list = Append(committedBlocks[n], st.block)
    OBVIOUS
  <2>9. Kept(log, lowWaterMark[n], list, view[n])
    BY <2>1, <2>5, <2>6, <2>7, <2>8, KeptAppend
  <2>10. committedBlocks' = [committedBlocks EXCEPT ![n] = list]
    BY <1>5, <2>8 DEF ExecuteBlock
  <2>11. CASE CreateCheckpoint(n, h, log)
    <3>1. PICK low : low = IF h > lowWaterMark[n] THEN h ELSE lowWaterMark[n]
      OBVIOUS
    <3>2. PICK left : left = CollectGarbage(log, lowWaterMark[n], h)
      OBVIOUS
    <3>3. Kept(left, low, list, view[n])
      BY <2>5, <2>6, <2>9, <3>1, <3>2, KeptCheckpoint
    <3>4. /\ stateLog' = [stateLog EXCEPT ![n] = left]
          /\ lowWaterMark' = [lowWaterMark EXCEPT ![n] = low]
      BY <2>11, <3>1, <3>2 DEF CreateCheckpoint
    <3> QED BY <1>3, <2>10, <3>3, <3>4, KeptLocal
  <2>12. CASE /\ stateLog' = [stateLog EXCEPT ![n] = log]
              /\ UNCHANGED <<checkpoints, lowWaterMark>>
    <3>1. lowWaterMark' = [lowWaterMark EXCEPT ![n] = lowWaterMark[n]]
      BY <2>12 DEF TypeOK
    <3> QED BY <1>3, <2>9, <2>10, <2>12, <3>1, KeptLocal
  <2> QED BY <1>5, <2>2, <2>4, <2>11, <2>12 DEF ExecuteBlock
<1> QED BY <1>2, <1>4, <1>5

\* A view change takes a node to a later view, which is not 0, or leaves it.
LEMMA ViewMoves ==
  ASSUME TypeOK, NEW n \in Node, NEW m \in Pending(n),
         HandleViewChange(n, m) \/ HandleNewView(n, m)
  PROVE  \/ UNCHANGED view
         \/ \E v \in Nat : v > 0 /\ view' = [view EXCEPT ![n] = v]
<1>1. m \in sent /\ sent \subseteq Messages /\ view[n] \in Nat
  BY DEF Pending, TypeOK, Views
<1>2. CASE HandleViewChange(n, m)
  <2>1. m \in ViewChangeMsgs
    BY <1>1, <1>2, MessageKinds DEF HandleViewChange
  <2>2. m.newView \in Nat /\ m.newView > 0
    BY <1>1, <1>2, <2>1 DEF ViewChangeMsgs, Views, HandleViewChange, TakesViewChange
  <2>3. PICK vcs : vcs = StoreViewChange(viewChangeMsgs[n], m)
    OBVIOUS
  <2>4. UNCHANGED view \/ EnterView(n, m.newView, vcs)
    BY <1>2, <2>3, HandleViewChangeCases
  <2> QED BY <2>2, <2>4 DEF EnterView
<1>3. CASE HandleNewView(n, m)
  <2>1. m \in NewViewMsgs
    BY <1>1, <1>3, MessageKinds DEF HandleNewView
  <2>2. m.view \in Nat /\ m.view > 0
    BY <1>1, <1>3, <2>1 DEF NewViewMsgs, Views, HandleNewView, TakesNewView
  <2> QED BY <1>3, <2>2 DEF HandleNewView, EnterView
<1> QED BY <1>2, <1>3

\* Who is in the first view after a view change was there before, with its log.
LEMMA FirstViewEnds ==
  ASSUME TypeOK, NEW n \in Node, NEW m \in Pending(n),
         HandleViewChange(n, m) \/ HandleNewView(n, m)
  PROVE  /\ UNCHANGED committedBlocks
         /\ \A k \in Node : view'[k] = 0 => view[k] = 0 /\ stateLog'[k] = stateLog[k]
<1>1. CASE HandleViewChange(n, m)
  <2>1. ASSUME NEW v \in Nat, v > 0, view' = [view EXCEPT ![n] = v]
        PROVE  \A k \in Node : view'[k] = 0 => view[k] = 0
    BY <2>1 DEF TypeOK
  <2> QED BY <1>1, <2>1, ViewMoves DEF HandleViewChange
<1>2. CASE HandleNewView(n, m)
  <2>1. m \in NewViewMsgs /\ view[n] \in Nat
    BY <1>2, MessageKinds DEF TypeOK, Pending, HandleNewView, Views
  <2>2. m.view > 0
    BY <1>2, <2>1 DEF HandleNewView, TakesNewView, NewViewMsgs, Views
  <2> QED BY <1>2, <2>2 DEF HandleNewView, EnterView, TypeOK
<1> QED BY <1>1, <1>2

\* handleViewChange touches no log, list or mark.
LEMMA KeptViewChange ==
  ASSUME TypeOK, ExecutedIsKept, NEW n \in Node, NEW m \in Pending(n), HandleViewChange(n, m)
  PROVE  ExecutedIsKept'
<1>1. UNCHANGED <<stateLog, lowWaterMark, committedBlocks>>
  BY DEF HandleViewChange
<1>2. \A k \in Node : view'[k] = 0 => view[k] = 0
  BY FirstViewEnds
<1> QED BY <1>1, <1>2 DEF ExecutedIsKept, Kept

\* handleNewView.
LEMMA KeptNewView ==
  ASSUME TypeOK, ExecutedIsKept, NEW n \in Node, NEW m \in Pending(n), HandleNewView(n, m)
  PROVE  ExecutedIsKept'
<1>1. m \in NewViewMsgs
  BY MessageKinds DEF TypeOK, Pending, HandleNewView
<1>2. PICK pps, v : pps = m.prePrepares /\ v = m.view
  OBVIOUS
<1>3. pps \subseteq Blocks /\ v \in Nat /\ v > 0
  BY <1>1, <1>2 DEF NewViewMsgs, Views, HandleNewView, TakesNewView, TypeOK
<1>4. /\ stateLog[n] \in [Seqs -> States \cup {NoState}] /\ lowWaterMark[n] \in Nat
      /\ view[n] \in Nat
  BY BoundsAssumption DEF TypeOK, Views
<1>5. PICK log : log = Reprocess(stateLog[n], pps)
  OBVIOUS
<1>6. Kept(log, lowWaterMark[n], committedBlocks[n], v)
  BY <1>3, <1>4, <1>5, KeptReprocess DEF ExecutedIsKept
<1>7. /\ stateLog' = [stateLog EXCEPT ![n] = log]
      /\ lowWaterMark' = [lowWaterMark EXCEPT ![n] = lowWaterMark[n]]
      /\ committedBlocks' = [committedBlocks EXCEPT ![n] = committedBlocks[n]]
      /\ view' = [view EXCEPT ![n] = v]
  BY <1>2, <1>5 DEF HandleNewView, EnterView, TypeOK
<1> QED BY <1>6, <1>7, KeptLocal

\* The block a proposal links to is of a height in bounds, or there is none.
LEMMA LastHeightType ==
  ASSUME TypeOK, NEW n \in Node
  PROVE  LastHeight(n) \in 0 .. MaxSeq
<1>1. committedBlocks[n] \in Seq(Blocks)
  BY DEF TypeOK
<1>2. CASE committedBlocks[n] = <<>>
  BY <1>2, BoundsAssumption DEF LastHeight
<1>3. CASE committedBlocks[n] # <<>>
  <2>1. committedBlocks[n][Len(committedBlocks[n])] \in Blocks
    BY <1>1, <1>3
  <2> QED BY <1>3, <2>1, BoundsAssumption DEF LastHeight, Blocks, Seqs
<1> QED BY <1>2, <1>3

\* No step of the engine loses an executed flag above the low water mark.
LEMMA KeptStep ==
  ASSUME TypeOK, VotesWereCast, ExecutedIsKept, [Next]_vars
  PROVE  ExecutedIsKept'
<1>1. CASE UNCHANGED <<view, stateLog, lowWaterMark, committedBlocks>>
  BY <1>1 DEF ExecutedIsKept
<1>2. ASSUME NEW n \in Node \ Down, NEW tx \in Txs, ProposeBlock(n, tx)
      PROVE  ExecutedIsKept'
  <2>1. PICK b : b = [height |-> NextSequence(n), view |-> view[n], tx |-> tx,
                      prev |-> LastHeight(n)]
    OBVIOUS
  <2>2. b.height = NextSequence(n) /\ NextSequence(n) \in Seqs /\ view[n] \in Views
    BY <1>2, <2>1 DEF ProposeBlock, TypeOK
  <2>3. LastHeight(n) \in 0 .. MaxSeq
    BY LastHeightType
  <2>4. b \in Blocks
    BY <2>1, <2>2, <2>3 DEF Blocks
  <2>5. b.height > lowWaterMark[n]
    BY <1>2, <2>2 DEF ProposeBlock, IsInWindow
  <2>6. stateLog' = [stateLog EXCEPT ![n][b.height] =
          AddPrepare(SetPrePrepare(GetState(stateLog[n], b), b), n, Vote(view[n], b))]
    BY <1>2, <2>1, <2>2 DEF ProposeBlock
  <2>7. UNCHANGED <<view, lowWaterMark, committedBlocks>>
    BY <1>2 DEF ProposeBlock
  <2> QED BY <2>2, <2>4, <2>5, <2>6, <2>7, KeptPrePrepare
<1>3. ASSUME NEW n \in Node \ Down, NEW m \in Pending(n), HandlePrePrepare(n, m)
      PROVE  ExecutedIsKept'
  <2>1. m \in PhaseMsgs
    BY <1>3, MessageKinds DEF TypeOK, Pending, HandlePrePrepare
  <2>2. m.block \in Blocks /\ m.view \in Views /\ m.block.height > lowWaterMark[n]
    BY <1>3, <2>1 DEF PhaseMsgs, HandlePrePrepare, TakesPrePrepare, IsInWindow
  <2>3. PICK b : b = m.block
    OBVIOUS
  <2>4. PICK v : v = m.view
    OBVIOUS
  <2>5. /\ stateLog' = [stateLog EXCEPT ![n][b.height] =
             AddPrepare(SetPrePrepare(GetState(stateLog[n], b), b), n, Vote(v, b))]
        /\ UNCHANGED <<view, lowWaterMark, committedBlocks>>
    BY <1>3, <2>3, <2>4 DEF HandlePrePrepare
  <2> QED BY <2>2, <2>3, <2>4, <2>5, KeptPrePrepare
<1>4. ASSUME NEW n \in Node \ Down, NEW m \in Pending(n), HandleMessage(n, m)
      PROVE  ExecutedIsKept'
  <2>1. CASE ReturnEarly(n, m)
    BY <1>1, <2>1 DEF ReturnEarly, engineVars
  <2> QED BY <1>3, <1>4, <2>1, KeptPrepare, KeptCommit, KeptViewChange, KeptNewView
          DEF HandleMessage
<1>5. ASSUME NEW n \in Node \ Down, SkipSequence(n) \/ TimerFires(n) \/ StartViewChange(n)
      PROVE  ExecutedIsKept'
  BY <1>1, <1>5 DEF SkipSequence, TimerFires, StartViewChange, engineVars
<1>6. CASE UNCHANGED vars
  BY <1>1, <1>6 DEF vars, engineVars
<1> QED BY <1>2, <1>4, <1>5, <1>6 DEF Next

-----------------------------------------------------------------------------
(***************************************************************************)
(* The steps map to Choose, Take, Renew or a stutter.                      *)
(***************************************************************************)

\* Nothing new is proposed when no PRE-PREPARE is sent.
LEMMA NothingProposed ==
  ASSUME NEW new, sent' = sent \cup new, \A m \in new : m.type # "PrePrepare"
  PROVE  ProposedBlocks' = ProposedBlocks
BY DEF ProposedBlocks

\* ... and when the one message sent is another.
LEMMA OneNotProposed ==
  ASSUME NEW m, m.type # "PrePrepare", sent' = sent \cup {m}
  PROVE  ProposedBlocks' = ProposedBlocks
BY DEF ProposedBlocks

\* Only proposeBlock sends a PRE-PREPARE.
LEMMA OthersProposeNothing ==
  ASSUME TypeOK, NEW n \in Node,
         \/ \E m \in Pending(n) : HandleMessage(n, m)
         \/ SkipSequence(n) \/ TimerFires(n) \/ StartViewChange(n)
         \/ UNCHANGED vars
  PROVE  ProposedBlocks' = ProposedBlocks
<1>1. CASE UNCHANGED sent
  BY <1>1 DEF ProposedBlocks
<1>2. CASE StartViewChange(n)
  <2>1. timeout[n] \in ViewChangeMsgs
    BY <1>2 DEF StartViewChange, TypeOK
  <2>2. timeout[n].type = "ViewChange"
    BY <2>1 DEF ViewChangeMsgs
  <2> QED BY <1>1, <1>2, <2>2, NothingProposed DEF StartViewChange, Broadcast, netVars
<1>3. ASSUME NEW m \in Pending(n), HandleMessage(n, m)
      PROVE  ProposedBlocks' = ProposedBlocks
  <2>1. CASE HandlePrePrepare(n, m)
    <3>1. PICK w : w = PhaseMsg("Prepare", n, m.view, m.block)
      OBVIOUS
    <3>2. w.type = "Prepare"
      BY <3>1 DEF PhaseMsg
    <3>3. sent' = sent \cup {w}
      BY <2>1, <3>1 DEF HandlePrePrepare, Deliver
    <3> QED BY <3>2, <3>3, OneNotProposed
  <2>2. CASE HandlePrepare(n, m)
    <3>1. PICK new : /\ sent' = sent \cup new
                     /\ \/ new = {}
                        \/ new = {PhaseMsg("Commit", n, m.view, m.block)}
      BY <2>2 DEF HandlePrepare, Deliver
    <3> QED BY <3>1, NothingProposed DEF PhaseMsg
  <2>3. CASE HandleCommit(n, m)
    BY <1>1, <2>3 DEF HandleCommit, Deliver
  <2>4. CASE HandleViewChange(n, m)
    <3>1. PICK vcs : vcs = StoreViewChange(viewChangeMsgs[n], m)
      OBVIOUS
    <3>2. CASE sent' = sent
      BY <1>1, <3>2
    <3>3. ASSUME NEW nv, nv.type = "NewView", sent' = sent \cup {nv}
          PROVE  ProposedBlocks' = ProposedBlocks
      BY <3>3, OneNotProposed
    <3>4. sent' = sent \/ \E nv : nv.type = "NewView" /\ sent' = sent \cup {nv}
      BY <2>4, <3>1, HandleViewChangeCases
    <3> QED BY <3>2, <3>3, <3>4
  <2>5. CASE HandleNewView(n, m)
    <3>1. PICK new : new = {PhaseMsg("Prepare", n, m.view, p) : p \in m.prePrepares}
      OBVIOUS
    <3>2. sent' = sent \cup new
      BY <2>5, <3>1 DEF HandleNewView, Deliver
    <3>3. \A w \in new : w.type = "Prepare"
      BY <3>1 DEF PhaseMsg
    <3> QED BY <3>2, <3>3, NothingProposed
  <2>6. CASE ReturnEarly(n, m)
    BY <1>1, <2>6 DEF ReturnEarly, Deliver
  <2> QED BY <1>3, <2>1, <2>2, <2>3, <2>4, <2>5, <2>6 DEF HandleMessage
<1>4. CASE SkipSequence(n) \/ TimerFires(n)
  BY <1>1, <1>4 DEF SkipSequence, TimerFires, netVars
<1>5. CASE UNCHANGED vars
  BY <1>1, <1>5 DEF vars, netVars
<1> QED BY <1>2, <1>3, <1>4, <1>5

\* proposeBlock chooses a block for a free place.
LEMMA ProposeChooses ==
  ASSUME TypeOK, TypeOK', BlocksWereProposed, NEW n \in Node, NEW tx \in Txs,
         ProposeBlock(n, tx)
  PROVE  \E b \in Blocks : Abstract!Choose(b)
<1>1. PICK b : b = [height |-> NextSequence(n), view |-> view[n], tx |-> tx,
                    prev |-> LastHeight(n)]
  OBVIOUS
<1>2. PICK pp : pp = PhaseMsg("PrePrepare", n, view[n], b)
  OBVIOUS
<1>3. /\ n = Primary(view[n]) /\ sent' = sent \cup {pp}
      /\ UNCHANGED <<committedBlocks, lowWaterMark, InLaterView>>
  BY <1>1, <1>2 DEF ProposeBlock, Broadcast, InLaterView
<1>4. pp.type = "PrePrepare" /\ pp.block = b
  BY <1>2 DEF PhaseMsg
<1>5. pp \in PhaseMsgs
  BY <1>3, <1>4, MessageKinds DEF TypeOK
<1>6. b \in Blocks
  BY <1>4, <1>5 DEF PhaseMsgs
<1>7. b.height = sequenceNum[n] + 1 /\ b.view = view[n] /\ sequenceNum[n] \in Nat
  BY <1>1, BoundsAssumption DEF NextSequence, TypeOK
<1>8. \A c \in ProposedBlocks : ~Abstract!SameSlot(b, c)
  <2> SUFFICES ASSUME NEW m \in sent, m.type = "PrePrepare",
                      b.view = m.block.view, b.height = m.block.height
               PROVE  FALSE
    BY DEF ProposedBlocks, Abstract!SameSlot
  <2>1. m.from = n /\ m.block.height <= sequenceNum[m.from]
    BY <1>3, <1>7 DEF BlocksWereProposed
  <2> QED BY <1>7, <2>1
<1>9. ProposedBlocks' = ProposedBlocks \cup {b}
  BY <1>3, <1>4 DEF ProposedBlocks
<1> QED BY <1>3, <1>6, <1>8, <1>9 DEF Abstract!Choose

\* handleCommit appends a chosen block to the list of its node, and not for a
\* height the list has unless the node is in a later view and the height below its
\* mark; or it leaves the list and the mark as they are.
LEMMA CommitTakes ==
  ASSUME TypeOK, VotesWereCast, BlocksWereProposed, ExecutedIsKept,
         NEW n \in Node, NEW m \in Pending(n), HandleCommit(n, m)
  PROVE  \/ UNCHANGED <<committedBlocks, lowWaterMark>>
         \/ \E b \in Blocks :
              /\ b \in ProposedBlocks
              /\ \A i \in 1 .. Len(committedBlocks[n]) :
                   committedBlocks[n][i].height = b.height
                     => view[n] > 0 /\ b.height <= lowWaterMark[n]
              /\ committedBlocks' = [committedBlocks EXCEPT ![n] = Append(@, b)]
              /\ \/ UNCHANGED lowWaterMark
                 \/ /\ b.height > lowWaterMark[n]
                    /\ lowWaterMark' = [lowWaterMark EXCEPT ![n] = b.height]
<1> DEFINE Took(h, st) ==
             /\ ~st.executed
             /\ committedBlocks' = [committedBlocks EXCEPT ![n] = Append(@, st.block)]
             /\ \/ UNCHANGED lowWaterMark
                \/ h > lowWaterMark[n] /\ lowWaterMark' = [lowWaterMark EXCEPT ![n] = h]
<1>1. ASSUME NEW h \in Seqs, NEW st \in States, ~st.executed, ExecuteBlock(n, h, st)
      PROVE  Took(h, st)
  <2>1. PICK log : log = [stateLog[n] EXCEPT ![h] = [st EXCEPT !.executed = TRUE]]
    OBVIOUS
  <2>2. CreateCheckpoint(n, h, log) \/ UNCHANGED lowWaterMark
    BY <1>1, <2>1 DEF ExecuteBlock
  <2>3. ASSUME CreateCheckpoint(n, h, log), ~(h > lowWaterMark[n])
        PROVE  UNCHANGED lowWaterMark
    BY <2>3 DEF CreateCheckpoint, TypeOK
  <2>4. ASSUME CreateCheckpoint(n, h, log), h > lowWaterMark[n]
        PROVE  lowWaterMark' = [lowWaterMark EXCEPT ![n] = h]
    BY <2>4 DEF CreateCheckpoint
  <2>5. committedBlocks' = [committedBlocks EXCEPT ![n] = Append(@, st.block)]
    BY <1>1 DEF ExecuteBlock
  <2> QED BY <1>1, <2>2, <2>3, <2>4, <2>5
<1> HIDE DEF Took
<1>2. PICK h \in Seqs, st \in States :
         /\ stateLog[n][h] \in States /\ stateLog[n][h] # NoState
         /\ st.executed = stateLog[n][h].executed /\ st.block = stateLog[n][h].block
         /\ UNCHANGED <<committedBlocks, lowWaterMark>> \/ Took(h, st)
  BY <1>1, CommitCases DEF ExecuteBlock
<1>3. st.block \in Blocks /\ st.block.height = h
  BY <1>2 DEF VotesWereCast, States
<1>4. st.block \in ProposedBlocks
  <2>1. Proposed(stateLog[n][h].block)
    BY <1>2 DEF BlocksWereProposed
  <2> QED BY <1>2, <2>1 DEF Proposed, ProposedBlocks, PhaseMsg
<1>5. ASSUME ~st.executed, NEW i \in 1 .. Len(committedBlocks[n]),
             committedBlocks[n][i].height = h
      PROVE  view[n] > 0 /\ h <= lowWaterMark[n]
  <2>1. ~(h > lowWaterMark[n])
    BY <1>2, <1>5 DEF ExecutedIsKept, Kept
  <2>2. view[n] = 0 => h > lowWaterMark[n]
    BY <1>2, VotesAboveMark
  <2>3. view[n] \in Nat /\ lowWaterMark[n] \in Nat /\ h \in Nat
    BY BoundsAssumption DEF TypeOK, Views, Seqs
  <2> QED BY <2>1, <2>2, <2>3
<1>6. PICK b : b = st.block
  OBVIOUS
<1>7. b \in Blocks /\ b.height = h /\ b \in ProposedBlocks
  BY <1>3, <1>4, <1>6
<1>8. CASE Took(h, st)
  <2>1. /\ committedBlocks' = [committedBlocks EXCEPT ![n] = Append(@, b)]
        /\ \/ UNCHANGED lowWaterMark
           \/ /\ b.height > lowWaterMark[n]
              /\ lowWaterMark' = [lowWaterMark EXCEPT ![n] = b.height]
    BY <1>6, <1>7, <1>8 DEF Took
  <2>2. \A i \in 1 .. Len(committedBlocks[n]) :
          committedBlocks[n][i].height = b.height
            => view[n] > 0 /\ b.height <= lowWaterMark[n]
    BY <1>5, <1>7, <1>8 DEF Took
  <2> QED BY <1>7, <2>1, <2>2
<1> QED BY <1>2, <1>8

\* A view change renews its node, or nobody.
LEMMA ViewChangeRenews ==
  ASSUME TypeOK, NEW n \in Node, NEW m \in Pending(n),
         HandleViewChange(n, m) \/ HandleNewView(n, m)
  PROVE  \/ UNCHANGED InLaterView
         \/ InLaterView' = [InLaterView EXCEPT ![n] = TRUE]
<1>1. CASE UNCHANGED view
  BY <1>1 DEF InLaterView
<1>2. ASSUME NEW v \in Nat, v > 0, view' = [view EXCEPT ![n] = v]
      PROVE  InLaterView' = [InLaterView EXCEPT ![n] = TRUE]
  <2>1. \A k \in Node : view'[k] = IF k = n THEN v ELSE view[k]
    BY <1>2 DEF TypeOK
  <2>2. n \in Node /\ v > 0
    BY <1>2
  <2>3. InLaterView' = [k \in Node |-> view'[k] > 0]
    BY DEF InLaterView
  <2>4. \A k \in Node : (view'[k] > 0) = (IF k = n THEN TRUE ELSE view[k] > 0)
    BY <2>1, <2>2
  <2>5. InLaterView' = [k \in Node |-> IF k = n THEN TRUE ELSE view[k] > 0]
    BY <2>3, <2>4, Zenon
  <2>6. [InLaterView EXCEPT ![n] = TRUE] = [k \in Node |-> IF k = n THEN TRUE ELSE view[k] > 0]
    BY Zenon DEF InLaterView
  <2> QED BY <2>5, <2>6
<1> QED BY <1>1, <1>2, ViewMoves

\* Every step of the engine is a step of the ledger or a stutter.
LEMMA LedgerStep ==
  ASSUME TypeOK, TypeOK', VotesWereCast, BlocksWereProposed, ExecutedIsKept, [Next]_vars
  PROVE  [Abstract!Next]_Abstract!vars
<1>1. CASE ProposedBlocks' = ProposedBlocks
             /\ UNCHANGED <<committedBlocks, lowWaterMark, InLaterView>>
  BY <1>1 DEF Abstract!vars
<1>2. ASSUME NEW n \in Node \ Down, NEW tx \in Txs, ProposeBlock(n, tx)
      PROVE  [Abstract!Next]_Abstract!vars
  BY <1>2, ProposeChooses DEF Abstract!Next
<1>3. ASSUME NEW n \in Node \ Down, NEW m \in Pending(n), HandleMessage(n, m)
      PROVE  [Abstract!Next]_Abstract!vars
  <2>1. ProposedBlocks' = ProposedBlocks
    BY <1>3, OthersProposeNothing
  <2>2. CASE HandleCommit(n, m)
    <3>1. UNCHANGED InLaterView
      BY <2>2 DEF HandleCommit, InLaterView
    <3>2. CASE UNCHANGED <<committedBlocks, lowWaterMark>>
      BY <1>1, <2>1, <3>1, <3>2
    <3>3. ASSUME NEW b \in Blocks, b \in ProposedBlocks,
                 \A i \in 1 .. Len(committedBlocks[n]) :
                   committedBlocks[n][i].height = b.height
                     => view[n] > 0 /\ b.height <= lowWaterMark[n],
                 committedBlocks' = [committedBlocks EXCEPT ![n] = Append(@, b)],
                 \/ UNCHANGED lowWaterMark
                 \/ /\ b.height > lowWaterMark[n]
                    /\ lowWaterMark' = [lowWaterMark EXCEPT ![n] = b.height]
          PROVE  [Abstract!Next]_Abstract!vars
      <4>1. InLaterView[n] <=> view[n] > 0
        BY DEF InLaterView
      <4>2. Abstract!Take(n, b)
        BY <2>1, <3>1, <3>3, <4>1 DEF Abstract!Take
      <4> QED BY <4>2 DEF Abstract!Next
    <3> QED BY <2>2, <3>2, <3>3, CommitTakes
  <2>3. CASE HandleViewChange(n, m) \/ HandleNewView(n, m)
    <3>1. UNCHANGED <<committedBlocks, lowWaterMark>>
      BY <2>3 DEF HandleViewChange, HandleNewView
    <3>2. CASE UNCHANGED InLaterView
      BY <1>1, <2>1, <3>1, <3>2
    <3>3. CASE InLaterView' = [InLaterView EXCEPT ![n] = TRUE]
      <4>1. Abstract!Renew(n)
        BY <2>1, <3>1, <3>3 DEF Abstract!Renew
      <4> QED BY <4>1 DEF Abstract!Next
    <3> QED BY <2>3, <3>2, <3>3, ViewChangeRenews
  <2>4. CASE HandlePrePrepare(n, m) \/ HandlePrepare(n, m) \/ ReturnEarly(n, m)
    <3>1. UNCHANGED <<committedBlocks, lowWaterMark, view>>
      BY <2>4 DEF HandlePrePrepare, HandlePrepare, ReturnEarly, engineVars
    <3> QED BY <1>1, <2>1, <3>1 DEF InLaterView
  <2> QED BY <1>3, <2>2, <2>3, <2>4 DEF HandleMessage
<1>4. ASSUME NEW n \in Node \ Down, SkipSequence(n) \/ TimerFires(n) \/ StartViewChange(n)
      PROVE  [Abstract!Next]_Abstract!vars
  <2>1. ProposedBlocks' = ProposedBlocks
    BY <1>4, OthersProposeNothing
  <2>2. UNCHANGED <<committedBlocks, lowWaterMark, view>>
    BY <1>4 DEF SkipSequence, TimerFires, StartViewChange, engineVars
  <2> QED BY <1>1, <2>1, <2>2 DEF InLaterView
<1>5. CASE UNCHANGED vars
  BY <1>1, <1>5 DEF ProposedBlocks, InLaterView, vars, engineVars, netVars
<1> QED BY <1>2, <1>3, <1>4, <1>5 DEF Next

\* What the proofs about the ledger rest on holds at the start.
LEMMA LedgerInit ==
  Init => VotesWereCast /\ ViewChangesWereSent /\ BlocksWereProposed /\ ExecutedIsKept
<1>1. Init => VotesWereCast /\ ViewChangesWereSent /\ BlocksWereProposed
  BY DEF Init, VotesWereCast, ViewChangesWereSent, BlocksWereProposed, OnePerSender
<1>2. Init => ExecutedIsKept
  BY DEF Init, ExecutedIsKept, Kept
<1> QED BY <1>1, <1>2

-----------------------------------------------------------------------------
\* The engine implements the ledger, for every number of validators and views,
\* window, checkpoint interval, failure of the application and loss of messages:
\* a validator takes a height again only after a view change and only where a
\* checkpoint has dropped the state (proposeBlock, executeBlock, createCheckpoint,
\* handleNewView).
THEOREM Refinement == Spec => ImplementsLedger
<1>1. Init => Abstract!Init
  <2> SUFFICES ASSUME Init PROVE Abstract!Init
    OBVIOUS
  <2>1. \A n \in Node : (view[n] > 0) = FALSE
    BY DEF Init
  <2>2. InLaterView = [n \in Node |-> FALSE]
    BY <2>1, Zenon DEF InLaterView
  <2> QED BY <2>2 DEF Init, Abstract!Init, ProposedBlocks
<1>2. TypeOK /\ VotesWereCast /\ ExecutedIsKept /\ [Next]_vars => ExecutedIsKept'
  BY KeptStep
<1>3. TypeOK /\ TypeOK' /\ VotesWereCast /\ BlocksWereProposed /\ ExecutedIsKept
        /\ [Next]_vars => [Abstract!Next]_Abstract!vars
  BY LedgerStep
<1>4. QED
  BY <1>1, <1>2, <1>3, LedgerInit, TypeCorrect, BlocksProposed, VotesStep, PTL
  DEF Spec, ImplementsLedger, Abstract!Spec

\* One node takes a block: two blocks of one height in its list are as they were,
\* or the height is below the mark of a node in a later view.
LEMMA OnceTake ==
  ASSUME TypeOK, TypeOK', ExecutedOnce, UNCHANGED InLaterView,
         \A k \in Node : lowWaterMark[k] <= lowWaterMark'[k],
         NEW n \in Node, NEW b \in Blocks,
         \A i \in 1 .. Len(committedBlocks[n]) :
           committedBlocks[n][i].height = b.height
             => InLaterView[n] /\ b.height <= lowWaterMark[n],
         committedBlocks' = [committedBlocks EXCEPT ![n] = Append(@, b)]
  PROVE  ExecutedOnce'
<1>1. PICK list, more : list = committedBlocks[n] /\ more = Append(list, b)
  OBVIOUS
<1>2. list \in Seq(Blocks) /\ \A c \in Blocks : c.height \in Nat
  BY <1>1, BoundsAssumption DEF TypeOK, Blocks, Seqs
<1>3. /\ Len(more) = Len(list) + 1 /\ Len(list) \in Nat
      /\ more[Len(list) + 1] = b
      /\ \A i \in 1 .. Len(list) : more[i] = list[i]
  BY <1>1, <1>2
<1>4. \A k \in Node : /\ lowWaterMark[k] \in Nat /\ lowWaterMark'[k] \in Nat
                      /\ InLaterView[k] <=> view[k] > 0
                      /\ InLaterView[k] <=> view'[k] > 0
  <2>1. \A k \in Node : (InLaterView')[k] <=> view'[k] > 0
    BY DEF InLaterView
  <2> QED BY <2>1, BoundsAssumption DEF InLaterView, TypeOK
<1>5. ASSUME NEW i \in 1 .. Len(more), NEW j \in 1 .. Len(more), i # j,
             more[i].height = more[j].height
      PROVE  InLaterView[n] /\ more[i].height <= lowWaterMark[n]
  <2>1. (i \in 1 .. Len(list) \/ i = Len(list) + 1) /\ (j \in 1 .. Len(list) \/ j = Len(list) + 1)
    BY <1>3
  <2>2. CASE i \in 1 .. Len(list) /\ j \in 1 .. Len(list)
    BY <1>1, <1>3, <1>4, <1>5, <2>2 DEF ExecutedOnce
  <2>3. CASE i = Len(list) + 1 /\ j \in 1 .. Len(list)
    BY <1>1, <1>3, <1>5, <2>3
  <2>4. CASE i \in 1 .. Len(list) /\ j = Len(list) + 1
    BY <1>1, <1>3, <1>5, <2>4
  <2> QED BY <1>5, <2>1, <2>2, <2>3, <2>4
<1>6. \A k \in Node : committedBlocks'[k] = IF k = n THEN more ELSE committedBlocks[k]
  BY <1>1 DEF TypeOK
<1> SUFFICES ASSUME NEW k \in Node,
                    NEW i \in 1 .. Len(committedBlocks'[k]),
                    NEW j \in 1 .. Len(committedBlocks'[k]), i # j,
                    committedBlocks'[k][i].height = committedBlocks'[k][j].height
             PROVE  view'[k] > 0 /\ committedBlocks'[k][i].height <= lowWaterMark'[k]
  BY DEF ExecutedOnce
<1>7. CASE k = n
  <2>1. InLaterView[n] /\ more[i].height <= lowWaterMark[n]
    BY <1>5, <1>6, <1>7
  <2>2. i \in 1 .. Len(more) /\ more \in Seq(Blocks)
    BY <1>1, <1>2, <1>6, <1>7
  <2>3. more[i].height \in Nat
    BY <1>2, <2>2
  <2>4. committedBlocks'[k][i].height = more[i].height
    BY <1>6, <1>7
  <2> QED BY <1>4, <1>7, <2>1, <2>3, <2>4
<1>8. CASE k # n
  <2>1. committedBlocks[k] \in Seq(Blocks) /\ committedBlocks'[k] = committedBlocks[k]
    BY <1>6, <1>8 DEF TypeOK
  <2>2. /\ i \in 1 .. Len(committedBlocks[k]) /\ j \in 1 .. Len(committedBlocks[k])
        /\ committedBlocks[k][i].height = committedBlocks[k][j].height
    BY <2>1
  <2>3. committedBlocks[k][i].height \in Nat
    BY <1>2, <2>1, <2>2
  <2>4. view[k] > 0 /\ committedBlocks[k][i].height <= lowWaterMark[k]
    BY <2>2 DEF ExecutedOnce
  <2>5. view'[k] > 0
    BY <1>4, <2>4
  <2>6. committedBlocks[k][i].height <= lowWaterMark'[k]
    <3>1. PICK h : h = committedBlocks[k][i].height
      OBVIOUS
    <3>2. h \in Nat /\ h <= lowWaterMark[k]
      BY <2>3, <2>4, <3>1
    <3>3. h <= lowWaterMark'[k]
      BY <1>4, <3>2
    <3> QED BY <3>1, <3>3
  <2> QED BY <2>1, <2>5, <2>6
<1> QED BY <1>7, <1>8

\* Nobody takes a block: views and marks only grow.
LEMMA OnceOther ==
  ASSUME TypeOK, TypeOK', ExecutedOnce, UNCHANGED <<committedBlocks, lowWaterMark>>,
         \A k \in Node : InLaterView[k] => InLaterView'[k]
  PROVE  ExecutedOnce'
<1>1. \A k \in Node : view[k] > 0 => view'[k] > 0
  BY DEF InLaterView
<1> QED BY <1>1 DEF ExecutedOnce

\* No validator executes a height twice, except below its low water mark and
\* after a view change (executeBlock, AdvanceWatermarks, reprocessPrePrepare).
THEOREM HeightsExecutedOnce == Spec => []ExecutedOnce
<1>1. Init => ExecutedOnce
  BY DEF Init, ExecutedOnce
<1>2. TypeOK /\ TypeOK' /\ VotesWereCast /\ BlocksWereProposed /\ ExecutedIsKept
        /\ ExecutedOnce /\ [Next]_vars => ExecutedOnce'
  <2> SUFFICES ASSUME TypeOK, TypeOK', VotesWereCast, BlocksWereProposed, ExecutedIsKept,
                      ExecutedOnce, [Next]_vars
               PROVE  ExecutedOnce'
    OBVIOUS
  <2>1. [Abstract!Next]_Abstract!vars
    BY LedgerStep
  <2>2. \A k \in Node : lowWaterMark[k] \in Nat
    BY BoundsAssumption DEF TypeOK
  <2>3. CASE UNCHANGED Abstract!vars \/ \E b \in Blocks : Abstract!Choose(b)
    BY <2>3, OnceOther DEF Abstract!vars, Abstract!Choose
  <2>4. ASSUME NEW n \in Node, Abstract!Renew(n)
        PROVE  ExecutedOnce'
    BY <2>4, OnceOther DEF Abstract!Renew, InLaterView
  <2>5. ASSUME NEW n \in Node, NEW b \in Blocks, Abstract!Take(n, b)
        PROVE  ExecutedOnce'
    <3>1. /\ UNCHANGED InLaterView
          /\ \A i \in 1 .. Len(committedBlocks[n]) :
               committedBlocks[n][i].height = b.height
                 => InLaterView[n] /\ b.height <= lowWaterMark[n]
          /\ committedBlocks' = [committedBlocks EXCEPT ![n] = Append(@, b)]
      BY <2>5 DEF Abstract!Take
    <3>2. b.height \in Nat
      BY BoundsAssumption DEF Blocks, Seqs
    <3>3. \A k \in Node : lowWaterMark[k] <= lowWaterMark'[k]
      BY <2>2, <2>5, <3>2 DEF Abstract!Take, TypeOK
    <3> QED BY <3>1, <3>3, OnceTake
  <2> QED BY <2>1, <2>3, <2>4, <2>5 DEF Abstract!Next
<1>3. TypeOK /\ VotesWereCast /\ ExecutedIsKept /\ [Next]_vars => ExecutedIsKept'
  BY KeptStep
<1> QED BY <1>1, <1>2, <1>3, LedgerInit, TypeCorrect, BlocksProposed, VotesStep, PTL DEF Spec

-----------------------------------------------------------------------------
(***************************************************************************)
(* CheckpointWindow, node by node.                                         *)
(***************************************************************************)
Window(log, low, cps, list, v) ==
  /\ Cardinality(cps) <= 3
  /\ \A c \in cps : c <= low /\ \E i \in 1 .. Len(list) : list[i].height = c
  /\ low \in cps \cup {0}
  /\ \A s \in Seqs : v = 0 /\ log[s] # NoState => s > low /\ s <= low + WindowSize

LEMMA WindowByNode ==
  CheckpointWindow <=>
    \A n \in Node :
      Window(stateLog[n], lowWaterMark[n], checkpoints[n], committedBlocks[n], view[n])
BY DEF CheckpointWindow, Window, Executed, IsInWindow

\* Only node n changes.
LEMMA WindowLocal ==
  ASSUME TypeOK, CheckpointWindow, NEW n \in Node, NEW log, NEW low, NEW cps, NEW list, NEW v,
         stateLog' = [stateLog EXCEPT ![n] = log],
         lowWaterMark' = [lowWaterMark EXCEPT ![n] = low],
         checkpoints' = [checkpoints EXCEPT ![n] = cps],
         committedBlocks' = [committedBlocks EXCEPT ![n] = list],
         view' = [view EXCEPT ![n] = v],
         Window(log, low, cps, list, v)
  PROVE  CheckpointWindow'
<1>1. \A k \in Node : k # n =>
        /\ stateLog'[k] = stateLog[k] /\ lowWaterMark'[k] = lowWaterMark[k]
        /\ checkpoints'[k] = checkpoints[k] /\ committedBlocks'[k] = committedBlocks[k]
        /\ view'[k] = view[k]
  BY DEF TypeOK
<1>2. /\ stateLog'[n] = log /\ lowWaterMark'[n] = low
      /\ checkpoints'[n] = cps /\ committedBlocks'[n] = list /\ view'[n] = v
  BY DEF TypeOK
<1>3. \A k \in Node :
        Window(stateLog'[k], lowWaterMark'[k], checkpoints'[k], committedBlocks'[k], view'[k])
  BY <1>1, <1>2, WindowByNode
<1> QED BY <1>3 DEF CheckpointWindow, Window, Executed, IsInWindow

\* One entry of the log of n changes, inside the window if n is in view 0.
LEMMA WindowEntry ==
  ASSUME TypeOK, CheckpointWindow, NEW n \in Node, NEW h \in Seqs, NEW st,
         view[n] = 0 => IsInWindow(n, h),
         stateLog' = [stateLog EXCEPT ![n][h] = st],
         UNCHANGED <<view, lowWaterMark, checkpoints, committedBlocks>>
  PROVE  CheckpointWindow'
<1>1. PICK log : log = [stateLog[n] EXCEPT ![h] = st]
  OBVIOUS
<1>2. /\ stateLog' = [stateLog EXCEPT ![n] = log]
      /\ lowWaterMark' = [lowWaterMark EXCEPT ![n] = lowWaterMark[n]]
      /\ checkpoints' = [checkpoints EXCEPT ![n] = checkpoints[n]]
      /\ committedBlocks' = [committedBlocks EXCEPT ![n] = committedBlocks[n]]
      /\ view' = [view EXCEPT ![n] = view[n]]
  BY <1>1 DEF TypeOK
<1>3. Window(stateLog[n], lowWaterMark[n], checkpoints[n], committedBlocks[n], view[n])
  BY WindowByNode
<1>4. \A s \in Seqs : log[s] = IF s = h THEN st ELSE stateLog[n][s]
  BY <1>1 DEF TypeOK
<1>5. Window(log, lowWaterMark[n], checkpoints[n], committedBlocks[n], view[n])
  <2>1. \A s \in Seqs : view[n] = 0 /\ log[s] # NoState =>
          s > lowWaterMark[n] /\ s <= lowWaterMark[n] + WindowSize
    <3> SUFFICES ASSUME NEW s \in Seqs, view[n] = 0, log[s] # NoState
                 PROVE  s > lowWaterMark[n] /\ s <= lowWaterMark[n] + WindowSize
      OBVIOUS
    <3>1. CASE s = h
      BY <3>1 DEF IsInWindow
    <3>2. CASE s # h
      BY <1>3, <1>4, <3>2 DEF Window
    <3> QED BY <3>1, <3>2
  <2> QED BY <1>3, <2>1 DEF Window
<1>6. PICK low, cps, list, v :
        /\ low = lowWaterMark[n] /\ cps = checkpoints[n]
        /\ list = committedBlocks[n] /\ v = view[n]
  OBVIOUS
<1>7. /\ lowWaterMark' = [lowWaterMark EXCEPT ![n] = low]
      /\ checkpoints' = [checkpoints EXCEPT ![n] = cps]
      /\ committedBlocks' = [committedBlocks EXCEPT ![n] = list]
      /\ view' = [view EXCEPT ![n] = v]
      /\ Window(log, low, cps, list, v)
  BY <1>2, <1>5, <1>6
<1> QED BY <1>2, <1>7, WindowLocal

\* In view 0 a state that exists is of a height in the window.
LEMMA VotesInWindow ==
  ASSUME CheckpointWindow, NEW n \in Node, NEW h \in Seqs, stateLog[n][h] # NoState
  PROVE  view[n] = 0 => IsInWindow(n, h)
BY DEF CheckpointWindow

\* With one more checkpoint at most three are kept, the newest of all among them.
LEMMA NewestKept ==
  ASSUME NEW cps \in SUBSET Seqs, Cardinality(cps) <= 3, NEW s \in Seqs
  PROVE  /\ Cardinality(KeepNewest(cps \cup {s})) <= 3
         /\ KeepNewest(cps \cup {s}) \subseteq cps \cup {s}
         /\ \A c \in cps \cup {s} :
              (\A d \in cps \cup {s} : d <= c) => c \in KeepNewest(cps \cup {s})
<1> DEFINE all == cps \cup {s}
           newest == {c \in all : \E d \in all : d < c}
<1>1. IsFiniteSet(Seqs) /\ Seqs \subseteq Nat
  BY FS_Interval, BoundsAssumption DEF Seqs
<1>2. IsFiniteSet(cps) /\ Cardinality(cps) \in Nat
  BY <1>1, FS_Subset, FS_CardinalityType
<1>3. IsFiniteSet(all) /\ Cardinality(all) \in Nat /\ Cardinality(all) <= 4
  <2>1. /\ IsFiniteSet(all)
        /\ Cardinality(all) = IF s \in cps THEN Cardinality(cps) ELSE Cardinality(cps) + 1
    BY <1>2, FS_AddElement
  <2> QED BY <1>2, <2>1
<1>4. CASE Cardinality(all) > 3
  <2>1. KeepNewest(all) = newest
    BY <1>4 DEF KeepNewest
  <2>2. PICK x \in all : \A y \in all : ~(y < x)
    <3>1. PICK x \in all : \A y \in all : x <= y
      BY <1>1, SmallestExists
    <3>2. \A y \in all : y \in Nat
      BY <1>1
    <3>3. \A y \in all : ~(y < x)
      BY <3>1, <3>2
    <3> QED BY <3>3
  <2>3. newest \subseteq all /\ newest # all
    BY <2>2
  <2>4. Cardinality(newest) \in Nat /\ Cardinality(newest) < Cardinality(all)
    <3>1. PICK S, T : S = newest /\ T = all
      OBVIOUS
    <3>2. IsFiniteSet(T) /\ S \subseteq T /\ S # T
      BY <1>3, <2>3, <3>1
    <3>3. Cardinality(S) \in Nat /\ Cardinality(S) < Cardinality(T)
      BY <3>2, FS_Subset, FS_CardinalityType
    <3> QED BY <3>1, <3>3
  <2>5. ASSUME NEW c \in all, \A d \in all : d <= c
        PROVE  c \in newest
    <3>1. all # {c}
      <4>1. Cardinality({c}) = 1
        BY FS_Singleton
      <4> QED BY <1>4, <4>1
    <3>2. PICK d \in all : d # c
      BY <3>1
    <3>3. d <= c /\ d \in Nat /\ c \in Nat
      BY <1>1, <2>5
    <3> QED BY <3>2, <3>3
  <2> QED BY <1>3, <2>1, <2>3, <2>4, <2>5
<1>5. CASE ~(Cardinality(all) > 3)
  BY <1>3, <1>5 DEF KeepNewest
<1> QED BY <1>4, <1>5

\* createCheckpoint at a height that was just executed; only in a later view can
\* it lie below the low water mark.
LEMMA WindowCheckpoint ==
  ASSUME NEW log \in [Seqs -> States \cup {NoState}], NEW low \in Nat,
         NEW cps \in SUBSET Seqs, NEW list, NEW v, NEW h \in Seqs, v = 0 => h > low,
         Window(log, low, cps, list, v), \E i \in 1 .. Len(list) : list[i].height = h,
         NEW top, top = IF h > low THEN h ELSE low
  PROVE  Window(CollectGarbage(log, low, h), top, KeepNewest(cps \cup {h}), list, v)
<1>1. /\ Cardinality(KeepNewest(cps \cup {h})) <= 3
      /\ KeepNewest(cps \cup {h}) \subseteq cps \cup {h}
      /\ \A c \in cps \cup {h} :
           (\A d \in cps \cup {h} : d <= c) => c \in KeepNewest(cps \cup {h})
  BY NewestKept DEF Window
<1>2. Seqs \subseteq Nat /\ h \in Nat /\ h > 0 /\ top \in Nat /\ top > 0
  BY BoundsAssumption DEF Seqs
<1>3. \A c \in cps \cup {h} : c \in Nat /\ c <= top /\ \E i \in 1 .. Len(list) : list[i].height = c
  <2>1. ASSUME NEW c \in cps
        PROVE  c \in Nat /\ c <= top /\ \E i \in 1 .. Len(list) : list[i].height = c
    <3>1. c \in Nat /\ c <= low
      BY <1>2 DEF Window
    <3>2. c <= top
      BY <1>2, <3>1
    <3> QED BY <3>1, <3>2 DEF Window
  <2>2. h <= top
    BY <1>2
  <2> QED BY <1>2, <2>1, <2>2
<1>4. top \in cps \cup {h}
  BY <1>2 DEF Window
<1>5. top \in KeepNewest(cps \cup {h})
  BY <1>1, <1>3, <1>4
<1>6. \A s \in Seqs : v = 0 /\ CollectGarbage(log, low, h)[s] # NoState
        => s > top /\ s <= top + WindowSize
  <2> SUFFICES ASSUME NEW s \in Seqs, v = 0, CollectGarbage(log, low, h)[s] # NoState
               PROVE  s > h /\ s <= h + WindowSize
    OBVIOUS
  <2>1. CollectGarbage(log, low, h)[s] = IF s <= h THEN NoState ELSE log[s]
    BY DEF CollectGarbage
  <2>2. ~(s <= h) /\ s <= low + WindowSize
    BY <2>1 DEF Window
  <2> QED BY <1>2, <2>2, BoundsAssumption
<1> QED BY <1>1, <1>3, <1>5, <1>6 DEF Window

\* handleCommit.
LEMMA WindowCommit ==
  ASSUME TypeOK, VotesWereCast, CheckpointWindow, NEW n \in Node, NEW m \in Pending(n),
         HandleCommit(n, m)
  PROVE  CheckpointWindow'
<1>1. PICK h \in Seqs : \E st \in States :
         /\ stateLog[n][h] \in States /\ stateLog[n][h] # NoState
         /\ st.executed = stateLog[n][h].executed /\ st.block = stateLog[n][h].block
         /\ \/ /\ stateLog' = [stateLog EXCEPT ![n][h] = st]
               /\ UNCHANGED <<committedBlocks, checkpoints, lowWaterMark>>
            \/ /\ ~st.executed
               /\ ExecuteBlock(n, h, st)
  BY CommitCases
<1>2. PICK st \in States :
         /\ stateLog[n][h] \in States /\ stateLog[n][h] # NoState
         /\ st.executed = stateLog[n][h].executed /\ st.block = stateLog[n][h].block
         /\ \/ /\ stateLog' = [stateLog EXCEPT ![n][h] = st]
               /\ UNCHANGED <<committedBlocks, checkpoints, lowWaterMark>>
            \/ /\ ~st.executed
               /\ ExecuteBlock(n, h, st)
  BY <1>1
<1>3. /\ view[n] = 0 => IsInWindow(n, h)
      /\ view' = view
  BY <1>2, VotesInWindow DEF HandleCommit
<1>4. CASE /\ stateLog' = [stateLog EXCEPT ![n][h] = st]
           /\ UNCHANGED <<committedBlocks, checkpoints, lowWaterMark>>
  BY <1>3, <1>4, WindowEntry
<1>5. CASE ExecuteBlock(n, h, st)
  <2>1. st.block \in Blocks /\ st.block.height = h
    BY <1>2 DEF VotesWereCast, States
  <2>2. PICK done : done = [st EXCEPT !.executed = TRUE]
    OBVIOUS
  <2>3. PICK log : log = [stateLog[n] EXCEPT ![h] = done]
    OBVIOUS
  <2>4. PICK list : list = Append(committedBlocks[n], st.block)
    OBVIOUS
  <2>5. done \in States
    BY <2>2 DEF States
  <2>6. PICK low : low = lowWaterMark[n]
    OBVIOUS
  <2>7. PICK cps : cps = checkpoints[n]
    OBVIOUS
  <2>8. /\ log \in [Seqs -> States \cup {NoState}] /\ low \in Nat /\ cps \in SUBSET Seqs
        /\ committedBlocks[n] \in Seq(Blocks) /\ (view[n] = 0 => h > low)
    BY <1>3, <2>3, <2>5, <2>6, <2>7, BoundsAssumption DEF TypeOK, IsInWindow
  <2>9. \A c : (\E i \in 1 .. Len(committedBlocks[n]) : committedBlocks[n][i].height = c)
               => \E i \in 1 .. Len(list) : list[i].height = c
    BY <2>4, <2>8
  <2>10. \E i \in 1 .. Len(list) : list[i].height = h
    <3>1. Len(list) \in 1 .. Len(list) /\ list[Len(list)] = st.block
      BY <2>1, <2>4, <2>8
    <3> QED BY <2>1, <3>1
  <2>11. \A s \in Seqs : log[s] = IF s = h THEN done ELSE stateLog[n][s]
    BY <2>3 DEF TypeOK
  <2>12. Window(stateLog[n], low, cps, committedBlocks[n], view[n])
    BY <2>6, <2>7, WindowByNode
  <2>13. PICK v : v = view[n]
    OBVIOUS
  <2>14. Window(log, low, cps, list, v)
    BY <1>3, <2>6, <2>9, <2>11, <2>12, <2>13 DEF Window, IsInWindow
  <2>15. /\ committedBlocks' = [committedBlocks EXCEPT ![n] = list]
         /\ view' = [view EXCEPT ![n] = v]
    BY <1>3, <1>5, <2>4, <2>13 DEF ExecuteBlock, TypeOK
  <2>16. CASE CreateCheckpoint(n, h, log)
    <3>1. PICK left : left = CollectGarbage(log, low, h)
      OBVIOUS
    <3>2. PICK newest : newest = KeepNewest(cps \cup {h})
      OBVIOUS
    <3>3. PICK top : top = IF h > low THEN h ELSE low
      OBVIOUS
    <3>4. Window(left, top, newest, list, v)
      BY <2>8, <2>10, <2>13, <2>14, <3>1, <3>2, <3>3, WindowCheckpoint
    <3>5. /\ stateLog' = [stateLog EXCEPT ![n] = left]
          /\ lowWaterMark' = [lowWaterMark EXCEPT ![n] = top]
          /\ checkpoints' = [checkpoints EXCEPT ![n] = newest]
      BY <2>6, <2>7, <2>8, <2>16, <3>1, <3>2, <3>3 DEF CreateCheckpoint
    <3> QED BY <2>15, <3>4, <3>5, WindowLocal
  <2>17. CASE /\ stateLog' = [stateLog EXCEPT ![n] = log]
              /\ UNCHANGED <<checkpoints, lowWaterMark>>
    <3>1. /\ lowWaterMark' = [lowWaterMark EXCEPT ![n] = low]
          /\ checkpoints' = [checkpoints EXCEPT ![n] = cps]
      BY <2>6, <2>7, <2>17 DEF TypeOK
    <3> QED BY <2>14, <2>15, <2>17, <3>1, WindowLocal
  <2> QED BY <1>5, <2>2, <2>3, <2>16, <2>17 DEF ExecuteBlock
<1> QED BY <1>2, <1>4, <1>5

\* A view change touches no checkpoint, mark or list.
LEMMA WindowViewChange ==
  ASSUME TypeOK, CheckpointWindow, NEW n \in Node, NEW m \in Pending(n),
         HandleViewChange(n, m) \/ HandleNewView(n, m)
  PROVE  CheckpointWindow'
<1>1. UNCHANGED <<lowWaterMark, checkpoints, committedBlocks>>
  BY DEF HandleViewChange, HandleNewView
<1>2. \A k \in Node : view'[k] = 0 => view[k] = 0 /\ stateLog'[k] = stateLog[k]
  BY FirstViewEnds
<1> QED BY <1>1, <1>2 DEF CheckpointWindow, Executed, IsInWindow

\* Every step keeps the window.
LEMMA WindowStep ==
  ASSUME TypeOK, VotesWereCast, CheckpointWindow, [Next]_vars
  PROVE  CheckpointWindow'
<1>1. CASE UNCHANGED <<view, stateLog, lowWaterMark, checkpoints, committedBlocks>>
  BY <1>1 DEF CheckpointWindow, Executed, IsInWindow
<1>2. ASSUME NEW n \in Node \ Down, NEW tx \in Txs, ProposeBlock(n, tx)
      PROVE  CheckpointWindow'
  <2>1. PICK h : h = NextSequence(n)
    OBVIOUS
  <2>2. PICK st : stateLog' = [stateLog EXCEPT ![n][h] = st]
    BY <1>2, <2>1 DEF ProposeBlock
  <2>3. /\ h \in Seqs /\ IsInWindow(n, h)
        /\ UNCHANGED <<view, lowWaterMark, checkpoints, committedBlocks>>
    BY <1>2, <2>1 DEF ProposeBlock
  <2> QED BY <2>2, <2>3, WindowEntry
<1>3. ASSUME NEW n \in Node \ Down, NEW m \in Pending(n),
             HandlePrePrepare(n, m) \/ HandlePrepare(n, m)
      PROVE  CheckpointWindow'
  <2>1. m \in PhaseMsgs
    BY <1>3, MessageKinds DEF TypeOK, Pending, HandlePrePrepare, HandlePrepare
  <2>2. PICK h : h = m.block.height
    OBVIOUS
  <2>3. h \in Seqs
    BY <2>1, <2>2 DEF PhaseMsgs, Blocks
  <2>4. PICK st : stateLog' = [stateLog EXCEPT ![n][h] = st]
    BY <1>3, <2>2 DEF HandlePrePrepare, HandlePrepare
  <2>5. view[n] = 0 => IsInWindow(n, h)
    BY <1>3, <2>2, <2>3, VotesInWindow
    DEF HandlePrePrepare, TakesPrePrepare, HandlePrepare, TakesVote
  <2>6. UNCHANGED <<view, lowWaterMark, checkpoints, committedBlocks>>
    BY <1>3 DEF HandlePrePrepare, HandlePrepare
  <2> QED BY <2>3, <2>4, <2>5, <2>6, WindowEntry
<1>4. ASSUME NEW n \in Node \ Down, NEW m \in Pending(n), HandleMessage(n, m)
      PROVE  CheckpointWindow'
  <2>1. CASE ReturnEarly(n, m)
    BY <1>1, <2>1 DEF ReturnEarly, engineVars
  <2> QED BY <1>3, <1>4, <2>1, WindowCommit, WindowViewChange DEF HandleMessage
<1>5. ASSUME NEW n \in Node \ Down, SkipSequence(n) \/ TimerFires(n) \/ StartViewChange(n)
      PROVE  CheckpointWindow'
  BY <1>1, <1>5 DEF SkipSequence, TimerFires, StartViewChange, engineVars
<1>6. CASE UNCHANGED vars
  BY <1>1, <1>6 DEF vars, engineVars
<1> QED BY <1>2, <1>4, <1>5, <1>6 DEF Next

\* A validator keeps at most three checkpoints, all of heights it executed, and
\* its low water mark is the newest of them, even when after a view change it
\* executes a height below the mark again; before its first view change its log
\* has no state outside the window (createCheckpoint, AdvanceWatermarks).
THEOREM WindowKept == Spec => []CheckpointWindow
<1>1. Init => VotesWereCast /\ CheckpointWindow
  BY FS_EmptySet DEF Init, VotesWereCast, CheckpointWindow
<1>2. TypeOK /\ VotesWereCast /\ CheckpointWindow /\ [Next]_vars => CheckpointWindow'
  BY WindowStep
<1> QED BY <1>1, <1>2, TypeCorrect, VotesStep, PTL DEF Spec

-----------------------------------------------------------------------------
(***************************************************************************)
(* A node that has not been through a view change holds and executes       *)
(* blocks of the first view only, so it agrees with the others like it.    *)
(***************************************************************************)
FirstView(log, list) ==
  /\ \A s \in Seqs : log[s] # NoState => log[s].block.view = 0
  /\ \A i \in 1 .. Len(list) : list[i].view = 0

FirstViewOnly == \A n \in Node : view[n] = 0 => FirstView(stateLog[n], committedBlocks[n])

\* One entry of one log changes, to the state of a block of the first view if the
\* node is in it.
LEMMA FirstViewEntry ==
  ASSUME TypeOK, FirstViewOnly, NEW n \in Node, NEW h \in Seqs, NEW st,
         view[n] = 0 => st.block.view = 0,
         stateLog' = [stateLog EXCEPT ![n][h] = st],
         UNCHANGED <<view, committedBlocks>>
  PROVE  FirstViewOnly'
<1>1. \A k \in Node, s \in Seqs :
        stateLog'[k][s] = IF k = n /\ s = h THEN st ELSE stateLog[k][s]
  BY DEF TypeOK
<1> QED BY <1>1 DEF FirstViewOnly, FirstView

\* handleCommit.
LEMMA FirstViewCommit ==
  ASSUME TypeOK, FirstViewOnly, NEW n \in Node, NEW m \in Pending(n), HandleCommit(n, m)
  PROVE  FirstViewOnly'
<1>1. PICK h \in Seqs, st \in States :
         /\ stateLog[n][h] \in States /\ stateLog[n][h] # NoState
         /\ st.executed = stateLog[n][h].executed /\ st.block = stateLog[n][h].block
         /\ \/ /\ stateLog' = [stateLog EXCEPT ![n][h] = st]
               /\ UNCHANGED <<committedBlocks, checkpoints, lowWaterMark>>
            \/ /\ ~st.executed
               /\ ExecuteBlock(n, h, st)
  BY CommitCases
<1>2. UNCHANGED view
  BY DEF HandleCommit
<1>3. view[n] = 0 => st.block.view = 0
  BY <1>1 DEF FirstViewOnly, FirstView
<1>4. CASE stateLog' = [stateLog EXCEPT ![n][h] = st] /\ UNCHANGED committedBlocks
  BY <1>2, <1>3, <1>4, FirstViewEntry
<1>5. CASE ExecuteBlock(n, h, st)
  <2>1. PICK done : done = [st EXCEPT !.executed = TRUE]
    OBVIOUS
  <2>2. done.block = st.block
    BY <1>1, <2>1, BlockKept
  <2>3. PICK log : log = [stateLog[n] EXCEPT ![h] = done]
    OBVIOUS
  <2>4. PICK list : list = Append(committedBlocks[n], st.block)
    OBVIOUS
  <2>5. /\ committedBlocks' = [committedBlocks EXCEPT ![n] = list]
        /\ \/ stateLog' = [stateLog EXCEPT ![n] = log]
           \/ stateLog' = [stateLog EXCEPT ![n] = CollectGarbage(log, lowWaterMark[n], h)]
    BY <1>5, <2>1, <2>3, <2>4 DEF ExecuteBlock, CreateCheckpoint
  <2>6. \A s \in Seqs : log[s] = IF s = h THEN done ELSE stateLog[n][s]
    BY <2>3 DEF TypeOK
  <2>7. \A s \in Seqs :
          \/ CollectGarbage(log, lowWaterMark[n], h)[s] = NoState
          \/ CollectGarbage(log, lowWaterMark[n], h)[s] = log[s]
    <3>1. DOMAIN log = Seqs
      BY <2>3 DEF TypeOK
    <3> QED BY <3>1 DEF CollectGarbage
  <2>8. \A s \in Seqs : stateLog'[n][s] \in {NoState, done, stateLog[n][s]}
    BY <2>5, <2>6, <2>7 DEF TypeOK
  <2>9. \A i \in 1 .. Len(list) : list[i] = st.block \/
          (i \in 1 .. Len(committedBlocks[n]) /\ list[i] = committedBlocks[n][i])
    <3>1. committedBlocks[n] \in Seq(Blocks)
      BY DEF TypeOK
    <3> QED BY <2>4, <3>1
  <2>10. committedBlocks'[n] = list
    BY <2>5 DEF TypeOK
  <2>11. view[n] = 0 => FirstView(stateLog'[n], committedBlocks'[n])
    BY <1>3, <2>2, <2>8, <2>9, <2>10 DEF FirstViewOnly, FirstView
  <2>12. \A k \in Node : k # n => /\ stateLog'[k] = stateLog[k]
                                  /\ committedBlocks'[k] = committedBlocks[k]
    BY <2>5 DEF TypeOK
  <2> QED BY <1>2, <2>11, <2>12 DEF FirstViewOnly, FirstView
<1> QED BY <1>1, <1>4, <1>5

\* Every step keeps it: a pre-prepare of the node's view carries a block of that
\* view, votes keep the block, and a NEW-VIEW ends the first view.
LEMMA FirstViewStep ==
  ASSUME TypeOK, BlocksWereProposed, FirstViewOnly, [Next]_vars
  PROVE  FirstViewOnly'
<1>1. CASE UNCHANGED <<view, stateLog, committedBlocks>>
  BY <1>1 DEF FirstViewOnly
<1>2. ASSUME NEW n \in Node, NEW b \in Blocks, NEW v \in Views, b.view = view[n],
             stateLog' = [stateLog EXCEPT ![n][b.height] =
               AddPrepare(SetPrePrepare(GetState(stateLog[n], b), b), n, Vote(v, b))],
             UNCHANGED <<view, committedBlocks>>
      PROVE  FirstViewOnly'
  <2>1. Vote(v, b) \in Votes /\ b.height \in Seqs
    BY PhaseMsgType DEF Blocks
  <2>2. PICK st : st = AddPrepare(SetPrePrepare(GetState(stateLog[n], b), b), n, Vote(v, b))
    OBVIOUS
  <2>3. st.block = b
    BY <2>1, <2>2, PrePreparedBlock DEF TypeOK
  <2>4. PICK h : h = b.height
    OBVIOUS
  <2> QED BY <1>2, <2>1, <2>2, <2>3, <2>4, FirstViewEntry
<1>3. ASSUME NEW n \in Node \ Down, NEW tx \in Txs, ProposeBlock(n, tx)
      PROVE  FirstViewOnly'
  <2>1. PICK b : b = [height |-> NextSequence(n), view |-> view[n], tx |-> tx,
                      prev |-> LastHeight(n)]
    OBVIOUS
  <2>2. b.height = NextSequence(n) /\ NextSequence(n) \in Seqs /\ b.view = view[n]
          /\ view[n] \in Views
    BY <1>3, <2>1 DEF ProposeBlock, TypeOK
  <2>3. b \in Blocks
    BY <2>1, <2>2, LastHeightType DEF Blocks
  <2>4. /\ stateLog' = [stateLog EXCEPT ![n][b.height] =
              AddPrepare(SetPrePrepare(GetState(stateLog[n], b), b), n, Vote(view[n], b))]
        /\ UNCHANGED <<view, committedBlocks>>
    BY <1>3, <2>1, <2>2 DEF ProposeBlock
  <2> QED BY <1>2, <2>2, <2>3, <2>4
<1>4. ASSUME NEW n \in Node \ Down, NEW m \in Pending(n), HandlePrePrepare(n, m)
      PROVE  FirstViewOnly'
  <2>1. m \in PhaseMsgs /\ m \in sent
    BY <1>4, MessageKinds DEF TypeOK, Pending, HandlePrePrepare
  <2>2. PICK b, v : b = m.block /\ v = m.view
    OBVIOUS
  <2>3. b \in Blocks /\ v \in Views /\ b.view = view[n]
    BY <1>4, <2>1, <2>2
    DEF PhaseMsgs, HandlePrePrepare, TakesPrePrepare, BlocksWereProposed
  <2>4. /\ stateLog' = [stateLog EXCEPT ![n][b.height] =
              AddPrepare(SetPrePrepare(GetState(stateLog[n], b), b), n, Vote(v, b))]
        /\ UNCHANGED <<view, committedBlocks>>
    BY <1>4, <2>2 DEF HandlePrePrepare
  <2> QED BY <1>2, <2>3, <2>4
<1>5. ASSUME NEW n \in Node \ Down, NEW m \in Pending(n), HandlePrepare(n, m)
      PROVE  FirstViewOnly'
  <2>1. m \in PhaseMsgs
    BY <1>5, MessageKinds DEF TypeOK, Pending, HandlePrepare
  <2>2. PICK h, vote, old : /\ h = m.block.height /\ vote = Vote(m.view, m.block)
                            /\ old = stateLog[n][h]
    OBVIOUS
  <2>3. h \in Seqs /\ m.from \in Node /\ vote \in Votes
    BY <2>1, <2>2, PhaseMsgType DEF PhaseMsgs, Blocks
  <2>4. old \in States /\ (view[n] = 0 => old.block.view = 0)
    BY <1>5, <2>2, <2>3 DEF HandlePrepare, TakesVote, TypeOK, FirstViewOnly, FirstView
  <2>5. PICK voted : voted = AddPrepare(old, m.from, vote)
    OBVIOUS
  <2>6. voted \in States /\ voted.block = old.block
    <3>1. old.block \in Blocks
      BY <2>4 DEF States
    <3>2. voted \in States
      BY <2>3, <2>4, <2>5, <3>1, StateOps
    <3>3. voted.block = old.block
      BY <2>4, <2>5, BlockKept
    <3> QED BY <3>2, <3>3
  <2>7. PICK prepared : prepared = [voted EXCEPT !.phase = Prepared]
    OBVIOUS
  <2>8. prepared \in States /\ prepared.block = old.block
    <3>1. old.block \in Blocks
      BY <2>4 DEF States
    <3>2. prepared \in States
      BY <2>3, <2>6, <2>7, <3>1, StateOps
    <3>3. prepared.block = old.block
      BY <2>6, <2>7, BlockKept
    <3> QED BY <3>2, <3>3
  <2>9. PICK st : st = AfterPrepare(n, m)
    OBVIOUS
  <2>10. st = voted \/ st = AddCommit(prepared, n, vote)
    BY <2>2, <2>5, <2>7, <2>9 DEF AfterPrepare
  <2>11. st.block = old.block
    BY <2>6, <2>8, <2>10, BlockKept
  <2>12. stateLog' = [stateLog EXCEPT ![n][h] = st] /\ UNCHANGED <<view, committedBlocks>>
    BY <1>5, <2>2, <2>9 DEF HandlePrepare
  <2> QED BY <2>3, <2>4, <2>11, <2>12, FirstViewEntry
<1>6. ASSUME NEW n \in Node \ Down, NEW m \in Pending(n),
             HandleViewChange(n, m) \/ HandleNewView(n, m)
      PROVE  FirstViewOnly'
  <2>1. /\ UNCHANGED committedBlocks
        /\ \A k \in Node : view'[k] = 0 => view[k] = 0 /\ stateLog'[k] = stateLog[k]
    BY <1>6, FirstViewEnds
  <2> QED BY <2>1 DEF FirstViewOnly
<1>7. ASSUME NEW n \in Node \ Down, NEW m \in Pending(n), HandleMessage(n, m)
      PROVE  FirstViewOnly'
  <2>1. CASE ReturnEarly(n, m)
    BY <1>1, <2>1 DEF ReturnEarly, engineVars
  <2> QED BY <1>4, <1>5, <1>6, <1>7, <2>1, FirstViewCommit DEF HandleMessage
<1>8. ASSUME NEW n \in Node \ Down, SkipSequence(n) \/ TimerFires(n) \/ StartViewChange(n)
      PROVE  FirstViewOnly'
  BY <1>1, <1>8 DEF SkipSequence, TimerFires, StartViewChange, engineVars
<1>9. CASE UNCHANGED vars
  BY <1>1, <1>9 DEF vars, engineVars
<1> QED BY <1>3, <1>7, <1>8, <1>9 DEF Next

\* Validators that have not been through a view change never execute different
\* blocks at one height, for every number of validators, views, proposals and
\* lost messages (handlePrePrepare's view test, proposeBlock's numbers).
THEOREM FirstViewAgreement == Spec => []AgreementInFirstView
<1>1. Init => FirstViewOnly
  BY DEF Init, FirstViewOnly, FirstView
<1>2. TypeOK /\ BlocksWereProposed /\ FirstViewOnly /\ [Next]_vars => FirstViewOnly'
  BY FirstViewStep
<1>3. FirstViewOnly /\ AgreementInView => AgreementInFirstView
  BY DEF FirstViewOnly, FirstView, AgreementInView, AgreementInFirstView, Executed
<1> QED BY <1>1, <1>2, <1>3, TypeCorrect, BlocksProposed, InViewAgreement, PTL DEF Spec

\* As long as no view changes at all, no two validators execute different blocks
\* at one height (what the runs across views refute in general).
THEOREM AgreementWithoutViewChange ==
  ASSUME MaxView = 0
  PROVE  Spec => []Agreement
<1>1. TypeOK /\ AgreementInFirstView => Agreement
  BY DEF TypeOK, Views, AgreementInFirstView, Agreement
<1> QED BY <1>1, TypeCorrect, FirstViewAgreement, PTL
=============================================================================
