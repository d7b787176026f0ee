----------------------- MODULE SignalExecutionLimits -----------------------
(***************************************************************************)
(* Proofs about the limits of a user, and about the locks that keep them:  *)
(* how many trades are active at once, and how many for one signal.  Both  *)
(* are checked under the user's advisory lock against what the worker's    *)
(* transaction sees, and used in the step that creates the trade.  Nobody  *)
(* waits in a circle for those locks.  At the end, SignalExecution is      *)
(* shown to implement the abstract book of trades.                         *)
(***************************************************************************)
EXTENDS SignalExecutionProofs

USE DEF streamVars, dbVars, txVars, workerVars, exchangeVars, countVars

\* The row of a turn stays pending until its outcome or the handler.
Staged ==
  \A w \in Workers :
    pc[w] \in TradeSteps \ HandlerSteps => status[tid[w]] = "pending_entry"

\* What the prechecks found still holds when the trade is created.
Checked ==
  \A w \in Workers : pc[w] = "verify" =>
    /\ Cardinality(ActiveOf(NextUser(w), Live)) < MaxConcurrent
    /\ \A t \in ActiveOf(NextUser(w), Live) : key[t].signal # SignalAt(w)

Limits == CapRespected /\ OneActiveTradePerSignal /\ Checked

-----------------------------------------------------------------------------

LEMMA ActiveFinite ==
  ASSUME TypeOK, NEW u
  PROVE  /\ IsFiniteSet(ActiveOf(u, Live))
         /\ Cardinality(ActiveOf(u, Live)) \in Nat
<1>1. IsFiniteSet(TradeIds)
  BY ConstantsAssumption, FS_Interval DEF TradeIds
<1>2. ActiveOf(u, Live) \in SUBSET TradeIds
  BY LiveType DEF ActiveOf
<1>3. IsFiniteSet(ActiveOf(u, Live))
  BY <1>1, <1>2, FS_Subset
<1> QED
  BY <1>3, FS_CardinalityType

\* Steps after which a user has no active trade that was not active before.
LEMMA ShrinkLimits ==
  ASSUME TypeOK, Limits, key' = key,
         \A u \in Users : ActiveOf(u, Live)' \subseteq ActiveOf(u, Live),
         \A t \in Live' : key[t] \in Keys,
         \A w \in Workers : pc'[w] = "verify" =>
           /\ pc[w] = "verify"
           /\ NextUser(w)' = NextUser(w) /\ NextUser(w) \in Users
           /\ SignalAt(w)' = SignalAt(w)
  PROVE  Limits'
<1>1. \A u \in Users :
        Cardinality(ActiveOf(u, Live)') <= Cardinality(ActiveOf(u, Live))
  BY ActiveFinite, FS_Subset
<1>2. \A u \in Users : /\ Cardinality(ActiveOf(u, Live)) \in Nat
                       /\ Cardinality(ActiveOf(u, Live)') \in Nat
  BY ActiveFinite, FS_Subset, FS_CardinalityType
<1>3. CapRespected'
  BY <1>1, <1>2, ConstantsAssumption DEF Limits, CapRespected
<1>4. OneActiveTradePerSignal'
  <2> SUFFICES ASSUME NEW t \in Live', NEW p \in Live', t # p,
                      status'[t] \in Active, status'[p] \in Active,
                      key'[t].user = key'[p].user
               PROVE  key'[t].signal # key'[p].signal
    BY DEF OneActiveTradePerSignal
  <2>1. key[t].user \in Users
    BY DEF Keys
  <2>2. /\ t \in ActiveOf(key[t].user, Live)'
        /\ p \in ActiveOf(key[t].user, Live)'
    BY DEF ActiveOf
  <2>3. t \in ActiveOf(key[t].user, Live) /\ p \in ActiveOf(key[t].user, Live)
    BY <2>1, <2>2
  <2> QED
    BY <2>3 DEF Limits, OneActiveTradePerSignal, ActiveOf
<1>5. Checked'
  <2> SUFFICES ASSUME NEW w \in Workers, pc'[w] = "verify"
               PROVE  /\ Cardinality(ActiveOf(NextUser(w), Live)') < MaxConcurrent
                      /\ \A t \in ActiveOf(NextUser(w), Live)' :
                           key[t].signal # SignalAt(w)
    BY DEF Checked
  <2> PICK u \in Users : u = NextUser(w)
    OBVIOUS
  <2>1. ActiveOf(NextUser(w), Live)' = ActiveOf(u, Live)'
    BY DEF ActiveOf
  <2>2. /\ Cardinality(ActiveOf(u, Live)) < MaxConcurrent
        /\ \A t \in ActiveOf(u, Live) : key[t].signal # SignalAt(w)
    BY DEF Limits, Checked
  <2>3. Cardinality(ActiveOf(u, Live)') < MaxConcurrent
    BY <2>2, <1>1, <1>2, ConstantsAssumption
  <2> QED
    BY <2>1, <2>2, <2>3
<1> QED
  BY <1>3, <1>4, <1>5 DEF Limits

-----------------------------------------------------------------------------
(* The steps.                                                               *)

LEMMA StagedStep ==
  ASSUME TypeOK, Consistent, Staged, CoreStep
  PROVE  Staged'
<1> USE DEF Consistent, durableVars, rowVars
<1>0. \A w, v \in Workers : v # w => txRows[w] \cap txRows[v] = {}
  BY DEF OpenRows, Marks, Control, TypeOK
<1>1. \A w \in Workers : pc[w] \in TradeSteps => tid[w] \in txRows[w]
  BY DEF Control
<1>2. \A w \in Workers : txRows[w] \subseteq TradeIds
  BY DEF TypeOK
<1>3. ASSUME NEW w \in Workers, Advance(w)
      PROVE  Staged'
  BY <1>0, <1>1, <1>2, <1>3
  DEF Staged, Advance, Goto, SetStatus, TypeOK, HandlerSteps
<1>4. ASSUME NEW w \in Workers, Finish(w)
      PROVE  Staged'
  BY <1>0, <1>1, <1>2, <1>4
  DEF Staged, Finish, EndTurn, Goto, SetStatus, TypeOK, TradeSteps
<1>5. ASSUME NEW w \in Workers, PassOver(w)
      PROVE  Staged'
  BY <1>5 DEF Staged, PassOver, EndTurn, Goto, TypeOK, TradeSteps
<1>6. ASSUME NEW w \in Workers, Undo(w)
      PROVE  Staged'
  BY <1>0, <1>1, <1>2, <1>6
  DEF Staged, Undo, Rollback, EndTransaction, PendAfterFailure, LeaveRecord, Goto,
      TypeOK, TradeSteps
<1>7. ASSUME NEW w \in Workers, CommitWorks(w)
      PROVE  Staged'
  BY <1>7 DEF Staged, CommitWorks, EndTransaction, Goto, TypeOK, TradeSteps
<1>8. ASSUME NEW w \in Workers, Browse(w)
      PROVE  Staged'
  BY <1>8 DEF Staged, Browse, LeaveRecord, Goto, TypeOK, TradeSteps
<1>9. ASSUME NEW w \in Workers, InsertMark(w) \/ BeginTurn(w)
      PROVE  Staged'
  <2>1. /\ UNCHANGED <<status, tid>>
        /\ pc'[w] \in {"users", "verify", "refuse"}
        /\ \A v \in Workers : v # w => pc'[v] = pc[v]
    BY <1>9 DEF InsertMark, BeginTurn, At, Goto, TypeOK
  <2> QED
    BY <2>1 DEF Staged, TradeSteps
<1>10. ASSUME NEW w \in Workers, CreateTrade(w)
       PROVE  Staged'
  <2>1. \A v \in Workers : pc[v] \in TradeSteps => tid[v] # nextId /\ tid[v] \in TradeIds
    BY <1>1, <1>2 DEF OpenRows, TypeOK, TradeIds
  <2> QED
    BY <1>10, <2>1 DEF Staged, CreateTrade, SetStatus, Goto, TypeOK
<1>11. ASSUME NEW t \in TradeIds, TradeCloses(t)
       PROVE  Staged'
  <2>1. \A v \in Workers : t \notin txRows[v]
    BY <1>11 DEF TradeCloses, OpenRows, Durable, Marks, Control
  <2>2. /\ UNCHANGED <<pc, tid>>
        /\ \A p \in TradeIds : p # t => status'[p] = status[p]
    BY <1>11 DEF TradeCloses, SetStatus, TypeOK
  <2> QED
    BY <1>1, <1>2, <2>1, <2>2 DEF Staged
<1>12. CASE UNCHANGED coreVars
  BY <1>12 DEF Staged, coreVars
<1> QED
  BY <1>3, <1>4, <1>5, <1>6, <1>7, <1>8, <1>9, <1>10, <1>11, <1>12 DEF CoreStep

\* Only CreateTrade gives a user an active trade, and only BeginTurn lets a
\* worker go on to it.
Calm(w) == Advance(w) \/ Finish(w) \/ PassOver(w) \/ Undo(w) \/ CommitWorks(w)
           \/ Browse(w) \/ InsertMark(w)

LEMMA CalmShrinks ==
  ASSUME TypeOK, Consistent, Staged, NEW w \in Workers, Calm(w)
  PROVE  /\ key' = key
         /\ Live' \subseteq Live
         /\ \A t \in Live' : status'[t] \in Active => status[t] \in Active
         /\ pc'[w] # "verify"
         /\ \A v \in Workers : v # w => /\ pc'[v] = pc[v]
                                        /\ cur'[v] = cur[v]
                                        /\ todo'[v] = todo[v]
<1> USE DEF Consistent, durableVars, rowVars
<1>1. /\ key' = key
      /\ pc'[w] # "verify"
      /\ \A v \in Workers : v # w => /\ pc'[v] = pc[v]
                                     /\ cur'[v] = cur[v]
                                     /\ todo'[v] = todo[v]
  BY DEF Calm, Advance, Finish, PassOver, Undo, CommitWorks, Browse, InsertMark,
         Rollback, EndTransaction, EndTurn, PendAfterFailure, LeaveRecord, Goto,
         TypeOK, TradeSteps
<1>2. CASE Advance(w)
  BY <1>1, <1>2 DEF Advance, SetStatus, Live, Active, TypeOK, Control, OpenRows
<1>3. CASE Finish(w)
  <2>1. UNCHANGED <<committed, txRows>>
    BY <1>3 DEF Finish
  <2>2. \A t \in TradeIds : t # tid[w] => status'[t] = status[t]
    BY <1>3 DEF Finish, SetStatus, TypeOK
  <2>3. status'[tid[w]] \in Active => status[tid[w]] \in Active
    BY <1>3 DEF Finish, SetStatus, TypeOK, Staged, Active, Final, Control
  <2> QED
    BY <1>1, <2>1, <2>2, <2>3, LiveType DEF Live
<1>4. CASE Undo(w)
  <2>1. /\ UNCHANGED committed
        /\ \A v \in Workers : txRows'[v] \subseteq txRows[v]
        /\ \A t \in TradeIds : status'[t] = status[t] \/ status'[t] = "lost"
    BY <1>4 DEF Undo, Rollback, EndTransaction, TypeOK
  <2> QED
    BY <1>1, <2>1, LiveType DEF Live, Active
<1>5. CASE CommitWorks(w)
  <2>1. /\ status' = status
        /\ committed' = committed \cup txRows[w]
        /\ \A v \in Workers : txRows'[v] \subseteq txRows[v]
    BY <1>5 DEF CommitWorks, EndTransaction, TypeOK
  <2> QED
    BY <1>1, <2>1 DEF Live
<1>6. CASE PassOver(w) \/ Browse(w) \/ InsertMark(w)
  <2>1. UNCHANGED <<status, committed, txRows>>
    BY <1>6 DEF PassOver, Browse, InsertMark
  <2> QED
    BY <1>1, <2>1 DEF Live
<1> QED
  BY <1>2, <1>3, <1>4, <1>5, <1>6 DEF Calm

LEMMA LiveKeys ==
  ASSUME TypeOK, Consistent
  PROVE  \A t \in Live : key[t] \in Keys
BY DEF Live, Consistent, OpenRows, Durable

LEMMA CalmLimits ==
  ASSUME TypeOK, Consistent, Staged, Limits, NEW w \in Workers, Calm(w)
  PROVE  Limits'
<1>1. \A u \in Users : ActiveOf(u, Live)' \subseteq ActiveOf(u, Live)
  BY CalmShrinks DEF ActiveOf
<1>2. \A t \in Live' : key[t] \in Keys
  BY CalmShrinks, LiveKeys
<1>3. \A v \in Workers : pc'[v] = "verify" =>
        /\ pc[v] = "verify"
        /\ NextUser(v)' = NextUser(v) /\ NextUser(v) \in Users
        /\ SignalAt(v)' = SignalAt(v)
  BY CalmShrinks, NextUserStable, NextUserInTodo
  DEF SignalAt, EventAt, Consistent, Control, TurnSteps, TypeOK
<1> QED
  BY <1>1, <1>2, <1>3, CalmShrinks, ShrinkLimits

LEMMA ClosesLimits ==
  ASSUME TypeOK, Consistent, Limits, NEW t \in TradeIds, TradeCloses(t)
  PROVE  Limits'
<1>1. /\ key' = key /\ Live' = Live
      /\ UNCHANGED workerVars
      /\ \A p \in TradeIds : status'[p] = status[p] \/ status'[p] = "closed"
  BY DEF TradeCloses, SetStatus, TypeOK, Live
<1>2. \A u \in Users : ActiveOf(u, Live)' \subseteq ActiveOf(u, Live)
  BY <1>1, LiveType DEF ActiveOf, Active
<1>3. \A v \in Workers : pc[v] = "verify" => NextUser(v) \in Users
  BY NextUserInTodo DEF Consistent, Control, TurnSteps, TypeOK
<1>4. \A v \in Workers : /\ NextUser(v)' = NextUser(v)
                         /\ SignalAt(v)' = SignalAt(v)
  BY <1>1, NextUserStable DEF SignalAt, EventAt
<1> QED
  BY <1>1, <1>2, <1>3, <1>4, LiveKeys, ShrinkLimits

\* The lock was free, so no other open transaction has a row of this user:
\* what the prechecks see is all there is.
LEMMA BeginTurnLimits ==
  ASSUME TypeOK, Consistent, Limits, NEW w \in Workers, BeginTurn(w)
  PROVE  Limits'
<1> PICK u \in Users : u = NextUser(w)
  BY NextUserInTodo DEF BeginTurn, TypeOK
<1>1. /\ UNCHANGED <<dbVars, txRows, cur, todo>>
      /\ lock[u] = NoWorker
      /\ \A v \in Workers : v # w => pc'[v] = pc[v]
      /\ pc'[w] = "verify" => PrecheckPasses(w, u)
  BY DEF BeginTurn, At, Goto, LockFree, TypeOK
<1>2. Live' = Live /\ \A x \in Users : ActiveOf(x, Live)' = ActiveOf(x, Live)
  BY <1>1 DEF Live, ActiveOf
<1>3. \A v \in Workers : /\ NextUser(v)' = NextUser(v)
                         /\ SignalAt(v)' = SignalAt(v)
  BY <1>1, NextUserStable DEF SignalAt, EventAt
<1>4. \A v \in Workers : \A t \in txRows[v] : key[t].user # u
  BY <1>1, ConstantsAssumption DEF Consistent, OpenRows
<1>5. ActiveOf(u, VisibleTo(w)) = ActiveOf(u, Live)
  BY <1>4 DEF ActiveOf, VisibleTo, Live
<1>6. pc'[w] = "verify" =>
        /\ Cardinality(ActiveOf(u, Live)) < MaxConcurrent
        /\ \A t \in ActiveOf(u, Live) : key[t].signal # SignalAt(w)
  BY <1>1, <1>5 DEF PrecheckPasses, HasRoom, HasOpenTradeForSignal
<1>7. CapRespected' /\ OneActiveTradePerSignal'
  BY <1>1, <1>2 DEF Limits, CapRespected, OneActiveTradePerSignal
<1>8. Checked'
  <2>1. ASSUME NEW v \in Workers, pc'[v] = "verify"
        PROVE  \E x \in Users :
                 /\ x = NextUser(v)
                 /\ Cardinality(ActiveOf(x, Live)) < MaxConcurrent
                 /\ \A t \in ActiveOf(x, Live) : key[t].signal # SignalAt(v)
    <3>1. CASE v = w
      BY <1>6, <2>1, <3>1
    <3>2. CASE v # w
      <4>1. pc[v] = "verify"
        BY <1>1, <2>1, <3>2
      <4>2. NextUser(v) \in Users
        BY <4>1, NextUserInTodo DEF Consistent, Control, TurnSteps, TypeOK
      <4> QED
        BY <4>1, <4>2 DEF Limits, Checked
    <3> QED
      BY <3>1, <3>2
  <2>2. ASSUME NEW v \in Workers, NEW x \in Users, x = NextUser(v)
        PROVE  ActiveOf(NextUser(v), Live)' = ActiveOf(x, Live)
    <3>1. ActiveOf(NextUser(v), Live)' = ActiveOf(x, Live)'
      BY <1>3, <2>2 DEF ActiveOf
    <3> QED
      BY <1>2, <3>1
  <2> QED
    BY <1>1, <1>3, <2>1, <2>2 DEF Checked
<1> QED
  BY <1>7, <1>8 DEF Limits

LEMMA CreateTradeLimits ==
  ASSUME TypeOK, TypeOK', Consistent, Limits, NEW w \in Workers, CreateTrade(w)
  PROVE  Limits'
<1> PICK u \in Users : u = NextUser(w)
  BY NextUserInTodo DEF CreateTrade, Consistent, Control, TurnSteps, TypeOK
<1>1. /\ UNCHANGED <<committed, lock, cur, todo>>
      /\ pc[w] = "verify"
      /\ nextId \in TradeIds
      /\ txRows' = [txRows EXCEPT ![w] = @ \cup {nextId}]
      /\ key'[nextId].user = u /\ key'[nextId].signal = SignalAt(w)
      /\ status'[nextId] = "pending_entry"
      /\ \A t \in TradeIds : t # nextId => key'[t] = key[t] /\ status'[t] = status[t]
      /\ pc'[w] = "entry" /\ \A v \in Workers : v # w => pc'[v] = pc[v]
  BY DEF CreateTrade, SetStatus, Goto, TypeOK
<1>2. Live' = Live \cup {nextId} /\ nextId \notin Live
  BY <1>1 DEF Live, TypeOK, TradeIds, Consistent, OpenRows, Durable
<1>3. \A v \in Workers : /\ NextUser(v)' = NextUser(v)
                         /\ SignalAt(v)' = SignalAt(v)
  BY <1>1, NextUserStable DEF SignalAt, EventAt
<1>4. ASSUME NEW x \in Users, x # u
      PROVE  ActiveOf(x, Live)' = ActiveOf(x, Live)
  BY <1>1, <1>2, <1>4, LiveType DEF ActiveOf
<1>5. ActiveOf(u, Live)' = ActiveOf(u, Live) \cup {nextId}
  BY <1>1, <1>2, LiveType DEF ActiveOf, Active
<1>6. /\ Cardinality(ActiveOf(u, Live)) < MaxConcurrent
      /\ \A t \in ActiveOf(u, Live) : key[t].signal # SignalAt(w)
  BY <1>1 DEF Limits, Checked
<1>7. Cardinality(ActiveOf(u, Live)') <= MaxConcurrent
  <2>1. nextId \notin ActiveOf(u, Live)
    BY <1>2 DEF ActiveOf
  <2>2. Cardinality(ActiveOf(u, Live) \cup {nextId})
          = Cardinality(ActiveOf(u, Live)) + 1
    BY <2>1, ActiveFinite, FS_AddElement
  <2> QED
    BY <1>5, <1>6, <2>2, ActiveFinite, ConstantsAssumption
<1>8. CapRespected'
  <2>1. ASSUME NEW x \in Users
        PROVE  Cardinality(ActiveOf(x, Live)') <= MaxConcurrent
    BY <1>4, <1>7 DEF Limits, CapRespected
  <2> QED
    BY <2>1 DEF CapRespected
<1>9. OneActiveTradePerSignal'
  <2> SUFFICES ASSUME NEW t \in Live', NEW p \in Live', t # p,
                      status'[t] \in Active, status'[p] \in Active,
                      key'[t].user = key'[p].user
               PROVE  key'[t].signal # key'[p].signal
    BY DEF OneActiveTradePerSignal
  <2>1. \A x \in Live : x # nextId /\ key'[x] = key[x] /\ status'[x] = status[x]
    BY <1>1, <1>2, LiveType
  <2>2. CASE t \in Live /\ p \in Live
    BY <2>1, <2>2 DEF Limits, OneActiveTradePerSignal
  <2>3. ASSUME NEW x \in Live, status'[x] \in Active, key'[x].user = u
        PROVE  key'[x].signal # SignalAt(w)
    BY <1>6, <2>1, <2>3 DEF ActiveOf
  <2> QED
    BY <1>1, <1>2, <2>2, <2>3
<1>10. Checked'
  <2> SUFFICES ASSUME NEW v \in Workers, pc'[v] = "verify"
               PROVE  /\ Cardinality(ActiveOf(NextUser(v), Live))' < MaxConcurrent
                      /\ \A t \in ActiveOf(NextUser(v), Live)' :
                           key'[t].signal # SignalAt(v)'
    BY DEF Checked
  <2>1. v # w /\ pc[v] = "verify"
    BY <1>1
  <2> PICK x \in Users : x = NextUser(v)
    BY <2>1, NextUserInTodo DEF Consistent, Control, TurnSteps, TypeOK
  <2>2. lock[x] = v /\ lock[u] = w
    BY <1>1, <2>1 DEF Consistent, Turns, TurnSteps
  <2>3. ActiveOf(NextUser(v), Live)' = ActiveOf(x, Live)'
    BY <1>3 DEF ActiveOf
  <2>4. ActiveOf(x, Live)' = ActiveOf(x, Live)
    BY <1>4, <2>1, <2>2
  <2>5. /\ Cardinality(ActiveOf(x, Live)) < MaxConcurrent
        /\ \A t \in ActiveOf(x, Live) : key[t].signal # SignalAt(v)
    BY <2>1 DEF Limits, Checked
  <2>6. \A t \in ActiveOf(x, Live) : key'[t] = key[t]
    BY <1>1, <1>2, LiveType DEF ActiveOf
  <2> QED
    BY <1>3, <2>3, <2>4, <2>5, <2>6
<1> QED
  BY <1>8, <1>9, <1>10 DEF Limits

-----------------------------------------------------------------------------
LEMMA LimitsInvariance == Spec => [](IInv /\ Staged /\ Limits)
<1>1. Init => Staged /\ Limits
  <2> SUFFICES ASSUME Init PROVE Staged /\ Limits
    OBVIOUS
  <2>1. Live = {}
    BY DEF Init, Live
  <2>2. \A u \in Users : ActiveOf(u, Live) = {}
    BY <2>1 DEF ActiveOf
  <2>3. CapRespected
    BY <2>2, FS_EmptySet, ConstantsAssumption DEF CapRespected
  <2> QED
    BY <2>1, <2>3
    DEF Limits, OneActiveTradePerSignal, Checked, Staged, Init, TradeSteps
<1>2. IInv /\ IInv' /\ Staged /\ Limits /\ [Next]_vars => Staged' /\ Limits'
  <2> SUFFICES ASSUME TypeOK, TypeOK', Consistent, Staged, Limits, [Next]_vars
               PROVE  Staged' /\ Limits'
    BY DEF IInv
  <2>1. CoreStep
    BY Classification DEF Consistent
  <2>2. CASE UNCHANGED coreVars
    <3>1. /\ Live' = Live /\ key' = key
          /\ \A u \in Users : ActiveOf(u, Live)' = ActiveOf(u, Live)
      BY <2>2 DEF coreVars, Live, ActiveOf
    <3>2. \A v \in Workers : pc[v] = "verify" => NextUser(v) \in Users
      BY NextUserInTodo DEF Consistent, Control, TurnSteps, TypeOK
    <3>3. \A v \in Workers : /\ NextUser(v)' = NextUser(v)
                             /\ SignalAt(v)' = SignalAt(v)
                             /\ pc'[v] = pc[v]
      BY <2>2, NextUserStable DEF coreVars, SignalAt, EventAt
    <3> QED
      BY <2>1, <3>1, <3>2, <3>3, LiveKeys, ShrinkLimits, StagedStep
  <2> QED
    BY <2>1, <2>2, StagedStep, CalmLimits, ClosesLimits, BeginTurnLimits,
       CreateTradeLimits
    DEF CoreStep, Calm
<1> QED
  BY <1>1, <1>2, Invariance, PTL DEF Spec

\* No interleaving of workers takes a user above max_concurrent.
THEOREM CapHolds == Spec => []CapRespected
<1>1. Limits => CapRespected
  BY DEF Limits
<1> QED
  BY <1>1, LimitsInvariance, PTL

\* No interleaving of workers and events gives a user two active trades for
\* one signal.
THEOREM OneTradeHolds == Spec => []OneActiveTradePerSignal
<1>1. Limits => OneActiveTradePerSignal
  BY DEF Limits
<1> QED
  BY <1>1, LimitsInvariance, PTL

-----------------------------------------------------------------------------
(* Waiting.  A worker asks for the lock of a user above all those whose     *)
(* locks it holds, and never more users are locked than there is a bound    *)
(* for; so from any waiting worker the users asked for only go up, and stop.*)

LocksInOrder ==
  \A w \in Workers, u \in Users : lock[u] = w =>
    /\ pc[w] \in InTransaction
    /\ \A x \in todo[w] : u < x \/ (pc[w] # "users" /\ u = x)

LocksBounded == \E n \in Nat : \A u \in Users : lock[u] # NoWorker => u <= n

LEMMA NextUserLeast ==
  ASSUME NEW w \in Workers, todo[w] \subseteq Users, todo[w] # {}
  PROVE  \A x \in todo[w] : NextUser(w) <= x
<1>1. \E u \in todo[w] : \A v \in todo[w] : u <= v
  BY ConstantsAssumption, LeastExists
<1> QED
  BY <1>1 DEF NextUser

LEMMA LocksBoundedStep ==
  ASSUME TypeOK, Consistent, LocksBounded, CoreStep
  PROVE  LocksBounded'
<1> USE DEF durableVars, rowVars
<1> PICK n \in Nat : \A u \in Users : lock[u] # NoWorker => u <= n
  BY DEF LocksBounded
<1>1. ASSUME NEW w \in Workers, BeginTurn(w)
      PROVE  LocksBounded'
  <2>1. /\ NextUser(w) \in Users
        /\ lock' = [lock EXCEPT ![NextUser(w)] = w]
    BY <1>1, NextUserInTodo DEF BeginTurn, TypeOK
  <2> PICK x \in Users : x = NextUser(w)
    BY <2>1
  <2>2. x \in Nat
    BY ConstantsAssumption
  <2>3. \A u \in Users : u # x => lock'[u] = lock[u]
    BY <2>1 DEF TypeOK
  <2>4. CASE x <= n
    BY <2>3, <2>4 DEF LocksBounded
  <2>5. CASE ~ (x <= n)
    <3>1. \A u \in Users : lock'[u] # NoWorker => u <= x
      BY <2>2, <2>3, <2>5, ConstantsAssumption
    <3> QED
      BY <2>2, <3>1 DEF LocksBounded
  <2> QED
    BY <2>4, <2>5
<1>2. ASSUME NEW w \in Workers, Undo(w) \/ CommitWorks(w)
      PROVE  LocksBounded'
  <2>1. \A u \in Users : lock'[u] # NoWorker => lock[u] # NoWorker
    BY <1>2 DEF Undo, Rollback, CommitWorks, EndTransaction, FreeLocks
  <2> QED
    BY <2>1 DEF LocksBounded
<1>3. CASE lock' = lock
  BY <1>3 DEF LocksBounded
<1> QED
  BY <1>1, <1>2, <1>3
  DEF CoreStep, Advance, Finish, PassOver, Browse, InsertMark, CreateTrade,
      TradeCloses, coreVars

LEMMA LocksInOrderStep ==
  ASSUME TypeOK, Consistent, LocksInOrder, CoreStep
  PROVE  LocksInOrder'
<1> USE DEF durableVars, rowVars, Goto
<1>1. ASSUME NEW w \in Workers, Advance(w) \/ CreateTrade(w)
      PROVE  LocksInOrder'
  <2>1. /\ UNCHANGED <<lock, todo>>
        /\ pc'[w] \in TradeSteps
        /\ \A v \in Workers : v # w => pc'[v] = pc[v]
    BY <1>1 DEF Advance, CreateTrade, TypeOK, TradeSteps
  <2> QED
    BY <2>1 DEF LocksInOrder, InTransaction, TurnSteps, TradeSteps
<1>2. ASSUME NEW w \in Workers, Finish(w) \/ PassOver(w)
      PROVE  LocksInOrder'
  <2>1. /\ lock' = lock
        /\ todo' = [todo EXCEPT ![w] = @ \ {NextUser(w)}]
        /\ pc'[w] = "users" /\ pc[w] \in TurnSteps
        /\ \A v \in Workers : v # w => pc'[v] = pc[v]
    BY <1>2 DEF Finish, PassOver, EndTurn, TypeOK, TurnSteps
  <2>2. \A x \in todo[w] : NextUser(w) <= x
    BY <2>1, NextUserLeast DEF Consistent, Control, TypeOK
  <2>3. NextUser(w) \in todo[w] /\ todo[w] \subseteq Nat
    BY <2>1, NextUserInTodo, ConstantsAssumption DEF Consistent, Control, TypeOK
  <2> PICK y \in todo[w] : y = NextUser(w)
    BY <2>3
  <2>4. \A x \in todo'[w] : x \in todo[w] /\ y < x
    BY <2>1, <2>2, <2>3 DEF TypeOK
  <2>5. ASSUME NEW u \in Users, lock[u] = w
        PROVE  \A x \in todo'[w] : u < x
    <3>1. \A x \in todo[w] : u <= x
      BY <2>3, <2>5, ConstantsAssumption DEF LocksInOrder
    <3>2. u \in Nat /\ y \in Nat /\ u <= y
      BY <2>3, <3>1, ConstantsAssumption
    <3> QED
      BY <2>3, <2>4, <3>2
  <2>6. \A v \in Workers : v # w => todo'[v] = todo[v]
    BY <2>1 DEF TypeOK
  <2> QED
    BY <2>1, <2>5, <2>6 DEF LocksInOrder, InTransaction
<1>3. ASSUME NEW w \in Workers, Undo(w) \/ CommitWorks(w)
      PROVE  LocksInOrder'
  <2>1. /\ lock' = FreeLocks(w)
        /\ \A v \in Workers : v # w => pc'[v] = pc[v] /\ todo'[v] = todo[v]
    BY <1>3 DEF Undo, Rollback, PendAfterFailure, LeaveRecord, CommitWorks,
                EndTransaction, TypeOK
  <2>2. \A u \in Users, v \in Workers : lock'[u] = v => lock[u] = v /\ v # w
    BY <2>1, ConstantsAssumption DEF FreeLocks
  <2> QED
    BY <2>1, <2>2 DEF LocksInOrder
<1>4. ASSUME NEW w \in Workers, Browse(w) \/ InsertMark(w)
      PROVE  LocksInOrder'
  <2>1. /\ lock' = lock
        /\ pc[w] \notin InTransaction
        /\ \A v \in Workers : v # w => pc'[v] = pc[v] /\ todo'[v] = todo[v]
    BY <1>4 DEF Browse, LeaveRecord, InsertMark, TypeOK, InTransaction, TurnSteps,
                TradeSteps
  <2>2. \A u \in Users : lock[u] # w
    BY <2>1 DEF LocksInOrder
  <2> QED
    BY <2>1, <2>2 DEF LocksInOrder
<1>5. ASSUME NEW w \in Workers, BeginTurn(w)
      PROVE  LocksInOrder'
  <2>1. /\ todo' = todo /\ pc[w] = "users" /\ pc'[w] \in {"verify", "refuse"}
        /\ lock' = [lock EXCEPT ![NextUser(w)] = w]
        /\ todo[w] # {} /\ todo[w] \subseteq Users
        /\ \A v \in Workers : v # w => pc'[v] = pc[v]
    BY <1>5 DEF BeginTurn, At, TypeOK
  <2>2. \A x \in todo[w] : NextUser(w) <= x
    BY <2>1, NextUserLeast
  <2>3. todo[w] \subseteq Nat
    BY <2>1, ConstantsAssumption
  <2> PICK y \in todo[w] : y = NextUser(w)
    BY <2>1, NextUserInTodo
  <2>4. \A u \in Users : lock'[u] = IF u = y THEN w ELSE lock[u]
    BY <2>1 DEF TypeOK
  <2>5. \A x \in todo[w] : y < x \/ y = x
    BY <2>2, <2>3
  <2> QED
    BY <2>1, <2>4, <2>5 DEF LocksInOrder, InTransaction, TurnSteps
<1>6. CASE UNCHANGED <<lock, pc, todo>>
  BY <1>6 DEF LocksInOrder
<1> QED
  BY <1>1, <1>2, <1>3, <1>4, <1>5, <1>6 DEF CoreStep, TradeCloses, coreVars

\* Among workers that all wait for one of them, one asks for the largest user;
\* the holder of that lock asks for a larger one.
LEMMA NoCircle ==
  ASSUME TypeOK, Consistent, LocksInOrder, LocksBounded
  PROVE  NoLockCycle
<1> SUFFICES ASSUME NEW S \in SUBSET Workers, S # {},
                    \A w \in S : \E v \in S : WaitsFor(w, v)
             PROVE  FALSE
  BY DEF NoLockCycle
<1> DEFINE Asking == {w \in S : pc[w] = "users"}
<1>1. ASSUME NEW v \in S, pc[v] \in InTransaction
      PROVE  v \in Asking
  BY <1>1 DEF WaitsFor, InTransaction, TurnSteps, TradeSteps
<1>2. ASSUME NEW w \in Asking
      PROVE  /\ todo[w] # {} /\ todo[w] \subseteq Users
             /\ NextUser(w) \in Users
             /\ lock[NextUser(w)] \in Asking
  <2>1. PICK v \in S : WaitsFor(w, v)
    OBVIOUS
  <2>2. todo[w] # {} /\ lock[NextUser(w)] = v
    BY <2>1 DEF WaitsFor
  <2>3. todo[w] \subseteq Users /\ NextUser(w) \in Users
    BY <2>2, NextUserInTodo DEF TypeOK
  <2>4. pc[v] \in InTransaction
    BY <2>2, <2>3 DEF LocksInOrder
  <2> QED
    BY <1>1, <2>2, <2>3, <2>4
<1>3. Asking # {}
  <2> PICK w \in S : TRUE
    OBVIOUS
  <2> PICK v \in S : WaitsFor(w, v)
    OBVIOUS
  <2>1. CASE pc[w] = "users"
    BY <2>1
  <2>2. CASE pc[w] = "insert"
    <3>1. marks[v] # {}
      BY <2>2 DEF WaitsFor
    <3> QED
      BY <1>1, <3>1 DEF Consistent, Control
  <2> QED
    BY <2>1, <2>2 DEF WaitsFor
<1> HIDE DEF Asking
<1> PICK n \in Nat : \A u \in Users : lock[u] # NoWorker => u <= n
  BY DEF LocksBounded
<1> DEFINE Room == {n - NextUser(w) : w \in Asking}
<1>4. \A w \in Asking : NextUser(w) \in Nat /\ NextUser(w) <= n
  BY <1>2, ConstantsAssumption DEF Asking
<1>5. Room \subseteq Nat /\ Room # {}
  BY <1>3, <1>4
<1>6. PICK w \in Asking : \A v \in Asking : n - NextUser(w) <= n - NextUser(v)
  <2>1. \E r \in Room : \A q \in Room : r <= q
    BY <1>5, LeastExists
  <2> QED
    BY <2>1
<1> PICK v \in Asking : lock[NextUser(w)] = v
  BY <1>2
<1>7. NextUser(w) < NextUser(v)
  <2>1. NextUser(v) \in todo[v]
    BY <1>2, NextUserInTodo DEF Asking
  <2> QED
    BY <1>2, <2>1 DEF LocksInOrder, Asking
<1> QED
  BY <1>4, <1>6, <1>7

\* Whatever the workers are doing, no set of them waits in a circle for each
\* other's users and events.
THEOREM NobodyWaitsInACircle == Spec => []NoLockCycle
<1>1. Init => LocksInOrder /\ LocksBounded
  <2> SUFFICES ASSUME Init PROVE LocksInOrder /\ LocksBounded
    OBVIOUS
  <2>1. \A u \in Users : lock[u] = NoWorker
    BY DEF Init
  <2>2. LocksInOrder
    BY <2>1, ConstantsAssumption DEF LocksInOrder
  <2>3. 0 \in Nat /\ \A u \in Users : lock[u] # NoWorker => u <= 0
    BY <2>1
  <2> QED
    BY <2>2, <2>3 DEF LocksBounded
<1>2. IInv /\ LocksInOrder /\ LocksBounded /\ [Next]_vars
        => LocksInOrder' /\ LocksBounded'
  BY Classification, LocksInOrderStep, LocksBoundedStep DEF IInv, Consistent
<1>3. IInv /\ LocksInOrder /\ LocksBounded => NoLockCycle
  BY NoCircle DEF IInv
<1> QED
  BY <1>1, <1>2, <1>3, Invariance, PTL DEF Spec

-----------------------------------------------------------------------------
(* Refinement: of all the steps of workers, crashes and the exchange, the   *)
(* ones that show in the committed rows and in the acknowledgements are     *)
(* atomic steps of the abstract book, TradeBook.                            *)

\* A row's signal is the one its event names.
SignalsMatch == \A t \in Live : key[t].signal = SignalOf[key[t].event]

LEMMA SignalsMatchStep ==
  ASSUME TypeOK, Consistent, Staged, SignalsMatch, CoreStep
  PROVE  SignalsMatch'
<1>1. ASSUME NEW w \in Workers, Calm(w)
      PROVE  SignalsMatch'
  BY <1>1, CalmShrinks DEF SignalsMatch
<1>2. ASSUME NEW w \in Workers, BeginTurn(w)
      PROVE  SignalsMatch'
  <2>1. Live' = Live /\ key' = key
    BY <1>2 DEF BeginTurn, Live
  <2> QED
    BY <2>1 DEF SignalsMatch
<1>3. ASSUME NEW w \in Workers, CreateTrade(w)
      PROVE  SignalsMatch'
  <2>1. /\ Live' \subseteq Live \cup {nextId}
        /\ \A t \in TradeIds : t # nextId => key'[t] = key[t]
        /\ key'[nextId].signal = SignalAt(w) /\ key'[nextId].event = EventAt(w)
    BY <1>3 DEF CreateTrade, Live, TypeOK
  <2> QED
    BY <2>1, LiveType DEF SignalsMatch, SignalAt
<1>4. ASSUME NEW t \in TradeIds, TradeCloses(t)
      PROVE  SignalsMatch'
  <2>1. Live' = Live /\ key' = key
    BY <1>4 DEF TradeCloses, Live
  <2> QED
    BY <2>1 DEF SignalsMatch
<1>5. CASE UNCHANGED coreVars
  BY <1>5 DEF coreVars, SignalsMatch, Live
<1> QED
  BY <1>1, <1>2, <1>3, <1>4, <1>5 DEF CoreStep, Calm

-----------------------------------------------------------------------------
(* The steps that show in the book.                                         *)

Entry(t) == [id |-> t, user |-> key[t].user, event |-> key[t].event,
             outcome |-> status[t]]

Acked == {r \in Records : rec[r] = "acked"}

LEMMA BookEntries == CommittedBook = {Entry(t) : t \in committed}
BY DEF CommittedBook, Entry

\* Records that differ in their ids are no more than the ids.
LEMMA BoundedByIds ==
  ASSUME NEW B, NEW A, IsFiniteSet(A), \A x \in B : x.id \in A,
         \A x, y \in B : x.id = y.id => x = y
  PROVE  /\ Cardinality(B) \in Nat /\ Cardinality(A) \in Nat
         /\ Cardinality(B) <= Cardinality(A)
<1> DEFINE f == [x \in B |-> x.id]
<1>1. f \in Injection(B, A)
  BY DEF Injection, IsInjective
<1> HIDE DEF f
<1>2. IsFiniteSet(B) /\ Cardinality(B) <= Cardinality(A)
  BY <1>1, FS_Injection
<1> QED
  BY <1>2, FS_CardinalityType

LEMMA BookCardinality == \A S : Book!Cardinality(S) = Cardinality(S)
BY DEF Book!Cardinality, Cardinality

\* The rows of a committing transaction make up one batch of its event.
LEMMA CommitSettles ==
  ASSUME TypeOK, Consistent, Limits, TypeOK', Limits', SignalsMatch,
         NEW w \in Workers, CommitWorks(w), UNCHANGED rec
  PROVE  Book!Settle(EventAt(w), CommittedBook' \ CommittedBook)
<1> DEFINE e == EventAt(w)
           T == {Entry(t) : t \in txRows[w]}
<1>1. /\ UNCHANGED <<status, key>>
      /\ committed' = committed \cup txRows[w]
      /\ processed' = processed \cup {e}
      /\ marks[w] = {e}
      /\ tid[w] = NoTrade
  BY DEF CommitWorks, WithMark, Consistent, Control, InTransaction, TradeSteps
<1>2. \A t \in txRows[w] : /\ t \in TradeIds /\ t # NoTrade
                           /\ key[t] \in Keys
                           /\ key[t].event = e
                           /\ status[t] \in Final
  BY <1>1 DEF Consistent, OpenRows, TypeOK, TradeIds, NoTrade
<1>3. e \notin processed
  BY <1>1 DEF Consistent, Marks
<1>4. txRows[w] \cap committed = {}
  BY <1>2, <1>3 DEF Consistent, Durable
<1>5. /\ CommittedBook' = CommittedBook \cup T
      /\ CommittedBook \cap T = {}
  <2>1. CommittedBook' = {Entry(t) : t \in committed'}
    BY <1>1 DEF CommittedBook, Entry
  <2>2. \A t, p : Entry(t) = Entry(p) => t = p
    BY DEF Entry
  <2> QED
    BY <1>1, <1>4, <2>1, <2>2, BookEntries
<1>6. CommittedBook' \ CommittedBook = T
  BY <1>5
<1>7. ASSUME NEW x \in T
      PROVE  /\ x.event = e
             /\ x.user \in Users
             /\ x.outcome \in Book!Outcomes
             /\ \A y \in T : x.user = y.user \/ x.id = y.id => x = y
             /\ \A y \in CommittedBook : x.id # y.id
             /\ x.outcome = "open" =>
                  \A y \in Book!OpenOf(x.user, CommittedBook) :
                    SignalOf[y.event] # SignalOf[e]
  <2>1. PICK t \in txRows[w] : x = Entry(t)
    OBVIOUS
  <2>2. x.id = t /\ x.user = key[t].user /\ x.event = key[t].event
        /\ x.outcome = status[t]
    BY <2>1 DEF Entry
  <2>3. x.event = e /\ x.user \in Users /\ x.outcome \in Book!Outcomes
    BY <1>2, <2>2 DEF Keys, Final, Book!Outcomes
  <2>4. \A y \in T : x.user = y.user \/ x.id = y.id => x = y
    <3> SUFFICES ASSUME NEW p \in txRows[w],
                        x.user = Entry(p).user \/ x.id = Entry(p).id
                 PROVE  t = p
      BY <2>1
    <3> QED
      BY <2>2 DEF Entry, Consistent, OpenRows
  <2>5. \A y \in CommittedBook : x.id # y.id
    BY <1>4, <2>2, BookEntries DEF Entry
  <2>6. ASSUME x.outcome = "open",
               NEW y \in Book!OpenOf(x.user, CommittedBook)
        PROVE  SignalOf[y.event] # SignalOf[e]
    <3>1. PICK p \in committed : y = Entry(p)
      BY BookEntries DEF Book!OpenOf
    <3>2. /\ p \in Live /\ t \in Live /\ p # t
          /\ status[p] = "open" /\ status[t] = "open"
          /\ key[p].user = key[t].user /\ y.event = key[p].event
      BY <1>4, <2>2, <2>6, <3>1 DEF Book!OpenOf, Entry, Live
    <3>3. key[p].signal # key[t].signal
      BY <3>2 DEF Limits, OneActiveTradePerSignal, Active
    <3> QED
      BY <2>2, <2>3, <3>2, <3>3 DEF SignalsMatch
  <2> QED
    BY <2>3, <2>4, <2>5, <2>6
<1>8. ASSUME NEW u \in Users
      PROVE  Cardinality(Book!OpenOf(u, CommittedBook \cup T)) <= MaxConcurrent
  <2> DEFINE O == Book!OpenOf(u, CommittedBook \cup T)
  <2>1. \A x \in O : x.id \in committed \cup txRows[w] /\ x = Entry(x.id)
    BY BookEntries DEF Book!OpenOf, Entry
  <2>2. \A x \in O : x.id \in ActiveOf(u, Live)
    BY <2>1 DEF Book!OpenOf, Entry, ActiveOf, Live, Active
  <2>3. \A x, y \in O : x.id = y.id => x = y
    BY <2>1
  <2>4. /\ IsFiniteSet(ActiveOf(u, Live))
        /\ Cardinality(ActiveOf(u, Live)) <= MaxConcurrent
    BY ActiveFinite DEF Limits, CapRespected
  <2> HIDE DEF O
  <2>5. Cardinality(O) <= MaxConcurrent
    BY <2>2, <2>3, <2>4, BoundedByIds, ConstantsAssumption
  <2> QED
    BY <2>5 DEF O
<1> HIDE DEF e, T
<1>9. Book!IsBatch(e, T)
  BY <1>7, <1>8, BookCardinality DEF Book!IsBatch
<1>10. Acked' = Acked
  BY DEF Acked
<1> QED
  BY <1>1, <1>3, <1>5, <1>6, <1>9, <1>10 DEF Book!Settle, Acked, e

\* An open trade that is closed becomes a closed entry.
LEMMA TradeClosesCloses ==
  ASSUME TypeOK, NEW t \in TradeIds, TradeCloses(t)
  PROVE  \E x \in CommittedBook : Book!Close(x)
<1>1. /\ UNCHANGED <<rec, processed, committed, key>>
      /\ t \in committed /\ status[t] = "open" /\ status'[t] = "closed"
      /\ \A p \in TradeIds : p # t => status'[p] = status[p]
  BY DEF TradeCloses, SetStatus, TypeOK
<1> DEFINE x == Entry(t)
           y == [x EXCEPT !.outcome = "closed"]
<1>2. x \in CommittedBook /\ x.outcome = "open"
  BY <1>1, BookEntries DEF Entry
<1>3. CommittedBook' = {Entry(p)' : p \in committed}
  BY <1>1 DEF CommittedBook, Entry
<1>4. y = Entry(t)'
  BY <1>1 DEF Entry
<1>5. \A p \in committed : p # t => Entry(p)' = Entry(p) /\ Entry(p) # x
  BY <1>1 DEF Entry, TypeOK
<1> HIDE DEF x, y
<1>6. CommittedBook' = (CommittedBook \ {x}) \cup {y}
  <2>1. CommittedBook = {Entry(p) : p \in committed \ {t}} \cup {x}
    BY <1>1, BookEntries DEF x
  <2>2. CommittedBook' = {Entry(p)' : p \in committed \ {t}} \cup {y}
    BY <1>1, <1>3, <1>4
  <2>3. {Entry(p)' : p \in committed \ {t}} = {Entry(p) : p \in committed \ {t}}
    BY <1>5
  <2>4. x \notin {Entry(p) : p \in committed \ {t}}
    BY <1>5
  <2> QED
    BY <2>1, <2>2, <2>3, <2>4
<1>7. Book!Close(x)
  BY <1>1, <1>2, <1>6 DEF Book!Close, y
<1> QED
  BY <1>2, <1>7

\* Every other step leaves what is committed as it is.
LEMMA OthersKeepBook ==
  ASSUME TypeOK, Consistent, CoreStep,
         \A w \in Workers : ~ CommitWorks(w),
         \A t \in TradeIds : ~ TradeCloses(t)
  PROVE  UNCHANGED <<processed, CommittedBook>>
<1> USE DEF Consistent, durableVars, rowVars
<1>1. \A w \in Workers : txRows[w] \cap committed = {}
  BY DEF OpenRows, Marks, Durable, Control
<1>2. \A w \in Workers : pc[w] \in TradeSteps => tid[w] \in txRows[w]
  BY DEF Control
<1>3. nextId \notin committed /\ committed \subseteq TradeIds
  BY DEF Durable, TypeOK
<1>4. /\ UNCHANGED <<processed, committed>>
      /\ \A t \in committed : key'[t] = key[t] /\ status'[t] = status[t]
  <2>1. ASSUME NEW w \in Workers, Advance(w) \/ Finish(w)
        PROVE  <1>4!:
    BY <1>1, <1>2, <1>3, <2>1 DEF Advance, Finish, SetStatus, TypeOK
  <2>2. ASSUME NEW w \in Workers, Undo(w)
        PROVE  <1>4!:
    BY <1>1, <1>3, <2>2 DEF Undo, Rollback
  <2>3. ASSUME NEW w \in Workers, CreateTrade(w)
        PROVE  <1>4!:
    BY <1>3, <2>3 DEF CreateTrade, SetStatus, TypeOK
  <2>4. ASSUME NEW w \in Workers,
               PassOver(w) \/ Browse(w) \/ InsertMark(w) \/ BeginTurn(w)
        PROVE  <1>4!:
    BY <2>4 DEF PassOver, Browse, InsertMark, BeginTurn
  <2>5. CASE UNCHANGED coreVars
    BY <2>5 DEF coreVars
  <2> QED
    BY <2>1, <2>2, <2>3, <2>4, <2>5 DEF CoreStep
<1>5. CommittedBook' = CommittedBook
  BY <1>4 DEF CommittedBook
<1> QED
  BY <1>4, <1>5

LEMMA BookStep ==
  ASSUME TypeOK, Consistent, Limits, TypeOK', Limits', SignalsMatch, [Next]_vars
  PROVE  [Book!Next]_(Book!bookVars)
<1> USE DEF Book!bookVars, Book!Next
<1>1. CoreStep
  BY Classification DEF Consistent
<1>2. CASE UNCHANGED rec
  <2>1. ASSUME NEW w \in Workers, CommitWorks(w)
        PROVE  Book!Next
    BY <1>2, <2>1, CommitSettles DEF CommitWorks, Consistent, Control, InTransaction
  <2>2. ASSUME NEW t \in TradeIds, TradeCloses(t)
        PROVE  Book!Next
    BY <2>2, TradeClosesCloses
  <2>3. CASE /\ \A w \in Workers : ~ CommitWorks(w)
             /\ \A t \in TradeIds : ~ TradeCloses(t)
    BY <1>1, <1>2, <2>3, OthersKeepBook
  <2> QED
    BY <2>1, <2>2, <2>3
<1>3. ASSUME NEW w \in Workers, Ack(w)
      PROVE  [Book!Next]_(Book!bookVars)
  <2>1. UNCHANGED <<processed, CommittedBook>>
    BY <1>3 DEF Ack, CommittedBook
  <2>2. cur[w] \in Records /\ EventOf[cur[w]] \in processed
    BY <1>3 DEF Ack, Consistent, Control, EventAt
  <2>3. Acked' = Acked \/ Acked' = Acked \cup {cur[w]}
    BY <1>3, <2>2 DEF Ack, Acked, TypeOK
  <2> QED
    BY <2>1, <2>2, <2>3 DEF Acked, Book!Acknowledge
<1>4. ASSUME NEW w \in Workers, NEW r \in Records, ReadRecord(w, r)
      PROVE  [Book!Next]_(Book!bookVars)
  <2>1. UNCHANGED <<processed, CommittedBook>>
    BY <1>4 DEF ReadRecord, CommittedBook
  <2>2. \/ EventOf[r] = NoEvent /\ Acked' = Acked \cup {r}
        \/ Acked' = Acked
    BY <1>4 DEF ReadRecord, Acked, TypeOK
  <2> QED
    BY <2>1, <2>2 DEF Acked, Book!Acknowledge
<1> QED
  BY <1>2, <1>3, <1>4, RecordStep

\* Every behaviour of the consumers, with its crashes, redeliveries and
\* failing calls, is one of the abstract book of trades.
THEOREM Refinement == Spec => ImplementsTradeBook
<1>1. Init => Book!Init
  BY DEF Init, Book!Init, CommittedBook
<1>2. Init => SignalsMatch
  BY DEF Init, SignalsMatch, Live
<1>3. IInv /\ Staged /\ SignalsMatch /\ [Next]_vars => SignalsMatch'
  BY SignalsMatchStep, Classification DEF IInv, Consistent
<1>4. /\ IInv /\ Limits /\ SignalsMatch /\ [Next]_vars
      /\ IInv' /\ Limits'
      => [Book!Next]_(Book!bookVars)
  BY BookStep DEF IInv
<1> QED
  BY <1>1, <1>2, <1>3, <1>4, LimitsInvariance, PTL
  DEF Spec, ImplementsTradeBook, Book!Spec
=============================================================================
