----------------------- MODULE SignalExecutionProofs -----------------------
(***************************************************************************)
(* Proofs about SignalExecution, for every number of workers, users,       *)
(* records, events, signals, faults, crashes and changes.                  *)
(*                                                                         *)
(* The safety of what is committed rests on one inductive invariant, IInv. *)
(* Its parts say where a worker stands (Control), what the rows of its     *)
(* open transaction look like (OpenRows), that no two transactions carry   *)
(* the same event (Marks), that a turn holds its user's lock (Turns), and  *)
(* what is durable (Durable).  The actions fall into a few classes by what *)
(* they do to those variables; IInv is proved class by class.              *)
(***************************************************************************)
EXTENDS SignalExecution, FiniteSetTheorems, WellFoundedInduction, TLAPS

-----------------------------------------------------------------------------
(* The inductive invariant.                                                 *)

TradeSteps == {"entry", "wait", "cancel", "stop", "confirm", "emergency",
               "cleanup", "targets", "abort", "sweep", "report"}
HandlerSteps == {"abort", "sweep", "report"}
TurnSteps == TradeSteps \cup {"verify", "refuse"}
InTransaction == TurnSteps \cup {"users"}
Final == {"open", "skipped", "error", "closed"}

\* A worker's variables agree with its step.
Control ==
  \A w \in Workers :
    /\ pc[w] # "idle" => cur[w] \in Records /\ EventAt(w) \in Events
    /\ pc[w] \in InTransaction => marks[w] = {EventAt(w)}
    /\ pc[w] \notin InTransaction => marks[w] = {} /\ txRows[w] = {}
    /\ pc[w] \in TurnSteps => todo[w] # {}
    /\ IF pc[w] \in TradeSteps THEN tid[w] \in txRows[w] ELSE tid[w] = NoTrade
    /\ pc[w] = "ack" => EventAt(w) \in processed

\* A transaction has one row per user it is done with, brought to an outcome,
\* and perhaps the row of the turn it is in.
OpenRows ==
  \A w \in Workers :
    /\ \A t \in txRows[w] :
         /\ key[t] \in Keys
         /\ key[t].event = EventAt(w)
         /\ lock[key[t].user] = w
         /\ t < nextId
         /\ t = tid[w] => key[t].user = NextUser(w)
         /\ t # tid[w] => status[t] \in Final /\ key[t].user \notin todo[w]
    /\ \A t, p \in txRows[w] : t # p => key[t].user # key[p].user

\* The primary key of processed_events.
Marks ==
  \A w \in Workers :
    /\ marks[w] \cap processed = {}
    /\ \A v \in Workers : v # w => marks[v] \cap marks[w] = {}

Turns == \A w \in Workers : pc[w] \in TurnSteps => lock[NextUser(w)] = w

Durable ==
  /\ \A t \in committed :
       /\ key[t] \in Keys
       /\ key[t].event \in processed
       /\ t < nextId
       /\ status[t] \in Final
  /\ \A t, p \in committed :
       t # p /\ key[t].user = key[p].user => key[t].event # key[p].event

Consistent == Control /\ OpenRows /\ Marks /\ Turns /\ Durable

IInv == TypeOK /\ Consistent /\ AckedIsSettled

-----------------------------------------------------------------------------
(* The user whose turn it is.                                               *)

\* A set of user ids has a least element.
LEMMA LeastExists ==
  ASSUME NEW S, S \subseteq Nat, S # {}
  PROVE  \E u \in S : \A v \in S : u <= v
<1> DEFINE Less == {p \in Nat \X Nat : p[1] < p[2]}
<1>1. IsWellFoundedOn(Less, Nat)
  BY NatLessThanWellFounded DEF OpToRel
<1> HIDE DEF Less
<1>2. PICK u \in S : \A v \in S : ~ (<<v, u>> \in Less)
  BY <1>1, WFMin
<1>3. \A v \in S : ~ (v < u)
  BY <1>2 DEF Less
<1> QED
  BY <1>2, <1>3

LEMMA NextUserInTodo ==
  ASSUME NEW w \in Workers, todo[w] \subseteq Users, todo[w] # {}
  PROVE  NextUser(w) \in todo[w]
<1>1. \E u \in todo[w] : \A v \in todo[w] : u <= v
  BY ConstantsAssumption, LeastExists
<1> QED
  BY <1>1 DEF NextUser

\* The turn depends on the users left alone.
LEMMA NextUserStable ==
  ASSUME NEW w \in Workers, todo'[w] = todo[w]
  PROVE  NextUser(w)' = NextUser(w)
BY DEF NextUser

-----------------------------------------------------------------------------
(* Type correctness.                                                        *)

LEMMA RollbackType ==
  ASSUME TypeOK, NEW w \in Workers, Rollback(w),
         faults' \in 0 .. MaxFaults, crashes' \in 0 .. MaxCrashes,
         UNCHANGED changes
  PROVE  TypeOK'
BY DEF TypeOK, Rollback, PendAfterFailure, LeaveRecord, Goto, EndTransaction,
       FreeLocks, streamVars, exchangeVars, Statuses, Steps, NoTrade

LEMMA TypeInit == Init => TypeOK
<1> SUFFICES ASSUME Init PROVE TypeOK
  OBVIOUS
<1>1. row \in [Signals -> {"missing", "accepted", "rejected"}]
  BY ConstantsAssumption DEF Init
<1>2. /\ nextId \in 1 .. MaxTrades + 1
      /\ faults \in 0 .. MaxFaults
      /\ crashes \in 0 .. MaxCrashes
      /\ changes \in 0 .. MaxChanges
  BY ConstantsAssumption DEF Init
<1> QED
  BY <1>1, <1>2 DEF Init, TypeOK, Standings, Statuses, Steps

USE DEF streamVars, dbVars, txVars, workerVars, exchangeVars, countVars

LEMMA TypeStep ==
  ASSUME TypeOK, Control, [Next]_vars
  PROVE  TypeOK'
<1> USE ConstantsAssumption
<1>1. ASSUME NEW w \in Workers, NEW r \in Records, ReadRecord(w, r)
      PROVE  TypeOK'
  BY <1>1 DEF TypeOK, ReadRecord, Goto, Steps
<1>2. ASSUME NEW w \in Workers, Lookup(w)
      PROVE  TypeOK'
  BY <1>2 DEF TypeOK, Lookup, LeaveRecord, Goto, Steps
<1>3. ASSUME NEW w \in Workers, InsertMark(w)
      PROVE  TypeOK'
  BY <1>3 DEF TypeOK, Control, InsertMark, Goto, Steps, EligibleUsers
<1>4. ASSUME NEW w \in Workers, BeginTurn(w)
      PROVE  TypeOK'
  BY <1>4 DEF TypeOK, BeginTurn, At, Goto, Steps
<1>5. ASSUME NEW w \in Workers, CreateTrade(w)
      PROVE  TypeOK'
  <2>1. NextUser(w) \in Users
    BY <1>5, NextUserInTodo DEF TypeOK, Control, CreateTrade, TurnSteps
  <2>2. SignalAt(w) \in Signals /\ EventAt(w) \in Events
    BY <1>5 DEF Control, CreateTrade, SignalAt
  <2> QED
    BY <1>5, <2>1, <2>2
    DEF TypeOK, CreateTrade, SetStatus, Goto, Steps, Statuses, Active, Keys,
        TradeIds
<1>6. ASSUME NEW w \in Workers, InsertMarkFails(w)
      PROVE  TypeOK'
  <2>1. CASE Rollback(w)
    BY <1>6, <2>1, RollbackType DEF TypeOK, Fault, NoFault, InsertMarkFails
  <2>2. CASE ~ Rollback(w)
    BY <1>6, <2>2 DEF TypeOK, Fault, NoFault, InsertMarkFails, Goto
  <2> QED
    BY <2>1, <2>2
<1>7. ASSUME NEW w \in Workers, Refuse(w)
      PROVE  TypeOK'
  <2>1. CASE Rollback(w)
    BY <1>7, <2>1, RollbackType DEF TypeOK, Fault, NoFault, Refuse
  <2>2. CASE ~ Rollback(w)
    BY <1>7, <2>2 DEF TypeOK, Fault, NoFault, Refuse, EndTurn, Goto, Steps, NoTrade
  <2> QED
    BY <2>1, <2>2
<1>8. ASSUME NEW w \in Workers, PlaceEntry(w)
      PROVE  TypeOK'
  <2>1. tid[w] \in TradeIds
    BY <1>8 DEF TypeOK, Control, TradeSteps, At, PlaceEntry
  <2> QED
    BY <1>8, <2>1 DEF TypeOK, Fault, NoFault, PlaceEntry, At, Goto, Steps, onlyExchange
<1>9. ASSUME NEW w \in Workers, WaitForFill(w)
      PROVE  TypeOK'
  <2>1. tid[w] \in TradeIds
    BY <1>9 DEF TypeOK, Control, TradeSteps, At, WaitForFill
  <2> QED
    BY <1>9, <2>1 DEF TypeOK, Fault, NoFault, WaitForFill, At, Goto, Steps, onlyExchange
<1>10. ASSUME NEW w \in Workers, CancelEntry(w)
      PROVE  TypeOK'
  <2>1. tid[w] \in TradeIds
    BY <1>10 DEF TypeOK, Control, TradeSteps, At, CancelEntry
  <2> QED
    BY <1>10, <2>1 DEF TypeOK, Fault, NoFault, CancelEntry, EndTurn, SetStatus, Goto, Steps, Statuses, Active, NoTrade, SkippedStatus
<1>11. ASSUME NEW w \in Workers, PlaceStop(w)
      PROVE  TypeOK'
  <2>1. tid[w] \in TradeIds
    BY <1>11 DEF TypeOK, Control, TradeSteps, At, PlaceStop
  <2> QED
    BY <1>11, <2>1 DEF TypeOK, Fault, NoFault, PlaceStop, At, Goto, Steps, onlyExchange
<1>12. ASSUME NEW w \in Workers, ConfirmStop(w)
      PROVE  TypeOK'
  <2>1. tid[w] \in TradeIds
    BY <1>12 DEF TypeOK, Control, TradeSteps, At, ConfirmStop
  <2> QED
    BY <1>12, <2>1 DEF TypeOK, Fault, NoFault, ConfirmStop, At, Goto, Steps, onlyExchange
<1>13. ASSUME NEW w \in Workers, PlaceTargets(w)
      PROVE  TypeOK'
  <2>1. tid[w] \in TradeIds
    BY <1>13 DEF TypeOK, Control, TradeSteps, At, PlaceTargets
  <2> QED
    BY <1>13, <2>1 DEF TypeOK, Fault, NoFault, PlaceTargets, EndTurn, SetStatus, Goto, Steps, Statuses, Active, NoTrade
<1>14. ASSUME NEW w \in Workers, EmergencyClose(w)
      PROVE  TypeOK'
  <2>1. tid[w] \in TradeIds
    BY <1>14 DEF TypeOK, Control, TradeSteps, At, EmergencyClose
  <2> QED
    BY <1>14, <2>1 DEF TypeOK, Fault, NoFault, EmergencyClose, EndTurn, SetStatus, Goto, Steps, Statuses, Active, NoTrade, ClosePosition
<1>15. ASSUME NEW w \in Workers, CleanUp(w)
      PROVE  TypeOK'
  <2>1. tid[w] \in TradeIds
    BY <1>15 DEF TypeOK, Control, TradeSteps, At, CleanUp
  <2> QED
    BY <1>15, <2>1 DEF TypeOK, Fault, NoFault, CleanUp, CancelProtection, EndTurn, SetStatus, Goto, Steps, Statuses, Active, NoTrade
<1>16. ASSUME NEW w \in Workers, Abort(w)
      PROVE  TypeOK'
  <2>1. tid[w] \in TradeIds
    BY <1>16 DEF TypeOK, Control, TradeSteps, At, Abort
  <2> QED
    BY <1>16, <2>1 DEF TypeOK, Fault, NoFault, Abort, At, Goto, Steps, onlyExchange, ClosePosition
<1>17. ASSUME NEW w \in Workers, Sweep(w)
      PROVE  TypeOK'
  <2>1. tid[w] \in TradeIds
    BY <1>17 DEF TypeOK, Control, TradeSteps, At, Sweep
  <2> QED
    BY <1>17, <2>1 DEF TypeOK, Fault, NoFault, Sweep, At, Goto, Steps, onlyExchange
<1>18. ASSUME NEW w \in Workers, ReportError(w)
      PROVE  TypeOK'
  <2>1. CASE Rollback(w)
    BY <1>18, <2>1, RollbackType DEF TypeOK, Fault, NoFault, ReportError
  <2>2. CASE ~ Rollback(w)
    BY <1>18, <2>2 DEF TypeOK, Fault, NoFault, ReportError, EndTurn, SetStatus, Goto, Steps, Statuses, Active, NoTrade, ErrorStatus
  <2> QED
    BY <2>1, <2>2
<1>19. ASSUME NEW w \in Workers, Commit(w)
      PROVE  TypeOK'
  <2>1. CASE Rollback(w)
    BY <1>19, <2>1, RollbackType DEF TypeOK, Fault, NoFault, Commit
  <2>2. CASE ~ Rollback(w)
    BY <1>19, <2>2 DEF TypeOK, Fault, NoFault, Commit, WithMark, EndTransaction, FreeLocks, Goto, Steps, NoTrade
  <2> QED
    BY <2>1, <2>2
<1>20. ASSUME NEW w \in Workers, Ack(w)
      PROVE  TypeOK'
  BY <1>20 DEF TypeOK, Fault, NoFault, Ack, LeaveRecord, Goto, Steps
<1>21. ASSUME NEW w \in Workers, Crash(w)
      PROVE  TypeOK'
  BY <1>21, RollbackType DEF TypeOK, Crash
<1>22. ASSUME NEW t \in TradeIds, EntryFills(t)
      PROVE  TypeOK'
  BY <1>22 DEF TypeOK, EntryFills, onlyExchange
<1>23. ASSUME NEW t \in TradeIds, StopFires(t)
      PROVE  TypeOK'
  BY <1>23 DEF TypeOK, StopFires, onlyExchange
<1>24. ASSUME NEW t \in TradeIds, TradeCloses(t)
      PROVE  TypeOK'
  BY <1>24 DEF TypeOK, TradeCloses, SetStatus, Statuses
<1>25. ASSUME NEW s \in Signals, RowAppears(s)
      PROVE  TypeOK'
  BY <1>25 DEF TypeOK, RowAppears
<1>26. ASSUME NEW u \in Users, NEW s \in Standings, ChangeStanding(u, s)
      PROVE  TypeOK'
  BY <1>26 DEF TypeOK, ChangeStanding
<1>27. CASE UNCHANGED vars
  BY <1>27 DEF TypeOK, vars
<1> QED
  BY <1>1, <1>2, <1>3, <1>4, <1>5, <1>6, <1>7, <1>8, <1>9, <1>10, <1>11, <1>12,
     <1>13, <1>14, <1>15, <1>16, <1>17, <1>18, <1>19, <1>20, <1>21, <1>22,
     <1>23, <1>24, <1>25, <1>26, <1>27
  DEF Next, WorkerStep, Environment

-----------------------------------------------------------------------------
(* What an action does to the database and to the workers.                  *)

coreVars == <<processed, committed, status, key, nextId, txRows, marks, lock,
              pc, cur, todo, tid>>
durableVars == <<processed, committed>>
rowVars == <<key, nextId, txRows, marks, lock>>

\* A call to the exchange within a turn; a cancelled entry is marked skipped
\* on the way to the exception handler.
Advance(w) ==
  /\ pc[w] \in TradeSteps
  /\ \E s \in TradeSteps :
       /\ Goto(w, s)
       /\ s \in HandlerSteps \/ (pc[w] \notin HandlerSteps /\ status' = status)
  /\ status' = status \/ SetStatus(tid[w], "skipped")
  /\ UNCHANGED <<durableVars, rowVars, cur, todo, tid>>

\* The end of a turn that created a trade.
Finish(w) ==
  /\ pc[w] \in TradeSteps
  /\ \E s \in Final :
       SetStatus(tid[w], s) /\ (s = "open" => pc[w] \notin HandlerSteps)
  /\ EndTurn(w)
  /\ UNCHANGED <<durableVars, rowVars>>

\* The end of a turn that created none.
PassOver(w) ==
  /\ pc[w] \in {"verify", "refuse"}
  /\ EndTurn(w)
  /\ UNCHANGED <<durableVars, rowVars, status>>

Undo(w) == pc[w] # "idle" /\ Rollback(w)

CommitWorks(w) ==
  /\ pc[w] = "users"
  /\ todo[w] = {}
  /\ committed' = committed \cup txRows[w]
  /\ processed' = WithMark(w)
  /\ EndTransaction(w)
  /\ Goto(w, "ack")
  /\ UNCHANGED <<cur, status, key, nextId>>

\* Reading, looking up and acknowledging touch no table.
Browse(w) ==
  /\ pc[w] \in {"idle", "lookup", "ack"}
  /\ UNCHANGED <<durableVars, rowVars, status, todo, tid>>
  /\ \/ UNCHANGED <<pc, cur>>
     \/ Goto(w, "lookup") /\ \E r \in Records :
                              EventOf[r] # NoEvent /\ cur' = [cur EXCEPT ![w] = r]
     \/ LeaveRecord(w)
     \/ /\ pc[w] = "lookup"
        /\ Goto(w, IF EventAt(w) \in processed THEN "ack" ELSE "insert")
        /\ UNCHANGED cur

CoreStep ==
  \/ \E w \in Workers :
       \/ Advance(w) \/ Finish(w) \/ PassOver(w) \/ Undo(w) \/ CommitWorks(w)
       \/ Browse(w) \/ InsertMark(w) \/ BeginTurn(w) \/ CreateTrade(w)
  \/ \E t \in TradeIds : TradeCloses(t)
  \/ UNCHANGED coreVars

\* Every step is of one of these classes.
LEMMA Classification ==
  ASSUME TypeOK, Control, [Next]_vars
  PROVE  CoreStep
<1> USE DEF CoreStep, durableVars, rowVars, onlyExchange, coreVars
<1>1. ASSUME NEW w \in Workers, WorkerStep(w)
      PROVE  CoreStep
  <2>1. CASE Lookup(w)
    BY <2>1 DEF Lookup, Browse
  <2>2. CASE Ack(w)
    BY <2>2 DEF Ack, Browse
  <2>3. CASE InsertMark(w) \/ BeginTurn(w) \/ CreateTrade(w)
    BY <2>3
  <2>4. CASE InsertMarkFails(w)
    BY <2>4 DEF InsertMarkFails, Undo
  <2>5. CASE Refuse(w)
    BY <2>5 DEF Refuse, Undo, PassOver
  <2>6. CASE Commit(w)
    BY <2>6 DEF Commit, Undo, CommitWorks
  <2>7. CASE PlaceEntry(w) \/ WaitForFill(w) \/ PlaceStop(w) \/ ConfirmStop(w)
             \/ Abort(w) \/ Sweep(w)
    <3>1. /\ pc[w] \in TradeSteps
          /\ \E s \in TradeSteps :
               Goto(w, s) /\ (s \in HandlerSteps \/ pc[w] \notin HandlerSteps)
          /\ UNCHANGED <<dbVars, txVars, cur, todo, tid>>
      BY <2>7 DEF PlaceEntry, WaitForFill, PlaceStop, ConfirmStop, Abort, Sweep,
                  At, TradeSteps, HandlerSteps
    <3> QED
      BY <3>1 DEF Advance
  <2>8. CASE CancelEntry(w)
    BY <2>8 DEF CancelEntry, Advance, Finish, TradeSteps, HandlerSteps, Final,
                SkippedStatus, SetStatus
  <2>9. CASE PlaceTargets(w) \/ EmergencyClose(w) \/ CleanUp(w)
    BY <2>9 DEF PlaceTargets, EmergencyClose, CleanUp, Advance, Finish,
                TradeSteps, HandlerSteps, Final
  <2>10. CASE ReportError(w)
    BY <2>10 DEF ReportError, Finish, Undo, TradeSteps, Final, ErrorStatus
  <2> QED
    BY <1>1, <2>1, <2>2, <2>3, <2>4, <2>5, <2>6, <2>7, <2>8, <2>9, <2>10
    DEF WorkerStep
<1>2. ASSUME NEW w \in Workers, NEW r \in Records, ReadRecord(w, r)
      PROVE  CoreStep
  BY <1>2 DEF ReadRecord, Browse
<1>3. CASE Environment
  BY <1>3 DEF Environment, Crash, Undo, EntryFills, StopFires, RowAppears,
              ChangeStanding
<1>4. CASE UNCHANGED vars
  BY <1>4 DEF vars
<1> QED
  BY <1>1, <1>2, <1>3, <1>4 DEF Next

-----------------------------------------------------------------------------
(* Each class of steps preserves the invariant.                             *)

LEMMA AdvanceConsistent ==
  ASSUME TypeOK, Consistent, NEW w \in Workers, Advance(w)
  PROVE  Consistent'
<1> USE DEF Consistent, durableVars, rowVars
<1>1. PICK s \in TradeSteps : pc' = [pc EXCEPT ![w] = s]
  BY DEF Advance, Goto
<1>2. /\ UNCHANGED <<durableVars, rowVars, cur, todo, tid>>
      /\ pc[w] \in TradeSteps
      /\ \A v \in Workers : NextUser(v)' = NextUser(v)
  BY NextUserStable DEF Advance
<1>3. \A v \in Workers : v # w => pc'[v] = pc[v]
  BY <1>1 DEF TypeOK
<1>4. pc'[w] \in TradeSteps
  BY <1>1 DEF TypeOK
<1>5. tid[w] \in txRows[w] /\ marks[w] = {EventAt(w)}
  BY <1>2 DEF Control, TurnSteps, InTransaction
<1>6. \A t \in TradeIds : t # tid[w] => status'[t] = status[t]
  BY DEF Advance, SetStatus, TypeOK
<1>7. Control'
  BY <1>2, <1>3, <1>4, <1>5
  DEF Control, EventAt, TradeSteps, TurnSteps, InTransaction
<1>8. Turns'
  BY <1>2, <1>3, <1>4 DEF Turns, TurnSteps
<1>9. Marks'
  BY <1>2 DEF Marks
<1>10. \A v \in Workers : v # w => tid[w] \notin txRows[v]
  BY <1>5 DEF OpenRows, Marks, Control, TypeOK
<1>11. tid[w] \notin committed
  BY <1>5 DEF OpenRows, Marks, Durable
<1>12. OpenRows'
  BY <1>2, <1>6, <1>10 DEF OpenRows, EventAt, TypeOK
<1>13. Durable'
  BY <1>2, <1>6, <1>11 DEF Durable, TypeOK
<1> QED
  BY <1>7, <1>8, <1>9, <1>12, <1>13

\* The turn that ends leaves a row with an outcome, or none.
LEMMA FinishConsistent ==
  ASSUME TypeOK, Consistent, NEW w \in Workers, Finish(w) \/ PassOver(w)
  PROVE  Consistent'
<1> USE DEF Consistent, durableVars, rowVars
<1> DEFINE u == NextUser(w)
<1>1. /\ UNCHANGED <<durableVars, rowVars, cur>>
      /\ pc[w] \in TurnSteps
      /\ todo' = [todo EXCEPT ![w] = @ \ {u}]
      /\ tid' = [tid EXCEPT ![w] = NoTrade]
      /\ pc' = [pc EXCEPT ![w] = "users"]
  BY DEF Finish, PassOver, EndTurn, Goto, TurnSteps
<1> HIDE DEF u
<1>2. /\ pc'[w] = "users"
      /\ tid'[w] = NoTrade
      /\ todo'[w] = todo[w] \ {u}
  BY <1>1 DEF TypeOK
<1>3. \A v \in Workers : v # w => /\ pc'[v] = pc[v]
                                  /\ tid'[v] = tid[v]
                                  /\ todo'[v] = todo[v]
                                  /\ NextUser(v)' = NextUser(v)
  BY <1>1, NextUserStable DEF TypeOK
<1>4. marks[w] = {EventAt(w)}
  BY <1>1 DEF Control, InTransaction
<1>5. \A t \in TradeIds : t # tid[w] \/ t \notin txRows[w] => status'[t] = status[t]
  BY DEF Finish, PassOver, SetStatus, TypeOK, Control
<1>6. \A t \in txRows[w] : t = tid[w] => status'[t] \in Final
  <2>1. CASE Finish(w)
    BY <2>1 DEF Finish, SetStatus, TypeOK
  <2>2. CASE PassOver(w)
    <3>1. tid[w] = 0
      BY <2>2 DEF PassOver, Control, TradeSteps, NoTrade
    <3>2. \A t \in txRows[w] : t # 0
      BY DEF TypeOK, TradeIds
    <3> QED
      BY <3>1, <3>2
  <2> QED
    BY <2>1, <2>2
<1>7. Control'
  BY <1>1, <1>2, <1>3, <1>4
  DEF Control, EventAt, TradeSteps, TurnSteps, InTransaction
<1>8. Turns'
  BY <1>1, <1>2, <1>3 DEF Turns, TurnSteps, TradeSteps
<1>9. Marks'
  BY <1>1 DEF Marks
<1>10. \A v \in Workers : v # w => txRows[w] \cap txRows[v] = {}
  BY <1>4 DEF OpenRows, Marks, Control, TypeOK
<1>11. txRows[w] \cap committed = {}
  BY <1>4 DEF OpenRows, Marks, Durable
<1>12. \A t \in txRows[w] : /\ status'[t] \in Final
                            /\ key[t].user \notin todo'[w]
                            /\ t # NoTrade
  BY <1>2, <1>5, <1>6 DEF OpenRows, u, TypeOK, TradeIds, NoTrade
<1>13. OpenRows'
  BY <1>1, <1>2, <1>3, <1>5, <1>10, <1>12 DEF OpenRows, EventAt, TypeOK
<1>14. Durable'
  BY <1>1, <1>5, <1>11 DEF Durable, TypeOK
<1> QED
  BY <1>7, <1>8, <1>9, <1>13, <1>14

LEMMA UndoConsistent ==
  ASSUME TypeOK, Consistent, NEW w \in Workers, Undo(w)
  PROVE  Consistent'
<1> USE DEF Consistent, Undo
<1>1. /\ UNCHANGED <<processed, committed, key, nextId>>
      /\ txRows' = [txRows EXCEPT ![w] = {}]
      /\ marks' = [marks EXCEPT ![w] = {}]
      /\ lock' = FreeLocks(w)
      /\ todo' = [todo EXCEPT ![w] = {}]
      /\ tid' = [tid EXCEPT ![w] = NoTrade]
      /\ pc' = [pc EXCEPT ![w] = "idle"]
      /\ cur' = [cur EXCEPT ![w] = NoRecord]
      /\ \A t \in TradeIds : t \notin txRows[w] => status'[t] = status[t]
  BY DEF Rollback, EndTransaction, PendAfterFailure, LeaveRecord, Goto
<1>2. pc'[w] = "idle" /\ tid'[w] = NoTrade /\ txRows'[w] = {} /\ marks'[w] = {}
  BY <1>1 DEF TypeOK
<1>3. \A v \in Workers : v # w => /\ pc'[v] = pc[v]
                                  /\ cur'[v] = cur[v]
                                  /\ tid'[v] = tid[v]
                                  /\ todo'[v] = todo[v]
                                  /\ txRows'[v] = txRows[v]
                                  /\ marks'[v] = marks[v]
                                  /\ NextUser(v)' = NextUser(v)
                                  /\ EventAt(v)' = EventAt(v)
  BY <1>1, NextUserStable DEF TypeOK, EventAt
<1>4. \A v \in Workers, u \in Users : v # w /\ lock[u] = v => lock'[u] = v
  BY <1>1 DEF FreeLocks
<1>5. Control'
  BY <1>1, <1>2, <1>3 DEF Control, TradeSteps, TurnSteps, InTransaction
<1>6. \A v \in Workers : pc[v] \in TurnSteps => NextUser(v) \in Users
  BY NextUserInTodo DEF Control, TypeOK
<1>7. Turns'
  BY <1>2, <1>3, <1>4, <1>6 DEF Turns, TurnSteps, TradeSteps
<1>8. Marks'
  BY <1>1, <1>2, <1>3 DEF Marks
<1>9. \A v \in Workers : v # w => txRows[w] \cap txRows[v] = {}
  BY DEF OpenRows, Marks, Control, TypeOK
<1>10. txRows[w] \cap committed = {}
  BY DEF OpenRows, Marks, Durable, Control
<1>11. \A v \in Workers : \A t \in txRows[v] : t \in TradeIds /\ key[t].user \in Users
  BY DEF OpenRows, TypeOK, Keys
<1>12. OpenRows'
  BY <1>1, <1>2, <1>3, <1>4, <1>9, <1>11 DEF OpenRows
<1>13. Durable'
  BY <1>1, <1>10 DEF Durable, TypeOK
<1> QED
  BY <1>5, <1>7, <1>8, <1>12, <1>13

\* What was invisible becomes durable, rows and event together.
LEMMA CommitConsistent ==
  ASSUME TypeOK, Consistent, NEW w \in Workers, CommitWorks(w)
  PROVE  Consistent'
<1> USE DEF Consistent, CommitWorks
<1>1. /\ UNCHANGED <<cur, status, key, nextId>>
      /\ committed' = committed \cup txRows[w]
      /\ processed' = processed \cup marks[w]
      /\ txRows' = [txRows EXCEPT ![w] = {}]
      /\ marks' = [marks EXCEPT ![w] = {}]
      /\ lock' = FreeLocks(w)
      /\ todo' = [todo EXCEPT ![w] = {}]
      /\ tid' = [tid EXCEPT ![w] = NoTrade]
      /\ pc' = [pc EXCEPT ![w] = "ack"]
  BY DEF EndTransaction, Goto, WithMark
<1>2. pc'[w] = "ack" /\ tid'[w] = NoTrade /\ txRows'[w] = {} /\ marks'[w] = {}
  BY <1>1 DEF TypeOK
<1>3. \A v \in Workers : v # w => /\ pc'[v] = pc[v]
                                  /\ tid'[v] = tid[v]
                                  /\ todo'[v] = todo[v]
                                  /\ txRows'[v] = txRows[v]
                                  /\ marks'[v] = marks[v]
                                  /\ NextUser(v)' = NextUser(v)
  BY <1>1, NextUserStable DEF TypeOK
<1>4. \A v \in Workers, u \in Users : v # w /\ lock[u] = v => lock'[u] = v
  BY <1>1 DEF FreeLocks
<1>5. /\ marks[w] = {EventAt(w)}
      /\ tid[w] = NoTrade
      /\ cur[w] \in Records /\ EventAt(w) \in Events
  BY DEF Control, InTransaction, TradeSteps
<1>6. Control'
  BY <1>1, <1>2, <1>3, <1>5
  DEF Control, EventAt, TradeSteps, TurnSteps, InTransaction
<1>7. \A v \in Workers : pc[v] \in TurnSteps => NextUser(v) \in Users
  BY NextUserInTodo DEF Control, TypeOK
<1>8. Turns'
  BY <1>2, <1>3, <1>4, <1>7 DEF Turns, TurnSteps, TradeSteps
<1>9. Marks'
  BY <1>1, <1>2, <1>3 DEF Marks
<1>10. \A v \in Workers : \A t \in txRows[v] : t \in TradeIds /\ key[t].user \in Users
  BY DEF OpenRows, TypeOK, Keys
<1>11. OpenRows'
  BY <1>1, <1>2, <1>3, <1>4, <1>10 DEF OpenRows, EventAt
<1>12. \A t \in txRows[w] : /\ key[t] \in Keys
                            /\ key[t].event = EventAt(w)
                            /\ t < nextId
                            /\ status[t] \in Final
  BY <1>5 DEF OpenRows, TypeOK, TradeIds, NoTrade
<1>13. EventAt(w) \notin processed
  BY <1>5 DEF Marks
<1>14. \A t, p \in txRows[w] : t # p => key[t].user # key[p].user
  BY DEF OpenRows
<1>15. Durable'
  BY <1>1, <1>5, <1>12, <1>13, <1>14 DEF Durable
<1> QED
  BY <1>6, <1>8, <1>9, <1>11, <1>15

LEMMA BrowseConsistent ==
  ASSUME TypeOK, Consistent, NEW w \in Workers, Browse(w)
  PROVE  Consistent'
<1> USE DEF Consistent, durableVars, rowVars
<1>1. /\ UNCHANGED <<durableVars, rowVars, status, todo, tid>>
      /\ pc[w] \in {"idle", "lookup", "ack"}
      /\ pc'[w] \in {"idle", "lookup", "ack", "insert"}
      /\ txRows[w] = {}
  BY DEF Browse, Goto, LeaveRecord, TypeOK, Control, InTransaction, TurnSteps,
         TradeSteps
<1>2. \A v \in Workers : v # w => pc'[v] = pc[v] /\ cur'[v] = cur[v]
  BY DEF Browse, Goto, LeaveRecord, TypeOK
<1>3. \A v \in Workers : /\ NextUser(v)' = NextUser(v)
                         /\ v # w => EventAt(v)' = EventAt(v)
  BY <1>1, <1>2, NextUserStable DEF EventAt
<1>4. /\ pc'[w] # "idle" => cur'[w] \in Records /\ EventAt(w)' \in Events
      /\ pc'[w] = "ack" => EventAt(w)' \in processed
  BY ConstantsAssumption DEF Browse, Goto, LeaveRecord, TypeOK, Control, EventAt
<1>5. Control'
  BY <1>1, <1>2, <1>3, <1>4
  DEF Control, TradeSteps, TurnSteps, InTransaction
<1>6. Turns' /\ Marks'
  BY <1>1, <1>2, <1>3 DEF Turns, Marks, TurnSteps, TradeSteps
<1>7. OpenRows'
  BY <1>1, <1>2, <1>3 DEF OpenRows
<1>8. Durable'
  BY <1>1 DEF Durable
<1> QED
  BY <1>5, <1>6, <1>7, <1>8

LEMMA InsertMarkConsistent ==
  ASSUME TypeOK, Consistent, NEW w \in Workers, InsertMark(w)
  PROVE  Consistent'
<1> USE DEF Consistent, InsertMark
<1>1. /\ UNCHANGED <<dbVars, txRows, lock, cur, tid>>
      /\ pc[w] = "insert" /\ pc' = [pc EXCEPT ![w] = "users"]
      /\ marks' = [marks EXCEPT ![w] = {EventAt(w)}]
  BY DEF Goto
<1>2. /\ pc'[w] = "users" /\ marks'[w] = {EventAt(w)} /\ txRows[w] = {}
      /\ \A v \in Workers : v # w => /\ pc'[v] = pc[v]
                                      /\ marks'[v] = marks[v]
                                      /\ todo'[v] = todo[v]
                                      /\ NextUser(v)' = NextUser(v)
  BY <1>1, NextUserStable
  DEF TypeOK, Control, InTransaction, TurnSteps, TradeSteps
<1>3. Control'
  BY <1>1, <1>2 DEF Control, EventAt, TradeSteps, TurnSteps, InTransaction
<1>4. Turns'
  BY <1>1, <1>2 DEF Turns, TurnSteps, TradeSteps
<1>5. Marks'
  BY <1>1, <1>2 DEF Marks
<1>6. OpenRows'
  BY <1>1, <1>2 DEF OpenRows, EventAt
<1>7. Durable'
  BY <1>1 DEF Durable
<1> QED
  BY <1>3, <1>4, <1>5, <1>6, <1>7

\* The lock was free: nobody's rows belong to the user whose turn begins.
LEMMA BeginTurnConsistent ==
  ASSUME TypeOK, Consistent, NEW w \in Workers, BeginTurn(w)
  PROVE  Consistent'
<1> USE DEF Consistent
<1> DEFINE u == NextUser(w)
<1>1. /\ UNCHANGED <<dbVars, txRows, marks, cur, todo, tid>>
      /\ pc[w] = "users" /\ pc'[w] \in {"verify", "refuse"} /\ todo[w] # {}
      /\ lock[u] = NoWorker /\ lock' = [lock EXCEPT ![u] = w]
      /\ \A v \in Workers : v # w => pc'[v] = pc[v]
  BY DEF BeginTurn, At, Goto, LockFree, TypeOK
<1>2. u \in Users
  BY <1>1, NextUserInTodo DEF TypeOK
<1> HIDE DEF u
<1>3. /\ lock'[u] = w
      /\ \A x \in Users : lock[x] \in Workers => lock'[x] = lock[x]
  BY <1>1, <1>2, ConstantsAssumption DEF TypeOK
<1>4. \A v \in Workers : /\ NextUser(v)' = NextUser(v)
                         /\ EventAt(v)' = EventAt(v)
  BY <1>1, NextUserStable DEF EventAt
<1>5. Control'
  BY <1>1, <1>4 DEF Control, TradeSteps, TurnSteps, InTransaction
<1>6. \A v \in Workers : pc[v] \in TurnSteps => NextUser(v) \in Users
  BY NextUserInTodo DEF Control, TypeOK
<1>7. Turns'
  BY <1>1, <1>3, <1>4, <1>6 DEF Turns, u
<1>8. Marks' /\ Durable'
  BY <1>1 DEF Marks, Durable
<1>9. \A v \in Workers : \A t \in txRows[v] : key[t].user \in Users
  BY DEF OpenRows, Keys
<1>10. OpenRows'
  BY <1>1, <1>3, <1>4, <1>9 DEF OpenRows
<1> QED
  BY <1>5, <1>7, <1>8, <1>10

\* The new row belongs to the user whose lock the worker holds.
LEMMA CreateTradeConsistent ==
  ASSUME TypeOK, Consistent, NEW w \in Workers, CreateTrade(w)
  PROVE  Consistent'
<1> USE DEF Consistent
<1> DEFINE u == NextUser(w)
           k == [user |-> u, signal |-> SignalAt(w), event |-> EventAt(w)]
<1>1. /\ UNCHANGED <<processed, committed, marks, lock, cur, todo>>
      /\ pc[w] = "verify"
      /\ nextId \in TradeIds /\ nextId' = nextId + 1
      /\ tid' = [tid EXCEPT ![w] = nextId]
      /\ txRows' = [txRows EXCEPT ![w] = @ \cup {nextId}]
      /\ pc' = [pc EXCEPT ![w] = "entry"]
      /\ key' = [key EXCEPT ![nextId] = k]
      /\ status' = [status EXCEPT ![nextId] = "pending_entry"]
  BY DEF CreateTrade, SetStatus, Goto
<1>2. /\ u \in todo[w] /\ u \in Users /\ lock[u] = w
      /\ tid[w] = NoTrade
      /\ marks[w] = {EventAt(w)}
  BY <1>1, NextUserInTodo
  DEF TypeOK, Control, Turns, TradeSteps, TurnSteps, InTransaction
<1>3. k \in Keys /\ k.user = u /\ k.event = EventAt(w)
  BY <1>1, <1>2, ConstantsAssumption DEF Control, SignalAt, Keys
<1> HIDE DEF u, k
<1>4. /\ pc'[w] = "entry" /\ tid'[w] = nextId
      /\ txRows'[w] = txRows[w] \cup {nextId}
      /\ key'[nextId] = k
      /\ \A t \in TradeIds : t # nextId => key'[t] = key[t] /\ status'[t] = status[t]
  BY <1>1 DEF TypeOK
<1>5. \A v \in Workers : /\ NextUser(v)' = NextUser(v)
                         /\ EventAt(v)' = EventAt(v)
                         /\ v # w => /\ pc'[v] = pc[v]
                                     /\ tid'[v] = tid[v]
                                     /\ txRows'[v] = txRows[v]
  BY <1>1, NextUserStable DEF TypeOK, EventAt
<1>6. nextId \in Nat /\ nextId \notin committed
      /\ \A v \in Workers : nextId \notin txRows[v]
  BY <1>1 DEF OpenRows, Durable, TypeOK, TradeIds
<1>7. Control'
  BY <1>1, <1>4, <1>5 DEF Control, TradeSteps, TurnSteps, InTransaction
<1>8. Turns'
  BY <1>1, <1>2, <1>4, <1>5 DEF Turns, TurnSteps, TradeSteps, u
<1>9. Marks'
  BY <1>1 DEF Marks
<1>10. \A t \in TradeIds : t < nextId => t < nextId'
  BY <1>1 DEF TradeIds
<1>11. \A t \in txRows[w] : /\ key'[t] = key[t] /\ status'[t] = status[t]
                            /\ status[t] \in Final
                            /\ key[t].user # u
  BY <1>2, <1>4, <1>6 DEF OpenRows, TypeOK, TradeIds, NoTrade
<1>12. ASSUME NEW v \in Workers, v # w
       PROVE  \A t \in txRows'[v] : key'[t] = key[t] /\ status'[t] = status[t]
  BY <1>4, <1>5, <1>6, <1>12 DEF TypeOK
<1>13. OpenRows'
  <2>1. ASSUME NEW v \in Workers, v # w
        PROVE  /\ \A t \in txRows'[v] :
                    /\ key'[t] \in Keys
                    /\ key'[t].event = EventAt(v)'
                    /\ lock'[key'[t].user] = v
                    /\ t < nextId'
                    /\ t = tid'[v] => key'[t].user = NextUser(v)'
                    /\ t # tid'[v] => status'[t] \in Final
                                      /\ key'[t].user \notin todo'[v]
               /\ \A t, p \in txRows'[v] : t # p => key'[t].user # key'[p].user
    BY <1>1, <1>5, <1>10, <1>12, <2>1 DEF OpenRows, TypeOK
  <2>2. \A t \in txRows'[w] :
          /\ key'[t] \in Keys
          /\ key'[t].event = EventAt(w)'
          /\ lock'[key'[t].user] = w
          /\ t < nextId'
          /\ t = tid'[w] => key'[t].user = NextUser(w)'
          /\ t # tid'[w] => status'[t] \in Final /\ key'[t].user \notin todo'[w]
    <3>1. ASSUME NEW t \in txRows[w]
          PROVE  /\ key[t] \in Keys /\ key[t].event = EventAt(w)
                 /\ lock[key[t].user] = w /\ t < nextId /\ t \in TradeIds
                 /\ key[t].user \notin todo[w]
      BY <1>2 DEF OpenRows, TypeOK, TradeIds, NoTrade
    <3>2. nextId < nextId'
      BY <1>1, <1>6
    <3>3. \A t \in txRows[w] : /\ key'[t] = key[t] /\ t # nextId
                               /\ status'[t] \in Final /\ t < nextId'
      BY <1>4, <1>6, <1>10, <1>11, <3>1
    <3>4. /\ tid'[w] = nextId /\ lock' = lock /\ todo' = todo
          /\ NextUser(w)' = u /\ EventAt(w)' = EventAt(w)
      BY <1>1, <1>4, <1>5 DEF u
    <3>5. ASSUME NEW t \in txRows[w]
          PROVE  /\ key'[t] \in Keys /\ key'[t].event = EventAt(w)'
                 /\ lock'[key'[t].user] = w /\ t < nextId' /\ t # tid'[w]
                 /\ status'[t] \in Final /\ key'[t].user \notin todo'[w]
      BY <3>1, <3>3, <3>4
    <3>6. /\ key'[nextId] \in Keys /\ key'[nextId].event = EventAt(w)'
          /\ lock'[key'[nextId].user] = w /\ nextId < nextId'
          /\ key'[nextId].user = NextUser(w)' /\ nextId = tid'[w]
      BY <1>2, <1>3, <1>4, <3>2, <3>4
    <3> QED
      BY <1>4, <3>5, <3>6
  <2>3. \A t, p \in txRows'[w] : t # p => key'[t].user # key'[p].user
    BY <1>3, <1>4, <1>11 DEF OpenRows
  <2> QED
    BY <2>1, <2>2, <2>3 DEF OpenRows
<1>14. Durable'
  BY <1>1, <1>4, <1>6, <1>10 DEF Durable, TypeOK
<1> QED
  BY <1>7, <1>8, <1>9, <1>13, <1>14

LEMMA TradeClosesConsistent ==
  ASSUME TypeOK, Consistent, NEW t \in TradeIds, TradeCloses(t)
  PROVE  Consistent'
<1> USE DEF Consistent
<1>1. /\ UNCHANGED <<processed, committed, key, nextId, txVars, workerVars>>
      /\ t \in committed
      /\ status'[t] = "closed"
      /\ \A p \in TradeIds : p # t => status'[p] = status[p]
  BY DEF TradeCloses, SetStatus, TypeOK
<1>2. \A v \in Workers : NextUser(v)' = NextUser(v) /\ EventAt(v)' = EventAt(v)
  BY <1>1, NextUserStable DEF EventAt
<1>3. \A v \in Workers : t \notin txRows[v]
  BY <1>1 DEF OpenRows, Durable, Marks, Control
<1>4. Control' /\ Turns' /\ Marks'
  BY <1>1, <1>2 DEF Control, Turns, Marks
<1>5. OpenRows'
  BY <1>1, <1>2, <1>3 DEF OpenRows, TypeOK
<1>6. Durable'
  BY <1>1 DEF Durable, TypeOK, Final
<1> QED
  BY <1>4, <1>5, <1>6

-----------------------------------------------------------------------------
(* The invariant, and the theorems it gives.                                *)

LEMMA ConsistentInit == Init => Consistent
BY DEF Init, Consistent, Control, OpenRows, Marks, Turns, Durable, TradeSteps,
       TurnSteps, InTransaction

LEMMA ConsistentStep ==
  ASSUME TypeOK, Consistent, CoreStep
  PROVE  Consistent'
<1>1. CASE UNCHANGED coreVars
  <2>1. \A w \in Workers : NextUser(w)' = NextUser(w)
    BY <1>1, NextUserStable DEF coreVars
  <2>2. Control' /\ Turns' /\ Marks' /\ Durable'
    BY <1>1, <2>1 DEF coreVars, Consistent, Control, Turns, Marks, Durable, EventAt
  <2>3. OpenRows'
    BY <1>1, <2>1 DEF coreVars, Consistent, OpenRows, EventAt
  <2> QED
    BY <2>2, <2>3 DEF Consistent
<1> QED
  BY <1>1, AdvanceConsistent, FinishConsistent, UndoConsistent, CommitConsistent,
     BrowseConsistent, InsertMarkConsistent, BeginTurnConsistent,
     CreateTradeConsistent, TradeClosesConsistent
  DEF CoreStep

\* Only Ack and the reader change the state of a record.
LEMMA RecordStep ==
  ASSUME [Next]_vars
  PROVE  \/ UNCHANGED rec
         \/ \E w \in Workers : Ack(w) \/ \E r \in Records : ReadRecord(w, r)
<1>1. ASSUME NEW w \in Workers, WorkerStep(w), ~ Ack(w)
      PROVE  UNCHANGED rec
  BY <1>1
  DEF WorkerStep, Lookup, InsertMark, InsertMarkFails, BeginTurn, Refuse,
      CreateTrade, PlaceEntry, WaitForFill, CancelEntry, PlaceStop, ConfirmStop,
      PlaceTargets, EmergencyClose, CleanUp, Abort, Sweep, ReportError, Commit,
      Rollback, onlyExchange
<1>2. ASSUME Environment
      PROVE  UNCHANGED rec
  BY <1>2
  DEF Environment, Crash, EntryFills, StopFires, TradeCloses, RowAppears,
      ChangeStanding, Rollback, onlyExchange
<1> QED
  BY <1>1, <1>2 DEF Next, vars

\* No committed event is ever forgotten.
LEMMA AckedStep ==
  ASSUME TypeOK, Consistent, AckedIsSettled, [Next]_vars
  PROVE  AckedIsSettled'
<1>1. processed \subseteq processed'
  BY Classification
  DEF CoreStep, Consistent, Advance, Finish, PassOver, Undo, CommitWorks, Browse,
      InsertMark, BeginTurn, CreateTrade, TradeCloses, Rollback, WithMark,
      durableVars, coreVars
<1>2. CASE UNCHANGED rec
  BY <1>1, <1>2 DEF AckedIsSettled
<1>3. ASSUME NEW w \in Workers, Ack(w)
      PROVE  AckedIsSettled'
  BY <1>1, <1>3 DEF Ack, AckedIsSettled, Consistent, Control, EventAt, TypeOK
<1>4. ASSUME NEW w \in Workers, NEW r \in Records, ReadRecord(w, r)
      PROVE  AckedIsSettled'
  BY <1>1, <1>4 DEF ReadRecord, AckedIsSettled, TypeOK
<1> QED
  BY <1>2, <1>3, <1>4, RecordStep

\* The inductive invariant holds in every reachable state.
THEOREM Invariance == Spec => []IInv
<1>1. Init => IInv
  BY TypeInit, ConsistentInit DEF IInv, AckedIsSettled, Init
<1>2. IInv /\ [Next]_vars => IInv'
  BY TypeStep, Classification, ConsistentStep, AckedStep DEF IInv, Consistent
<1> QED
  BY <1>1, <1>2, PTL DEF Spec

\* Every variable keeps its type; in particular an outcome of a trade is one
\* the rest of the system knows.
THEOREM TypeCorrect == Spec => []TypeOK
<1>1. IInv => TypeOK
  BY DEF IInv
<1> QED
  BY <1>1, Invariance, PTL

\* An event's trades are committed with its processed_events row and once,
\* whatever crashes and redeliveries do to the record that carries it.
THEOREM ExecutedOnce == Spec => []EventExecutedOnce
<1>1. IInv => EventExecutedOnce
  BY DEF IInv, Consistent, Durable, EventExecutedOnce
<1> QED
  BY <1>1, Invariance, PTL

\* No transaction commits a trade whose turn was left half way.
THEOREM NothingLeftPending == Spec => []NoTradeLeftPending
<1>1. IInv => NoTradeLeftPending
  BY DEF IInv, Consistent, Durable, NoTradeLeftPending, Final
<1> QED
  BY <1>1, Invariance, PTL

\* An acknowledged record's event is durable.
THEOREM AckedSettled == Spec => []AckedIsSettled
<1>1. IInv => AckedIsSettled
  BY DEF IInv
<1> QED
  BY <1>1, Invariance, PTL

-----------------------------------------------------------------------------
(* Take-profits behind a stop-loss.                                         *)

\* The stop that was confirmed is still there when the take-profits follow:
\* whoever sweeps the symbol holds the lock of the same user.
Confirmed ==
  \A w \in Workers : pc[w] = "targets" => tid[w] \in stops \cup fired

Protected == TargetsBehindStop /\ Confirmed

LEMMA ProtectedCleanUp ==
  ASSUME TypeOK, Consistent, Protected, NEW w \in Workers, CleanUp(w)
  PROVE  Protected'
<1> DEFINE P == Peers(tid[w])
<1>1. /\ UNCHANGED fired
      /\ \/ UNCHANGED <<stops, targets>>
         \/ stops' = stops \ P /\ targets' = targets \ P
      /\ pc'[w] = "users"
      /\ \A v \in Workers : v # w => pc'[v] = pc[v] /\ tid'[v] = tid[v]
  BY DEF CleanUp, CancelProtection, EndTurn, Goto, TypeOK
<1>2. ASSUME NEW v \in Workers, v # w, pc[v] = "targets"
      PROVE  tid[v] \notin P
  <2>1. /\ tid[v] \in txRows[v] /\ tid[w] \in txRows[w]
    BY <1>2 DEF CleanUp, Consistent, Control, TradeSteps
  <2>2. lock[key[tid[v]].user] = v /\ lock[key[tid[w]].user] = w
    BY <2>1 DEF Consistent, OpenRows
  <2> QED
    BY <1>2, <2>2 DEF Peers
<1>3. TargetsBehindStop'
  BY <1>1 DEF Protected, TargetsBehindStop
<1> HIDE DEF P
<1>4. Confirmed'
  BY <1>1, <1>2 DEF Protected, Confirmed
<1> QED
  BY <1>3, <1>4 DEF Protected

\* Steps that leave the protective orders alone and do not enter "targets".
LEMMA ProtectedElsewhere ==
  ASSUME Protected, UNCHANGED <<stops, targets, fired>>,
         \A w \in Workers : pc'[w] = "targets" =>
                              pc[w] = "targets" /\ tid'[w] = tid[w]
  PROVE  Protected'
BY DEF Protected, TargetsBehindStop, Confirmed

LEMMA ProtectedStep ==
  ASSUME TypeOK, Consistent, Protected, [Next]_vars
  PROVE  Protected'
<1>1. ASSUME NEW w \in Workers, PlaceStop(w)
      PROVE  Protected'
  BY <1>1 DEF PlaceStop, At, Goto, TypeOK, Protected, TargetsBehindStop, Confirmed
<1>2. ASSUME NEW w \in Workers, ConfirmStop(w)
      PROVE  Protected'
  BY <1>2 DEF ConfirmStop, StopConfirmed, At, Goto, TypeOK, Protected,
              TargetsBehindStop, Confirmed
<1>3. ASSUME NEW w \in Workers, PlaceTargets(w)
      PROVE  Protected'
  BY <1>3 DEF PlaceTargets, EndTurn, Goto, TypeOK, Protected, TargetsBehindStop,
              Confirmed
<1>4. ASSUME NEW t \in TradeIds, StopFires(t) \/ TradeCloses(t)
      PROVE  Protected'
  BY <1>4 DEF StopFires, TradeCloses, Protected, TargetsBehindStop, Confirmed
<1>5. ASSUME NEW w \in Workers,
             \/ Lookup(w) \/ InsertMark(w) \/ InsertMarkFails(w) \/ Refuse(w)
             \/ ReportError(w) \/ Commit(w) \/ Ack(w) \/ Crash(w)
      PROVE  Protected'
  <2>1. UNCHANGED <<stops, targets, fired>>
    BY <1>5 DEF Lookup, InsertMark, InsertMarkFails, Refuse, ReportError, Commit,
                Ack, Crash, Rollback
  <2>2. pc'[w] # "targets"
    BY <1>5 DEF Lookup, InsertMark, InsertMarkFails, Refuse, ReportError, Commit,
                Ack, Crash, Rollback, PendAfterFailure, LeaveRecord, EndTurn,
                Goto, TypeOK
  <2>3. \A v \in Workers : v # w => pc'[v] = pc[v] /\ tid'[v] = tid[v]
    BY <1>5 DEF Lookup, InsertMark, InsertMarkFails, Refuse, ReportError, Commit,
                Ack, Crash, Rollback, PendAfterFailure, LeaveRecord, EndTurn,
                EndTransaction, Goto, TypeOK
  <2> QED
    BY <2>1, <2>2, <2>3, ProtectedElsewhere
<1>6. ASSUME NEW w \in Workers,
             \/ BeginTurn(w) \/ CreateTrade(w) \/ PlaceEntry(w) \/ WaitForFill(w)
             \/ CancelEntry(w) \/ EmergencyClose(w) \/ Abort(w) \/ Sweep(w)
      PROVE  Protected'
  <2>1. UNCHANGED <<stops, targets, fired>>
    BY <1>6 DEF BeginTurn, CreateTrade, PlaceEntry, WaitForFill, CancelEntry,
                EmergencyClose, Abort, Sweep
  <2>2. pc'[w] # "targets"
    BY <1>6 DEF BeginTurn, CreateTrade, PlaceEntry, WaitForFill, CancelEntry,
                EmergencyClose, Abort, Sweep, EndTurn, At, Goto, TypeOK
  <2>3. \A v \in Workers : v # w => pc'[v] = pc[v] /\ tid'[v] = tid[v]
    BY <1>6 DEF BeginTurn, CreateTrade, PlaceEntry, WaitForFill, CancelEntry,
                EmergencyClose, Abort, Sweep, EndTurn, At, Goto, TypeOK
  <2> QED
    BY <2>1, <2>2, <2>3, ProtectedElsewhere
<1>7. ASSUME NEW w \in Workers, NEW r \in Records, ReadRecord(w, r)
      PROVE  Protected'
  BY <1>7 DEF ReadRecord, Goto, TypeOK, Protected, TargetsBehindStop, Confirmed
<1>8. CASE \/ \E t \in TradeIds : EntryFills(t)
           \/ \E s \in Signals : RowAppears(s)
           \/ \E u \in Users, s \in Standings : ChangeStanding(u, s)
           \/ UNCHANGED vars
  BY <1>8, ProtectedElsewhere DEF EntryFills, RowAppears, ChangeStanding, vars
<1> QED
  BY <1>1, <1>2, <1>3, <1>4, <1>5, <1>6, <1>7, <1>8, ProtectedCleanUp
  DEF Next, WorkerStep, Environment

\* No take-profit order is live unless its trade's stop-loss is, or was
\* executed.
THEOREM TargetsProtected == Spec => []TargetsBehindStop
<1>1. Init => Protected
  BY DEF Init, Protected, TargetsBehindStop, Confirmed
<1>2. IInv /\ Protected /\ [Next]_vars => Protected'
  BY ProtectedStep DEF IInv
<1>3. Protected => TargetsBehindStop
  BY DEF Protected
<1> QED
  BY <1>1, <1>2, <1>3, Invariance, PTL DEF Spec
-----------------------------------------------------------------------------
(* Open trades behind a stop-loss.  The property is proved of every open    *)
(* trade, whether its entry has put on a position or not: what stops it     *)
(* from being inductive is only what may be said of rows and locks.         *)

\* Ids are given out in increasing order.
Fresh == \A t \in TradeIds : status[t] # "none" \/ t \in slId => t < nextId

\* The trade of a turn is the newest of its user, since the turn holds the
\* user's lock, and is not recorded as protected before the turn ends.
Newest ==
  \A w \in Workers : pc[w] \in TradeSteps =>
    /\ tid[w] \notin slId
    /\ \A t \in Live : t # tid[w] /\ key[t].user = key[tid[w]].user => t < tid[w]

\* Its own stop, or a later trade of the symbol whose clean-up took it.
Shield(t) == t \in stops \cup fired \/ \E p \in Peers(t) \cap cleaned : p > t

Covered == \A t \in Live \cap slId : status[t] = "open" => Shield(t)

\* Closed or rolled back, with no turn at it any more.
Ended(t) ==
  /\ status[t] \in {"closed", "lost"}
  /\ \A w \in Workers : pc[w] \in TradeSteps => tid[w] # t

Cleaned == \A t \in cleaned : Ended(t)

LEMMA LiveType ==
  ASSUME TypeOK
  PROVE  Live \subseteq TradeIds
BY DEF TypeOK, Live

\* No row is in two transactions, or in one and committed.
LEMMA RowsApart ==
  ASSUME TypeOK, Consistent
  PROVE  \A w \in Workers :
           /\ txRows[w] \cap committed = {}
           /\ \A v \in Workers : v # w => txRows[w] \cap txRows[v] = {}
<1>1. ASSUME NEW w \in Workers, NEW t \in txRows[w]
      PROVE  lock[key[t].user] = w
  BY DEF Consistent, OpenRows
<1>2. ASSUME NEW w \in Workers, NEW t \in txRows[w]
      PROVE  t \notin committed
  <2>1. key[t].event = EventAt(w)
    BY DEF Consistent, OpenRows
  <2>2. marks[w] = {EventAt(w)}
    BY DEF Consistent, Control
  <2>3. key[t].event \notin processed
    BY <2>1, <2>2 DEF Consistent, Marks
  <2> QED
    BY <2>3 DEF Consistent, Durable
<1>3. ASSUME NEW w \in Workers, NEW v \in Workers, v # w
      PROVE  txRows[w] \cap txRows[v] = {}
  BY <1>1, <1>3
<1> QED
  BY <1>2, <1>3

\* A row that was given out keeps its key, and is never "none" again.
LEMMA RowsStay ==
  ASSUME TypeOK, Fresh, CoreStep, NEW t \in TradeIds, status[t] # "none"
  PROVE  status'[t] # "none" /\ key'[t] = key[t]
<1> USE DEF durableVars, rowVars
<1>1. ASSUME NEW w \in Workers, Advance(w) \/ Finish(w) \/ PassOver(w)
      PROVE  status'[t] # "none" /\ key'[t] = key[t]
  BY <1>1 DEF Advance, Finish, PassOver, SetStatus, Final, TypeOK
<1>2. ASSUME NEW w \in Workers, Undo(w)
      PROVE  status'[t] # "none" /\ key'[t] = key[t]
  BY <1>2 DEF Undo, Rollback
<1>3. ASSUME NEW w \in Workers,
             CommitWorks(w) \/ Browse(w) \/ InsertMark(w) \/ BeginTurn(w)
      PROVE  status'[t] # "none" /\ key'[t] = key[t]
  BY <1>3 DEF CommitWorks, Browse, InsertMark, BeginTurn
<1>4. ASSUME NEW w \in Workers, CreateTrade(w)
      PROVE  status'[t] # "none" /\ key'[t] = key[t]
  <2>1. t # nextId
    BY DEF Fresh, TypeOK, TradeIds
  <2> QED
    BY <1>4, <2>1 DEF CreateTrade, SetStatus, TypeOK
<1>5. ASSUME NEW p \in TradeIds, TradeCloses(p)
      PROVE  status'[t] # "none" /\ key'[t] = key[t]
  BY <1>5 DEF TradeCloses, SetStatus, TypeOK
<1>6. CASE UNCHANGED coreVars
  BY <1>6 DEF coreVars
<1> QED
  BY <1>1, <1>2, <1>3, <1>4, <1>5, <1>6 DEF CoreStep

\* Only the end of a protected turn adds to the recorded stops.
LEMMA RecordedStep ==
  ASSUME [Next]_vars
  PROVE  slId' \subseteq slId \/ \E w \in Workers : PlaceTargets(w)
<1>1. ASSUME NEW w \in Workers, WorkerStep(w), ~ PlaceTargets(w)
      PROVE  slId' \subseteq slId
  BY <1>1
  DEF WorkerStep, Lookup, InsertMark, InsertMarkFails, BeginTurn, Refuse,
      CreateTrade, PlaceEntry, WaitForFill, CancelEntry, PlaceStop, ConfirmStop,
      EmergencyClose, CleanUp, Abort, Sweep, ReportError, Commit, Ack,
      Rollback, onlyExchange
<1>2. ASSUME Environment
      PROVE  slId' \subseteq slId
  BY <1>2
  DEF Environment, Crash, EntryFills, StopFires, TradeCloses, RowAppears,
      ChangeStanding, Rollback, onlyExchange
<1>3. ASSUME NEW w \in Workers, NEW r \in Records, ReadRecord(w, r)
      PROVE  slId' \subseteq slId
  BY <1>3 DEF ReadRecord
<1> QED
  BY <1>1, <1>2, <1>3 DEF Next, vars

LEMMA FreshStep ==
  ASSUME TypeOK, Consistent, Fresh, CoreStep, [Next]_vars
  PROVE  Fresh'
<1> USE DEF durableVars, rowVars
<1>1. nextId' = nextId \/ \E w \in Workers : CreateTrade(w)
  BY DEF CoreStep, Advance, Finish, PassOver, Undo, Rollback, CommitWorks, Browse,
         InsertMark, BeginTurn, TradeCloses, coreVars
<1>2. ASSUME NEW w \in Workers, CreateTrade(w)
      PROVE  Fresh'
  BY <1>2 DEF Fresh, CreateTrade, SetStatus, TypeOK, TradeIds
<1>3. ASSUME NEW w \in Workers, PlaceTargets(w)
      PROVE  Fresh'
  <2>1. tid[w] \in TradeIds /\ tid[w] < nextId
    BY <1>3 DEF PlaceTargets, Consistent, Control, OpenRows, TradeSteps, TypeOK
  <2> QED
    BY <1>3, <2>1 DEF Fresh, PlaceTargets, SetStatus, TypeOK
<1>4. CASE nextId' = nextId /\ slId' \subseteq slId
  <2>1. ASSUME NEW t \in TradeIds, status'[t] # "none", status[t] = "none"
        PROVE  t < nextId
    <3>1. ASSUME NEW w \in Workers, Advance(w) \/ Finish(w)
          PROVE  t < nextId
      BY <2>1, <3>1 DEF Advance, Finish, SetStatus, TypeOK, Consistent, Control,
                        OpenRows
    <3>2. ASSUME NEW w \in Workers, Undo(w)
          PROVE  t < nextId
      BY <2>1, <3>2 DEF Undo, Rollback, Consistent, OpenRows
    <3>3. ASSUME NEW w \in Workers,
                 PassOver(w) \/ CommitWorks(w) \/ Browse(w) \/ InsertMark(w)
                   \/ BeginTurn(w)
          PROVE  FALSE
      BY <2>1, <3>3 DEF PassOver, CommitWorks, Browse, InsertMark, BeginTurn
    <3>4. ASSUME NEW w \in Workers, CreateTrade(w)
          PROVE  FALSE
      BY <1>4, <3>4 DEF CreateTrade, TypeOK
    <3>5. ASSUME NEW p \in TradeIds, TradeCloses(p)
          PROVE  FALSE
      BY <2>1, <3>5 DEF TradeCloses, SetStatus, TypeOK
    <3> QED
      BY <2>1, <3>1, <3>2, <3>3, <3>4, <3>5 DEF CoreStep, coreVars
  <2> QED
    BY <1>4, <2>1 DEF Fresh
<1> QED
  BY <1>1, <1>2, <1>3, <1>4, RecordedStep

\* Only CreateTrade adds a row.
LEMMA LiveStep ==
  ASSUME TypeOK, CoreStep
  PROVE  \/ key' = key /\ Live' \subseteq Live
         \/ \E w \in Workers : CreateTrade(w)
<1> USE DEF durableVars, rowVars
<1>1. ASSUME NEW w \in Workers,
             \/ Advance(w) \/ Finish(w) \/ PassOver(w) \/ Browse(w)
             \/ InsertMark(w) \/ BeginTurn(w)
      PROVE  key' = key /\ Live' = Live
  BY <1>1 DEF Advance, Finish, PassOver, Browse, InsertMark, BeginTurn, Live
<1>2. ASSUME NEW w \in Workers, Undo(w)
      PROVE  key' = key /\ Live' \subseteq Live
  <2>1. /\ UNCHANGED <<key, committed>>
        /\ \A v \in Workers : txRows'[v] \subseteq txRows[v]
    BY <1>2 DEF Undo, Rollback, EndTransaction, TypeOK
  <2> QED
    BY <2>1 DEF Live
<1>3. ASSUME NEW w \in Workers, CommitWorks(w)
      PROVE  key' = key /\ Live' \subseteq Live
  <2>1. /\ key' = key
        /\ committed' = committed \cup txRows[w]
        /\ \A v \in Workers : txRows'[v] \subseteq txRows[v]
    BY <1>3 DEF CommitWorks, EndTransaction, TypeOK
  <2> QED
    BY <2>1 DEF Live
<1>4. ASSUME NEW t \in TradeIds, TradeCloses(t)
      PROVE  key' = key /\ Live' = Live
  BY <1>4 DEF TradeCloses, Live
<1>5. CASE UNCHANGED coreVars
  BY <1>5 DEF coreVars, Live
<1> QED
  BY <1>1, <1>2, <1>3, <1>4, <1>5 DEF CoreStep

\* A worker within a turn's trade was there before, or just created it.
LEMMA TurnStep ==
  ASSUME TypeOK, CoreStep, NEW w \in Workers, pc'[w] \in TradeSteps
  PROVE  (pc[w] \in TradeSteps /\ tid'[w] = tid[w]) \/ CreateTrade(w)
<1> USE DEF durableVars, rowVars, TypeOK, Goto, TradeSteps
<1>1. ASSUME NEW v \in Workers, Advance(v)
      PROVE  pc[w] \in TradeSteps /\ tid'[w] = tid[w]
  BY <1>1 DEF Advance
<1>2. ASSUME NEW v \in Workers, Finish(v) \/ PassOver(v)
      PROVE  pc[w] \in TradeSteps /\ tid'[w] = tid[w]
  BY <1>2 DEF Finish, PassOver, EndTurn
<1>3. ASSUME NEW v \in Workers, Undo(v)
      PROVE  pc[w] \in TradeSteps /\ tid'[w] = tid[w]
  BY <1>3 DEF Undo, Rollback, EndTransaction, PendAfterFailure, LeaveRecord
<1>4. ASSUME NEW v \in Workers, CommitWorks(v)
      PROVE  pc[w] \in TradeSteps /\ tid'[w] = tid[w]
  BY <1>4 DEF CommitWorks, EndTransaction
<1>5. ASSUME NEW v \in Workers, Browse(v) \/ InsertMark(v) \/ BeginTurn(v)
      PROVE  pc[w] \in TradeSteps /\ tid'[w] = tid[w]
  BY <1>5 DEF Browse, LeaveRecord, InsertMark, BeginTurn, At
<1>6. ASSUME NEW v \in Workers, CreateTrade(v), v # w
      PROVE  pc[w] \in TradeSteps /\ tid'[w] = tid[w]
  BY <1>6 DEF CreateTrade
<1>7. ASSUME NEW t \in TradeIds, TradeCloses(t)
      PROVE  pc[w] \in TradeSteps /\ tid'[w] = tid[w]
  BY <1>7 DEF TradeCloses
<1>8. CASE UNCHANGED coreVars
  BY <1>8 DEF coreVars
<1> QED
  BY <1>1, <1>2, <1>3, <1>4, <1>5, <1>6, <1>7, <1>8 DEF CoreStep

\* Rows of a user whose lock a turn holds come from that turn alone.
LEMMA NewestStep ==
  ASSUME TypeOK, Consistent, Fresh, Newest, CoreStep, [Next]_vars
  PROVE  Newest'
<1>1. ASSUME NEW w \in Workers, pc'[w] \in TradeSteps
      PROVE  tid'[w] \notin slId'
  <2>1. CASE pc[w] \in TradeSteps /\ tid'[w] = tid[w]
    <3>1. tid[w] \notin slId
      BY <2>1 DEF Newest
    <3>2. ASSUME NEW v \in Workers, PlaceTargets(v)
          PROVE  tid[w] \notin slId'
      <4>1. w # v
        BY <1>1, <3>2 DEF PlaceTargets, EndTurn, Goto, TypeOK, TradeSteps
      <4>2. tid[v] \in txRows[v] /\ tid[w] \in txRows[w]
        BY <2>1, <3>2 DEF PlaceTargets, Consistent, Control, TradeSteps
      <4> QED
        BY <3>1, <3>2, <4>1, <4>2, RowsApart DEF PlaceTargets
    <3> QED
      BY <2>1, <3>1, <3>2, RecordedStep
  <2>2. CASE CreateTrade(w)
    BY <2>2 DEF Fresh, CreateTrade, TypeOK, TradeIds
  <2> QED
    BY <1>1, <2>1, <2>2, TurnStep
<1>2. ASSUME NEW w \in Workers, pc'[w] \in TradeSteps, NEW t \in Live',
             t # tid'[w], key'[t].user = key'[tid'[w]].user
      PROVE  t < tid'[w]
  <2>1. CASE CreateTrade(w)
    <3>1. /\ tid'[w] = nextId
          /\ \A v \in Workers : v # w => txRows'[v] = txRows[v]
          /\ txRows'[w] = txRows[w] \cup {nextId}
          /\ committed' = committed
      BY <2>1 DEF CreateTrade, TypeOK
    <3>2. t \in Live
      BY <1>2, <3>1 DEF Live
    <3> QED
      BY <3>1, <3>2 DEF Live, Consistent, OpenRows, Durable
  <2>2. ASSUME pc[w] \in TradeSteps, tid'[w] = tid[w], ~ CreateTrade(w)
        PROVE  t < tid[w]
    <3>1. tid[w] \in txRows[w] /\ lock[key[tid[w]].user] = w
      BY <2>2 DEF Consistent, Control, OpenRows
    <3>2. CASE key' = key /\ Live' \subseteq Live
      BY <1>2, <2>2, <3>2 DEF Newest
    <3>3. ASSUME NEW v \in Workers, CreateTrade(v)
          PROVE  t < tid[w]
      <4>1. /\ key'[nextId].user = NextUser(v)
            /\ \A p \in TradeIds : p # nextId => key'[p] = key[p]
            /\ pc[v] = "verify"
            /\ \A x \in Workers : x # v => txRows'[x] = txRows[x]
            /\ txRows'[v] = txRows[v] \cup {nextId}
            /\ committed' = committed
        BY <3>3 DEF CreateTrade, TypeOK
      <4>2. lock[NextUser(v)] = v /\ v # w
        BY <2>2, <3>3, <4>1 DEF Consistent, Turns, TurnSteps
      <4>3. tid[w] \in TradeIds /\ tid[w] # nextId
        BY <3>1 DEF Consistent, OpenRows, TypeOK, TradeIds
      <4>4. t # nextId
        BY <1>2, <2>2, <3>1, <4>1, <4>2, <4>3
      <4>5. t \in Live /\ t \in TradeIds
        BY <1>2, <4>1, <4>4, LiveType DEF Live
      <4> QED
        BY <1>2, <2>2, <4>1, <4>3, <4>4, <4>5 DEF Newest
    <3> QED
      BY <3>2, <3>3, LiveStep
  <2> QED
    BY <1>2, <2>1, <2>2, TurnStep
<1> QED
  BY <1>1, <1>2 DEF Newest

-----------------------------------------------------------------------------
(* The cover of an open trade, step by step.                                *)

\* A shield lasts as long as no stop is taken away.
LEMMA ShieldStays ==
  ASSUME TypeOK, Fresh, CoreStep, NEW t \in TradeIds, status[t] # "none",
         stops \cup fired \subseteq stops' \cup fired', cleaned \subseteq cleaned',
         Shield(t)
  PROVE  Shield(t)'
<1>1. CASE t \in stops \cup fired
  BY <1>1 DEF Shield
<1>2. ASSUME NEW p \in Peers(t) \cap cleaned, p > t
      PROVE  Shield(t)'
  <2>1. /\ status'[p] # "none" /\ key'[p] = key[p]
        /\ key'[t] = key[t] /\ p \in TradeIds
    BY <1>2, RowsStay DEF Peers
  <2>2. p \in Peers(t)'
    BY <1>2, <2>1 DEF Peers
  <2> QED
    BY <1>2, <2>2 DEF Shield
<1> QED
  BY <1>1, <1>2 DEF Shield

\* Steps that record no trade as open and take no stop away.
LEMMA CoverStays ==
  ASSUME TypeOK, Fresh, Covered, CoreStep,
         \A t \in Live' : status'[t] = "open" =>
           t \in Live /\ status[t] = "open" /\ (t \in slId' <=> t \in slId),
         stops \cup fired \subseteq stops' \cup fired', cleaned \subseteq cleaned'
  PROVE  Covered'
<1> SUFFICES ASSUME NEW t \in Live', t \in slId', status'[t] = "open"
             PROVE  Shield(t)'
  BY DEF Covered
<1>1. /\ t \in Live /\ status[t] = "open" /\ (t \in slId' <=> t \in slId)
      /\ t \in TradeIds
  BY LiveType
<1> QED
  BY <1>1, ShieldStays DEF Covered

LEMMA CoverTargets ==
  ASSUME TypeOK, Consistent, Fresh, Covered, Confirmed, CoreStep,
         NEW w \in Workers, PlaceTargets(w)
  PROVE  Covered'
<1>1. /\ UNCHANGED <<stops, fired, cleaned, committed, txRows>>
      /\ slId' = slId \cup {tid[w]}
      /\ \A t \in TradeIds : t # tid[w] => status'[t] = status[t]
      /\ tid[w] \in stops \cup fired
  BY DEF PlaceTargets, SetStatus, TypeOK, Confirmed
<1> SUFFICES ASSUME NEW t \in Live', t \in slId', status'[t] = "open"
             PROVE  Shield(t)'
  BY DEF Covered
<1>2. t \in Live /\ t \in TradeIds
  BY <1>1, LiveType DEF Live
<1>3. CASE t = tid[w]
  BY <1>1, <1>3 DEF Shield
<1>4. CASE t # tid[w]
  BY <1>1, <1>2, <1>4, ShieldStays DEF Covered
<1> QED
  BY <1>3, <1>4

LEMMA CoverEmergency ==
  ASSUME TypeOK, Consistent, Fresh, Newest, Covered, CoreStep,
         NEW w \in Workers, EmergencyClose(w)
  PROVE  Covered'
<1>1. /\ UNCHANGED <<stops, fired, committed, txRows, slId>>
      /\ cleaned \subseteq cleaned'
      /\ \A t \in TradeIds : t # tid[w] => status'[t] = status[t]
      /\ tid[w] \notin slId
  BY DEF EmergencyClose, SetStatus, TypeOK, Newest, TradeSteps
<1> SUFFICES ASSUME NEW t \in Live', t \in slId', status'[t] = "open"
             PROVE  Shield(t)'
  BY DEF Covered
<1>2. t \in Live /\ t \in TradeIds
  BY <1>1, LiveType DEF Live
<1>3. t # tid[w] /\ status[t] = "open"
  BY <1>1, <1>2
<1> QED
  BY <1>1, <1>2, <1>3, ShieldStays DEF Covered

\* The clean-up takes the stops of older trades of the user and symbol.
LEMMA CoverCleanUp ==
  ASSUME TypeOK, Consistent, Fresh, Newest, Covered, CoreStep,
         NEW w \in Workers, CleanUp(w)
  PROVE  Covered'
<1>1. /\ UNCHANGED <<fired, committed, txRows, slId, key>>
      /\ \/ UNCHANGED <<stops, cleaned>>
         \/ /\ stops' = stops \ Peers(tid[w])
            /\ cleaned' = cleaned \cup {tid[w]}
      /\ \A t \in TradeIds : t # tid[w] => status'[t] = status[t]
      /\ tid[w] \in TradeIds /\ status'[tid[w]] = "closed"
      /\ pc[w] \in TradeSteps
  BY DEF CleanUp, CancelProtection, SetStatus, TypeOK, Consistent, Control,
         TradeSteps
<1> SUFFICES ASSUME NEW t \in Live', t \in slId', status'[t] = "open"
             PROVE  Shield(t)'
  BY DEF Covered
<1>2. t \in Live /\ t \in TradeIds /\ t # tid[w] /\ status[t] = "open"
  BY <1>1, LiveType DEF Live
<1>3. CASE t \in stops /\ t \notin stops'
  <2>1. t \in Peers(tid[w])
    BY <1>1, <1>3
  <2>2. t < tid[w]
    BY <1>1, <1>2, <2>1 DEF Newest, Peers
  <2>3. tid[w] \in Peers(t)'
    BY <1>1, <2>1 DEF Peers
  <2>4. tid[w] > t /\ tid[w] \in (Peers(t) \cap cleaned)'
    BY <1>1, <1>2, <1>3, <2>2, <2>3 DEF TradeIds
  <2> QED
    BY <2>4 DEF Shield
<1>4. CASE t \notin stops \/ t \in stops'
  <2>1. Shield(t)
    BY <1>1, <1>2 DEF Covered
  <2>2. CASE t \in stops \cup fired
    BY <1>1, <1>4, <2>2 DEF Shield
  <2>3. ASSUME NEW p \in Peers(t) \cap cleaned, p > t
        PROVE  Shield(t)'
    <3>1. status'[p] # "none" /\ key'[p] = key[p] /\ p \in TradeIds
      BY <2>3, RowsStay DEF Peers
    <3>2. p \in Peers(t)'
      BY <1>1, <2>3, <3>1 DEF Peers
    <3> QED
      BY <1>1, <2>3, <3>2 DEF Shield
  <2> QED
    BY <1>1, <1>4, <2>1, <2>2, <2>3 DEF Shield
<1> QED
  BY <1>3, <1>4

\* A rollback takes the open rows of the transaction with their stops.
LEMMA CoverRollback ==
  ASSUME TypeOK, Consistent, Fresh, Covered, CoreStep,
         NEW w \in Workers, Rollback(w)
  PROVE  Covered'
<1>1. /\ UNCHANGED <<stops, fired, cleaned, committed>>
      /\ slId' = slId \ txRows[w]
      /\ \A v \in Workers : txRows'[v] \subseteq txRows[v]
      /\ \A t \in TradeIds :
           status'[t] = IF t \in txRows[w] THEN "lost" ELSE status[t]
  BY DEF Rollback, EndTransaction, TypeOK
<1>2. Live' \subseteq Live
  BY <1>1 DEF Live
<1>3. \A t \in Live' : status'[t] = "open" =>
        t \in Live /\ status[t] = "open" /\ (t \in slId' <=> t \in slId)
  BY <1>1, <1>2, LiveType
<1> QED
  BY <1>1, <1>3, CoverStays

\* Every other step leaves the recorded stops alone and opens no trade.
LEMMA CoverElsewhere ==
  ASSUME TypeOK, Fresh, Covered, CoreStep, UNCHANGED <<slId, cleaned>>,
         stops \cup fired \subseteq stops' \cup fired',
         \A t \in TradeIds : status'[t] = status[t] \/ status'[t] # "open"
  PROVE  Covered'
<1>1. CASE key' = key /\ Live' \subseteq Live
  <2>1. \A t \in Live' : status'[t] = "open" =>
          t \in Live /\ status[t] = "open" /\ (t \in slId' <=> t \in slId)
    BY <1>1, LiveType
  <2> QED
    BY <2>1, CoverStays
<1>2. ASSUME NEW w \in Workers, CreateTrade(w)
      PROVE  Covered'
  <2>1. /\ nextId \in TradeIds
        /\ status'[nextId] = "pending_entry"
        /\ committed' = committed
        /\ \A v \in Workers : txRows'[v] \subseteq txRows[v] \cup {nextId}
    BY <1>2 DEF CreateTrade, SetStatus, TypeOK
  <2>2. \A t \in Live' : t \in Live \cup {nextId}
    BY <2>1 DEF Live
  <2>3. \A t \in Live' : status'[t] = "open" =>
          t \in Live /\ status[t] = "open" /\ (t \in slId' <=> t \in slId)
    BY <2>1, <2>2, LiveType
  <2> QED
    BY <2>3, CoverStays
<1> QED
  BY <1>1, <1>2, LiveStep

LEMMA CoveredStep ==
  ASSUME TypeOK, Consistent, Fresh, Newest, Covered, Confirmed, CoreStep,
         [Next]_vars
  PROVE  Covered'
<1>1. ASSUME NEW w \in Workers, ~ Rollback(w),
             \/ Lookup(w) \/ InsertMark(w) \/ InsertMarkFails(w)
             \/ BeginTurn(w) \/ Refuse(w) \/ CreateTrade(w)
             \/ PlaceEntry(w) \/ WaitForFill(w) \/ CancelEntry(w)
             \/ PlaceStop(w) \/ ConfirmStop(w)
             \/ Abort(w) \/ Sweep(w) \/ ReportError(w)
             \/ Commit(w) \/ Ack(w) \/ Crash(w)
      PROVE  Covered'
  <2>1. /\ UNCHANGED <<slId, cleaned, fired>> /\ stops \subseteq stops'
    BY <1>1
    DEF Lookup, InsertMark, InsertMarkFails, BeginTurn, Refuse, CreateTrade,
        PlaceEntry, WaitForFill, CancelEntry, PlaceStop, ConfirmStop, Abort,
        Sweep, ReportError, Commit, Ack, Crash, onlyExchange
  <2>2. \/ status' = status \/ SetStatus(nextId, "pending_entry")
        \/ SetStatus(tid[w], "skipped") \/ SetStatus(tid[w], "error")
    BY <1>1
    DEF Lookup, InsertMark, InsertMarkFails, BeginTurn, Refuse, CreateTrade,
        PlaceEntry, WaitForFill, CancelEntry, PlaceStop, ConfirmStop, Abort,
        Sweep, ReportError, Commit, Ack, Crash, onlyExchange, SkippedStatus,
        ErrorStatus
  <2>3. \A t \in TradeIds : status'[t] = status[t] \/ status'[t] # "open"
    BY <2>2 DEF SetStatus, TypeOK
  <2> QED
    BY <2>1, <2>3, CoverElsewhere
<1>2. ASSUME NEW w \in Workers, NEW r \in Records, ReadRecord(w, r)
      PROVE  Covered'
  BY <1>2, CoverElsewhere DEF ReadRecord
<1>3. ASSUME NEW t \in TradeIds, EntryFills(t) \/ StopFires(t)
      PROVE  Covered'
  BY <1>3, CoverElsewhere DEF EntryFills, StopFires, onlyExchange
<1>4. ASSUME NEW t \in TradeIds, TradeCloses(t)
      PROVE  Covered'
  <2>1. /\ UNCHANGED <<slId, cleaned, stops, fired>>
        /\ \A p \in TradeIds : status'[p] = status[p] \/ status'[p] # "open"
    BY <1>4 DEF TradeCloses, SetStatus, TypeOK
  <2> QED
    BY <2>1, CoverElsewhere
<1>5. CASE \/ \E s \in Signals : RowAppears(s)
           \/ \E u \in Users, s \in Standings : ChangeStanding(u, s)
           \/ UNCHANGED vars
  BY <1>5, CoverElsewhere DEF RowAppears, ChangeStanding, vars
<1> QED
  BY <1>1, <1>2, <1>3, <1>4, <1>5, CoverRollback, CoverTargets, CoverEmergency,
     CoverCleanUp
  DEF Next, WorkerStep, Environment

\* A trade that has ended stays so: no turn is at it or comes to it, and the
\* other steps leave rows alone, or close or drop them.
LEMMA EndedStays ==
  ASSUME TypeOK, Fresh, CoreStep, NEW t \in TradeIds, Ended(t)
  PROVE  Ended(t)'
<1> USE DEF durableVars, rowVars, Ended
<1>1. ASSUME NEW w \in Workers, CreateTrade(w)
      PROVE  nextId # t /\ tid'[w] = nextId /\ status'[t] = status[t]
  <2>1. nextId # t
    BY DEF Fresh, TypeOK, TradeIds
  <2> QED
    BY <1>1, <2>1 DEF CreateTrade, SetStatus, TypeOK
<1>2. status'[t] \in {"closed", "lost"}
  <2>1. ASSUME NEW w \in Workers, Advance(w) \/ Finish(w)
        PROVE  status'[t] \in {"closed", "lost"}
    BY <2>1 DEF Advance, Finish, SetStatus, TypeOK
  <2>2. ASSUME NEW w \in Workers, Undo(w)
        PROVE  status'[t] \in {"closed", "lost"}
    BY <2>2 DEF Undo, Rollback
  <2>3. ASSUME NEW w \in Workers,
               \/ CommitWorks(w) \/ Browse(w) \/ InsertMark(w)
               \/ BeginTurn(w) \/ PassOver(w)
        PROVE  status'[t] \in {"closed", "lost"}
    BY <2>3 DEF CommitWorks, Browse, InsertMark, BeginTurn, PassOver
  <2>4. ASSUME NEW p \in TradeIds, TradeCloses(p)
        PROVE  status'[t] \in {"closed", "lost"}
    BY <2>4 DEF TradeCloses, SetStatus, TypeOK
  <2>5. CASE UNCHANGED coreVars
    BY <2>5 DEF coreVars
  <2> QED
    BY <1>1, <2>1, <2>2, <2>3, <2>4, <2>5 DEF CoreStep
<1>3. ASSUME NEW w \in Workers, pc'[w] \in TradeSteps
      PROVE  tid'[w] # t
  BY <1>1, <1>3, TurnStep
<1> QED
  BY <1>2, <1>3

\* Only a clean-up adds to the cleaned trades, and its own trade ends with it.
LEMMA CleanedStep ==
  ASSUME TypeOK, Consistent, Fresh, Cleaned, CoreStep, [Next]_vars
  PROVE  Cleaned'
<1>1. ASSUME NEW w \in Workers, WorkerStep(w), ~ CleanUp(w)
      PROVE  cleaned' = cleaned
  BY <1>1
  DEF WorkerStep, Lookup, InsertMark, InsertMarkFails, BeginTurn, Refuse,
      CreateTrade, PlaceEntry, WaitForFill, CancelEntry, PlaceStop, ConfirmStop,
      PlaceTargets, EmergencyClose, Abort, Sweep, ReportError, Commit, Ack,
      Rollback, onlyExchange
<1>2. ASSUME Environment
      PROVE  cleaned' = cleaned
  BY <1>2
  DEF Environment, Crash, EntryFills, StopFires, TradeCloses, RowAppears,
      ChangeStanding, Rollback, onlyExchange
<1>3. ASSUME NEW w \in Workers, NEW t \in TradeIds, t = tid[w], CleanUp(w)
      PROVE  Cleaned'
  <2>1. cleaned' \subseteq cleaned \cup {t} /\ status'[t] = "closed"
    BY <1>3 DEF CleanUp, CancelProtection, SetStatus, TypeOK
  <2>2. ASSUME NEW v \in Workers, pc'[v] \in TradeSteps
        PROVE  tid'[v] # t
    <3>1. v # w /\ pc[v] \in TradeSteps /\ tid'[v] = tid[v]
      BY <1>3, <2>2 DEF CleanUp, EndTurn, Goto, TypeOK, TradeSteps
    <3>2. tid[v] \in txRows[v] /\ tid[w] \in txRows[w]
      BY <1>3, <3>1 DEF CleanUp, Consistent, Control, TradeSteps
    <3> QED
      BY <1>3, <3>1, <3>2, RowsApart
  <2>3. Ended(t)'
    BY <2>1, <2>2 DEF Ended
  <2> QED
    BY <2>1, <2>3, EndedStays DEF Cleaned, TypeOK
<1>4. ASSUME NEW w \in Workers, NEW r \in Records, ReadRecord(w, r)
      PROVE  cleaned' = cleaned
  BY <1>4 DEF ReadRecord
<1>5. ASSUME cleaned' = cleaned
      PROVE  Cleaned'
  BY <1>5, EndedStays DEF Cleaned, TypeOK
<1>6. CASE UNCHANGED vars
  BY <1>5, <1>6 DEF vars
<1> QED
  <2>1. ASSUME NEW w \in Workers, CleanUp(w)
        PROVE  tid[w] \in TradeIds
    BY <2>1 DEF CleanUp, TypeOK, Consistent, Control, TradeSteps
  <2> QED
    BY <1>1, <1>2, <1>3, <1>4, <1>5, <1>6, <2>1 DEF Next

\* The stop-loss of a trade that is recorded open with it is live or executed,
\* or the clean-up of a later trade of its user and symbol, which itself ended
\* closed or rolled back, took it away: through every interleaving of workers,
\* failing call, rollback and crash.
THEOREM OpenTradesCovered == Spec => []OpenTradeIsCovered
<1>1. Init => Protected /\ Fresh /\ Newest /\ Covered /\ Cleaned
  BY DEF Init, Protected, TargetsBehindStop, Confirmed, Fresh, Newest, Covered,
         Cleaned, Live, TradeSteps
<1>2. IInv /\ Protected /\ Fresh /\ Newest /\ Covered /\ Cleaned /\ [Next]_vars
        => Protected' /\ Fresh' /\ Newest' /\ Covered' /\ Cleaned'
  BY Classification, ProtectedStep, FreshStep, NewestStep, CoveredStep,
     CleanedStep
  DEF IInv, Consistent, Protected
<1>3. Covered /\ Cleaned => OpenTradeIsCovered
  BY DEF Covered, Cleaned, Ended, OpenTradeIsCovered, Shield
<1> QED
  BY <1>1, <1>2, <1>3, Invariance, PTL DEF Spec
=============================================================================
