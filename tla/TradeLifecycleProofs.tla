------------------------ MODULE TradeLifecycleProofs ------------------------
(***************************************************************************)
(* Proofs about TradeLifecycle, for every set of trades and legs, and for  *)
(* every number of messages under way, failing calls and restarts.         *)
(*                                                                         *)
(* The theorems rest on one inductive invariant, IInv.  Besides the types  *)
(* it says that a position is never more than the legs not yet executed    *)
(* (Amounts), that messages tell of executions (Reported), that committed  *)
(* and uncommitted rows record executions only (Recorded), and what the    *)
(* point a task has reached implies (StreamControl, SessionControl).       *)
(***************************************************************************)
EXTENDS TradeLifecycle, FiniteSetTheorems, WellFoundedInduction, TLAPS

-----------------------------------------------------------------------------
(* The inductive invariant.                                                 *)

Amounts ==
  \A t \in Trades :
    LegsOf[t] # {} => pos[t] + rest[t] <= Cardinality(LegsOf[t] \ done[t])

Reported ==
  \A t \in Trades :
    /\ \A i \in 1 .. Len(queue[t]) : queue[t][i] \in done[t]
    /\ event[t] # "none" => event[t] \in done[t] \cap Stops

\* What a row says was executed was executed.
Holds(t, row) ==
  /\ row.filled \subseteq done[t]
  /\ row.reason = "all_tp" => LegsOf[t] \subseteq done[t]
  /\ row.reason \in Stops \cup {"model3_exit"} => row.reason \in done[t]

Recorded == \A t \in Trades : Holds(t, db[t]) /\ Holds(t, draft[t])

Controlled(t) ==
  /\ pc[t] \in {"cancelTargets", "close"} => event[t] # "none"
  /\ pc[t] = "cancelStop" => owner[t] = t /\ draft[t].filled = LegsOf[t]
  /\ pc[t] = "cancelOld" /\ LegsOf[t] # {} => "be" \in live[t] \/ Ended(t)

StreamControl == \A t \in Trades : Controlled(t)

SessionControl ==
  /\ pc[R] # "idle" => todo[R] # {}
  /\ \A t \in todo[M] : LegsOf[t] = {}
  /\ pc[M] \in {"sell", "unstop", "exit", "tell"} => todo[M] # {}
  /\ pc[M] \in {"unstop", "exit"} => "model3_exit" \in done[Cur(M)]

IInv == /\ TypeOK /\ Amounts /\ Reported /\ Recorded
        /\ StreamControl /\ SessionControl

-----------------------------------------------------------------------------
(* Lemmas about the operators.                                              *)

\* The trade whose turn it is is one of those left.
LEMMA FirstIsMember ==
  ASSUME NEW S, S \subseteq Trades, S # {}
  PROVE  First(S) \in S
<1> DEFINE Less == {p \in Nat \X Nat : p[1] < p[2]}
<1>1. IsWellFoundedOn(Less, Nat)
  BY NatLessThanWellFounded DEF OpToRel
<1> HIDE DEF Less
<1>2. S \subseteq Nat
  BY LifecycleConstants
<1>3. PICK t \in S : \A u \in S : ~ (<<u, t>> \in Less)
  BY <1>1, <1>2, WFMin
<1>4. \A u \in S : ~ (u < t)
  BY <1>2, <1>3 DEF Less
<1>5. \E v \in S : \A u \in S : v <= u
  BY <1>2, <1>4
<1> QED
  BY <1>5 DEF First

\* A trade has finitely many legs, and they are not stops.
LEMMA Legs ==
  ASSUME NEW t \in Trades
  PROVE  /\ LegsOf[t] \subseteq Targets
         /\ IsFiniteSet(LegsOf[t])
         /\ LegsOf[t] \cap {"sl", "be", "liquidation", "model3_exit", "void"} = {}
         /\ QtyOf(t) \in Nat
<1>1. LegsOf[t] \in SUBSET Targets
  BY LifecycleConstants
<1>2. IsFiniteSet(LegsOf[t])
  BY <1>1, FS_Subset, LifecycleConstants
<1>3. Cardinality(LegsOf[t]) \in Nat
  BY <1>2, FS_CardinalityType
<1> QED
  BY <1>1, <1>2, <1>3, LifecycleConstants DEF QtyOf

\* Closing a row is closing it for a reason that is true.
LEMMA ClosedRow ==
  ASSUME NEW t \in Trades, NEW row \in Rows, NEW read \in Rows,
         NEW reason \in Reasons, Holds(t, row),
         reason = "all_tp" => LegsOf[t] \subseteq done[t],
         reason \in Stops \cup {"model3_exit"} => reason \in done[t]
  PROVE  /\ Closed(row, reason, read) \in Rows
         /\ Holds(t, Closed(row, reason, read))
BY DEF Closed, Holds, Rows

-----------------------------------------------------------------------------
(* The exchange.                                                            *)

ExchangeTypes ==
  /\ pos \in [Trades -> Nat] /\ rest \in [Trades -> Nat]
  /\ live \in [Trades -> SUBSET (Stops \cup Targets)]
  /\ done \in [Trades -> SUBSET Executions]

\* What was executed stays so.
Grows == \A t \in Trades : done[t] \subseteq done'[t]

\* The stop-losses of a trade with legs are removed by the market, which ends
\* the trade with it, by the end of a trade whose legs are all filled, and by
\* the move to break-even.
StopsLeave ==
  \A t \in Trades :
    \/ live[t] \cap Stops \subseteq live'[t]
    \/ done'[t] \cap (Stops \cup {"void", "liquidation"}) # {}
    \/ pc[t] = "cancelStop" /\ pos'[t] = pos[t]
    \/ pc[t] = "cancelOld" /\ live[t] \cap {"be"} \subseteq live'[t]
    \/ LegsOf[t] = {}

\* An execution takes a leg's quantity at least, no step adds to the whole.
AmountsShrink ==
  \A t \in Trades :
    \/ pos'[t] + rest'[t] <= pos[t] + rest[t] /\ done'[t] \cap LegsOf[t] = done[t] \cap LegsOf[t]
    \/ \E i \in LegsOf[t] :
         /\ pos'[t] + rest'[t] <= pos[t] + rest[t] - 1
         /\ done'[t] = done[t] \cup {i}
    \/ LegsOf[t] = {}

ExchangeStep == ExchangeTypes' /\ Grows /\ StopsLeave /\ AmountsShrink

LEMMA ExchangeRests ==
  ASSUME TypeOK, UNCHANGED exchangeVars
  PROVE  ExchangeStep
BY DEF TypeOK, exchangeVars, ExchangeStep, ExchangeTypes, Grows, StopsLeave,
       AmountsShrink

\* Placing orders, and cancelling take-profits.
LEMMA ExchangePlaces ==
  ASSUME TypeOK, NEW t \in Trades, NEW S,
         UNCHANGED onlyLive,
         \/ S \subseteq Stops \cup Targets /\ Place(t, S)
         \/ S \subseteq Targets /\ Cancel(t, S)
         \/ LegsOf[t] = {} /\ Cancel(t, S)
  PROVE  ExchangeStep
<1>1. live' \in [Trades -> SUBSET (Stops \cup Targets)]
  <2>1. CASE Place(t, S) /\ S \subseteq Stops \cup Targets
    BY <2>1 DEF TypeOK, Place
  <2>2. CASE Cancel(t, S)
    BY <2>2 DEF TypeOK, Cancel
  <2> QED
    BY <2>1, <2>2
<1>2. ExchangeTypes' /\ Grows /\ AmountsShrink
  BY <1>1 DEF TypeOK, onlyLive, ExchangeTypes, Grows, AmountsShrink
<1>3. StopsLeave
  BY LifecycleConstants
     DEF TypeOK, onlyLive, Place, Cancel, StopsLeave, Stops
<1> QED
  BY <1>2, <1>3 DEF ExchangeStep

\* The market, one lemma for each of its doings.
LEMMA ExchangeEntryFills ==
  ASSUME TypeOK, NEW t \in Trades, EntryFills(t)
  PROVE  ExchangeStep
BY DEF TypeOK, EntryFills, ExchangeStep, ExchangeTypes, Grows, StopsLeave,
       AmountsShrink

LEMMA ExchangeTargetFills ==
  ASSUME TypeOK, NEW t \in Trades, NEW i \in LegsOf[t], TargetFills(t, i)
  PROVE  ExchangeStep
<1>1. i \in Targets /\ i \notin Stops /\ i \in Executions
  BY Legs, LifecycleConstants DEF Stops, Executions
<1>2. /\ pos' = [pos EXCEPT ![t] = pos[t] - 1] /\ rest' = rest
      /\ live' = [live EXCEPT ![t] = live[t] \ {i}]
      /\ done' = [done EXCEPT ![t] = done[t] \cup {i}]
      /\ pos[t] > 0
  BY DEF TargetFills, Execute
<1>3. ExchangeTypes' /\ Grows
  BY <1>1, <1>2 DEF TypeOK, ExchangeTypes, Grows
<1>4. StopsLeave
  BY <1>1, <1>2 DEF TypeOK, StopsLeave
<1>5. /\ pos'[t] + rest'[t] <= pos[t] + rest[t] - 1
      /\ done'[t] = done[t] \cup {i}
  BY <1>2 DEF TypeOK
<1>6. \A u \in Trades \ {t} : /\ pos'[u] + rest'[u] <= pos[u] + rest[u]
                              /\ done'[u] = done[u]
  BY <1>2 DEF TypeOK
<1>7. AmountsShrink
  BY <1>5, <1>6 DEF AmountsShrink
<1> QED
  BY <1>3, <1>4, <1>7 DEF ExchangeStep

\* A stop is executed, or the position is liquidated.
LEMMA ExchangeEnds ==
  ASSUME TypeOK, NEW t \in Trades,
         NEW x \in Stops \cup {"liquidation"}, Execute(t, x, 0),
         UNCHANGED rest,
         NEW L \in SUBSET live[t], live' = [live EXCEPT ![t] = L]
  PROVE  ExchangeStep
<1>1. x \in Executions /\ x \notin LegsOf[t]
  BY Legs DEF Stops, Executions
<1>2. /\ pos' = [pos EXCEPT ![t] = 0] /\ rest' = rest
      /\ done' = [done EXCEPT ![t] = done[t] \cup {x}]
  BY DEF Execute
<1>3. ExchangeTypes' /\ Grows
  BY <1>1, <1>2 DEF TypeOK, ExchangeTypes, Grows
<1>4. StopsLeave
  BY <1>1, <1>2 DEF TypeOK, StopsLeave
<1>5. AmountsShrink
  BY <1>1, <1>2 DEF TypeOK, AmountsShrink
<1> QED
  BY <1>3, <1>4, <1>5 DEF ExchangeStep

LEMMA ExchangeExpires ==
  ASSUME TypeOK, NEW t \in Trades, NEW x \in Orders(t), OrderExpires(t, x)
  PROVE  ExchangeStep
<1>1. "void" \in Executions /\ "void" \notin LegsOf[t]
  BY Legs DEF Executions
<1>2. /\ pos' = pos /\ rest' = rest
      /\ live' = [live EXCEPT ![t] = live[t] \ {x}]
      /\ done' = [done EXCEPT ![t] = IF x \in Stops THEN done[t] \cup {"void"}
                                                  ELSE done[t]]
  BY DEF OrderExpires
<1>3. ExchangeTypes' /\ Grows
  BY <1>1, <1>2 DEF TypeOK, ExchangeTypes, Grows
<1>4. StopsLeave
  BY <1>1, <1>2 DEF TypeOK, StopsLeave
<1>5. AmountsShrink
  BY <1>1, <1>2 DEF TypeOK, AmountsShrink
<1> QED
  BY <1>3, <1>4, <1>5 DEF ExchangeStep

\* The steps of the streams that cancel a stop.
LEMMA LiveShrinks ==
  ASSUME TypeOK, NEW t \in Trades, NEW S, UNCHANGED onlyLive,
         Cancel(t, S) \/ UNCHANGED live
  PROVE  /\ ExchangeTypes' /\ Grows /\ AmountsShrink
         /\ live[t] \ S \subseteq live'[t]
         /\ \A u \in Trades \ {t} : live'[u] = live[u]
<1>1. /\ live' \in [Trades -> SUBSET (Stops \cup Targets)]
      /\ live[t] \ S \subseteq live'[t]
      /\ \A u \in Trades \ {t} : live'[u] = live[u]
  <2>1. CASE Cancel(t, S)
    BY <2>1 DEF TypeOK, Cancel
  <2>2. CASE UNCHANGED live
    BY <2>2 DEF TypeOK
  <2> QED
    BY <2>1, <2>2
<1>2. ExchangeTypes' /\ Grows /\ AmountsShrink
  BY <1>1 DEF TypeOK, onlyLive, ExchangeTypes, Grows, AmountsShrink
<1> QED
  BY <1>1, <1>2

LEMMA ExchangeCancelStop ==
  ASSUME TypeOK, NEW t \in Trades, CancelStop(t)
  PROVE  ExchangeStep
<1>1. /\ pc[t] = "cancelStop" /\ UNCHANGED onlyLive
      /\ Cancel(t, {draft[t].sl}) \/ UNCHANGED live
  BY DEF CancelStop, At
<1>2. /\ ExchangeTypes' /\ Grows /\ AmountsShrink
      /\ \A u \in Trades \ {t} : live'[u] = live[u]
  BY <1>1, LiveShrinks
<1>3. StopsLeave
  BY <1>1, <1>2 DEF onlyLive, StopsLeave
<1> QED
  BY <1>2, <1>3 DEF ExchangeStep

LEMMA ExchangeCancelOld ==
  ASSUME TypeOK, NEW t \in Trades, CancelOld(t)
  PROVE  ExchangeStep
<1> DEFINE S == {draft[t].sl} \ {"be"}
<1>1. /\ pc[t] = "cancelOld" /\ UNCHANGED onlyLive
      /\ Cancel(t, S) \/ UNCHANGED live
  BY DEF CancelOld, At
<1>2. "be" \notin S
  OBVIOUS
<1> HIDE DEF S
<1>3. /\ ExchangeTypes' /\ Grows /\ AmountsShrink
      /\ live[t] \ S \subseteq live'[t]
      /\ \A u \in Trades \ {t} : live'[u] = live[u]
  BY <1>1, LiveShrinks
<1>4. StopsLeave
  BY <1>1, <1>2, <1>3 DEF StopsLeave
<1> QED
  BY <1>3, <1>4 DEF ExchangeStep

\* The sale of a trade of model 3.
LEMMA ExchangeSell ==
  ASSUME TypeOK, SessionControl, Sell
  PROVE  ExchangeStep
<1> DEFINE t == Cur(M)
<1>1. todo[M] # {} /\ todo[M] \subseteq Trades
  BY DEF SessionControl, Sell, At, TypeOK
<1>2. t \in Trades /\ LegsOf[t] = {}
  BY <1>1, FirstIsMember DEF SessionControl, Cur
<1>3. /\ UNCHANGED <<rest, live>>
      /\ \/ /\ pos' = [pos EXCEPT ![t] = 0]
            /\ done' = [done EXCEPT ![t] = done[t] \cup {"model3_exit"}]
         \/ UNCHANGED <<pos, done>>
  BY DEF Sell
<1> HIDE DEF t
<1>4. CASE UNCHANGED <<pos, done>>
  <2>1. UNCHANGED exchangeVars
    BY <1>3, <1>4 DEF exchangeVars
  <2> QED
    BY <2>1, ExchangeRests
<1>5. CASE /\ pos' = [pos EXCEPT ![t] = 0]
           /\ done' = [done EXCEPT ![t] = done[t] \cup {"model3_exit"}]
  <2>1. "model3_exit" \in Executions
    BY DEF Executions
  <2>2. ExchangeTypes' /\ Grows
    BY <1>2, <1>3, <1>5, <2>1 DEF TypeOK, ExchangeTypes, Grows
  <2>3. \A u \in Trades \ {t} : pos'[u] = pos[u] /\ done'[u] = done[u]
    BY <1>2, <1>5 DEF TypeOK
  <2>4. StopsLeave /\ AmountsShrink
    BY <1>2, <1>3, <2>3 DEF TypeOK, StopsLeave, AmountsShrink
  <2> QED
    BY <2>2, <2>4 DEF ExchangeStep
<1> QED
  BY <1>3, <1>4, <1>5

\* The trade a session works on.
LEMMA CurrentTrade ==
  ASSUME TypeOK, SessionControl
  PROVE  /\ pc[R] # "idle" => Cur(R) \in Trades
         /\ pc[M] \in {"sell", "unstop", "exit", "tell"} =>
              Cur(M) \in Trades /\ Cur(M) \in todo[M] /\ LegsOf[Cur(M)] = {}
BY FirstIsMember DEF TypeOK, SessionControl, Cur

LEMMA ExchangeRepairs ==
  ASSUME TypeOK, SessionControl, RepairStop \/ RepairTargets
  PROVE  ExchangeStep
<1>1. Cur(R) \in Trades
  BY CurrentTrade DEF RepairStop, RepairTargets, At
<1>2. CASE RepairStop
  <2>1. SlOf(seen[R][Cur(R)]) \in Stops
    BY <1>1 DEF TypeOK, Rows, SlOf, Stops
  <2>2. /\ UNCHANGED onlyLive
        /\ UNCHANGED live \/ Place(Cur(R), {SlOf(seen[R][Cur(R)])})
    BY <1>2 DEF RepairStop
  <2>3. CASE UNCHANGED live
    BY <2>2, <2>3, ExchangeRests DEF onlyLive, exchangeVars
  <2> QED
    BY <1>1, <2>1, <2>2, <2>3, ExchangePlaces
<1>3. CASE RepairTargets
  <2>1. PICK S \in SUBSET LegsOf[Cur(R)] : UNCHANGED onlyLive /\ Place(Cur(R), S)
    BY <1>3 DEF RepairTargets
  <2>2. S \subseteq Stops \cup Targets
    BY <1>1, Legs
  <2> QED
    BY <1>1, <2>1, <2>2, ExchangePlaces
<1> QED
  BY <1>2, <1>3

LEMMA ExchangeNext ==
  ASSUME TypeOK, SessionControl, [Next]_vars
  PROVE  ExchangeStep
<1>1. ASSUME UNCHANGED exchangeVars
      PROVE  ExchangeStep
  BY <1>1, ExchangeRests
<1>2. ASSUME NEW t \in Trades, StreamStep(t) \/ Disconnect(t)
      PROVE  ExchangeStep
  <2>1. CASE CancelStop(t)
    BY <2>1, ExchangeCancelStop
  <2>2. CASE CancelOld(t)
    BY <2>2, ExchangeCancelOld
  <2>3. CASE PlaceBe(t)
    <3>1. UNCHANGED onlyLive /\ (Place(t, {"be"}) \/ UNCHANGED live)
      BY <2>3 DEF PlaceBe
    <3>2. {"be"} \subseteq Stops \cup Targets
      BY DEF Stops
    <3>3. CASE UNCHANGED live
      BY <1>1, <3>1, <3>3 DEF onlyLive, exchangeVars
    <3> QED
      BY <3>1, <3>2, <3>3, ExchangePlaces
  <2>4. CASE CancelTargets(t)
    <3>1. PICK S \in SUBSET LegsOf[t] : UNCHANGED onlyLive /\ Cancel(t, S)
      BY <2>4 DEF CancelTargets
    <3> QED
      BY <3>1, Legs, ExchangePlaces
  <2>5. CASE Ignore(t) \/ TakeLegFill(t) \/ ConfirmBe(t)
    BY <1>1, <2>5 DEF Ignore, TakeLegFill, ConfirmBe, notStream
  <2>6. CASE TakeStopFill(t) \/ CloseStopped(t) \/ TakeLiquidation(t)
    BY <1>1, <2>6 DEF TakeStopFill, CloseStopped, TakeLiquidation, notStream
  <2>7. CASE Publish(t) \/ Connect(t) \/ Disconnect(t)
    BY <1>1, <2>7 DEF Publish, Connect, Disconnect
  <2> QED
    BY <1>2, <2>1, <2>2, <2>3, <2>4, <2>5, <2>6, <2>7 DEF StreamStep
<1>3. ASSUME NEW t \in Trades, Market(t)
      PROVE  ExchangeStep
  <2>1. CASE EntryFills(t)
    BY <2>1, ExchangeEntryFills
  <2>2. CASE Liquidated(t)
    <3>1. /\ Execute(t, "liquidation", 0) /\ UNCHANGED rest
          /\ \E L \in SUBSET live[t] : live' = [live EXCEPT ![t] = L]
      BY <2>2 DEF Liquidated, TypeOK
    <3> QED
      BY <3>1, ExchangeEnds
  <2>3. ASSUME NEW i \in LegsOf[t], TargetFills(t, i)
        PROVE  ExchangeStep
    BY <2>3, ExchangeTargetFills
  <2>4. ASSUME NEW x \in Stops, StopFires(t, x)
        PROVE  ExchangeStep
    <3>1. /\ Execute(t, x, 0) /\ UNCHANGED rest
          /\ live' = [live EXCEPT ![t] = live[t] \ {x}]
      BY <2>4 DEF StopFires
    <3> QED
      BY <3>1, ExchangeEnds
  <2>5. ASSUME NEW x \in Orders(t), OrderExpires(t, x)
        PROVE  ExchangeStep
    BY <2>5, ExchangeExpires
  <2> QED
    BY <1>3, <2>1, <2>2, <2>3, <2>4, <2>5 DEF Market
<1>4. ASSUME ReconcileStep
      PROVE  ExchangeStep
  <2>1. CASE RepairStop \/ RepairTargets
    BY <2>1, ExchangeRepairs
  <2>2. CASE StartReconcile \/ ReadPosition \/ ReadOrders \/ CloseMissing \/ PassOver
    BY <1>1, <2>2
       DEF StartReconcile, ReadPosition, ReadOrders, CloseMissing, PassOver
  <2> QED
    BY <1>4, <2>1, <2>2 DEF ReconcileStep
<1>5. ASSUME MonitorStep
      PROVE  ExchangeStep
  <2>1. CASE Sell
    BY <2>1, ExchangeSell
  <2>2. CASE Unstop
    <3>1. /\ UNCHANGED onlyLive
          /\ Cancel(Cur(M), {seen[M][Cur(M)].sl}) \/ UNCHANGED live
          /\ Cur(M) \in Trades /\ LegsOf[Cur(M)] = {}
      BY <2>2, CurrentTrade DEF Unstop, At
    <3>2. CASE UNCHANGED live
      BY <1>1, <3>1, <3>2 DEF onlyLive, exchangeVars
    <3> QED
      BY <3>1, <3>2, ExchangePlaces
  <2>3. CASE PriceCrosses \/ CloseModel3 \/ PublishModel3
    BY <1>1, <2>3 DEF PriceCrosses, CloseModel3, PublishModel3
  <2> QED
    BY <1>5, <2>1, <2>2, <2>3 DEF MonitorStep
<1>6. CASE Crash \/ UNCHANGED vars \/ \E t \in Trades : OpeningCommits(t)
  BY <1>1, <1>6 DEF Crash, vars, OpeningCommits
<1> QED
  BY <1>2, <1>3, <1>4, <1>5, <1>6 DEF Next

-----------------------------------------------------------------------------
(* The rows.                                                                *)

\* What a step leaves in the rows is true of what was executed before it.
RowStep ==
  /\ db' \in [Trades -> Rows] /\ draft' \in [Trades -> Rows]
  /\ owner' \in [Trades -> Tasks \cup {NoTask}]
  /\ \A t \in Trades : Holds(t, db'[t]) /\ Holds(t, draft'[t])

\* A task leaves the rows alone that another one has locked.
KeptBy(k) ==
  \A t \in Trades :
    owner[t] \notin {k, NoTask} =>
      owner'[t] = owner[t] /\ draft'[t].filled = draft[t].filled

LEMMA RowsRest ==
  ASSUME TypeOK, Recorded, UNCHANGED dbVars, NEW k
  PROVE  RowStep /\ KeptBy(k)
BY DEF TypeOK, Recorded, dbVars, RowStep, KeptBy

LEMMA RowsFlush ==
  ASSUME TypeOK, Recorded, NEW k \in Tasks, NEW t \in Trades,
         NEW row \in Rows, Holds(t, row), Flush(k, t, row)
  PROVE  RowStep /\ KeptBy(k)
<1>1. /\ db' = db
      /\ draft' = [draft EXCEPT ![t] = row]
      /\ owner' = [owner EXCEPT ![t] = k]
      /\ owner[t] \in {k, NoTask}
  BY DEF Flush, RowIsFree
<1>2. \A u \in Trades : Holds(u, draft'[u])
  BY <1>1 DEF TypeOK, Recorded
<1>3. RowStep
  BY <1>1, <1>2 DEF TypeOK, Recorded, RowStep
<1>4. KeptBy(k)
  BY <1>1 DEF TypeOK, KeptBy
<1> QED
  BY <1>3, <1>4

LEMMA RowsCommit ==
  ASSUME TypeOK, Recorded, NEW k \in Tasks, CommitRows(k)
  PROVE  RowStep /\ KeptBy(k)
BY DEF TypeOK, Recorded, CommitRows, RowFor, Release, RowStep, KeptBy

LEMMA RowsRollback ==
  ASSUME TypeOK, Recorded, NEW k \in Tasks, RollbackRows(k)
  PROVE  RowStep /\ KeptBy(k)
BY DEF TypeOK, Recorded, RollbackRows, Release, RowStep, KeptBy

LEMMA RowsWriteAndEnd ==
  ASSUME TypeOK, Recorded, NEW t \in Trades, NEW row \in Rows, Holds(t, row),
         WriteAndEnd(t, row)
  PROVE  RowStep /\ KeptBy(R)
<1>1. CASE todo[R] = {t}
  <2>1. /\ db' = [u \in Trades |-> IF u = t THEN row ELSE RowFor(R, u)]
        /\ draft' = [draft EXCEPT ![t] = row]
        /\ Release(R)
        /\ owner[t] \in {R, NoTask}
    BY <1>1 DEF WriteAndEnd, RowIsFree
  <2>2. \A u \in Trades : RowFor(R, u) \in Rows /\ Holds(u, RowFor(R, u))
    BY DEF TypeOK, Recorded, RowFor
  <2>3. \A u \in Trades : Holds(u, db'[u]) /\ Holds(u, draft'[u])
    BY <2>1, <2>2 DEF TypeOK, Recorded
  <2>4. db' \in [Trades -> Rows] /\ draft' \in [Trades -> Rows]
    BY <2>1, <2>2 DEF TypeOK
  <2>5. owner' \in [Trades -> Tasks \cup {NoTask}] /\ KeptBy(R)
    BY <2>1 DEF TypeOK, Release, KeptBy
  <2> QED
    BY <2>3, <2>4, <2>5 DEF RowStep
<1>2. CASE todo[R] # {t}
  <2>1. Flush(R, t, row) /\ R \in Tasks
    BY <1>2 DEF WriteAndEnd, Tasks, R
  <2> QED
    BY <2>1, RowsFlush
<1> QED
  BY <1>1, <1>2

LEMMA RowsStream ==
  ASSUME TypeOK, Reported, Recorded, StreamControl,
         NEW t \in Trades, StreamStep(t) \/ Disconnect(t)
  PROVE  RowStep /\ KeptBy(t)
<1> t \in Tasks
  BY DEF Tasks
<1>1. ASSUME UNCHANGED dbVars
      PROVE  RowStep /\ KeptBy(t)
  BY <1>1, RowsRest
<1>2. db[t] \in Rows /\ draft[t] \in Rows /\ Holds(t, db[t]) /\ Holds(t, draft[t])
  BY DEF TypeOK, Recorded
<1>3. CASE TakeLegFill(t)
  <2>1. CASE WaitForRow(t, t)
    BY <1>1, <2>1 DEF WaitForRow
  <2>2. CASE Flush(t, t, [db[t] EXCEPT !.filled = db[t].filled \cup {Head(queue[t])}])
    <3> DEFINE row == [db[t] EXCEPT !.filled = db[t].filled \cup {Head(queue[t])}]
    <3>1. Head(queue[t]) \in LegsOf[t] /\ queue[t] # <<>>
      BY <1>3 DEF TakeLegFill
    <3>2. Head(queue[t]) = queue[t][1] /\ 1 \in 1 .. Len(queue[t])
      BY <3>1 DEF TypeOK
    <3>3. Head(queue[t]) \in Targets /\ Head(queue[t]) \in done[t]
      BY <3>1, <3>2, Legs DEF Reported
    <3>4. row \in Rows /\ Holds(t, row)
      BY <1>2, <3>3 DEF Rows, Holds
    <3> HIDE DEF row
    <3> QED
      BY <2>2, <3>4, RowsFlush DEF row
  <2> QED
    BY <1>3, <2>1, <2>2 DEF TakeLegFill
<1>4. CASE CancelStop(t)
  <2>1. Flush(t, t, Closed(draft[t], "all_tp", draft[t])) /\ draft[t].filled = LegsOf[t]
    BY <1>4 DEF CancelStop, At, StreamControl, Controlled
  <2>2. LegsOf[t] \subseteq done[t]
    BY <1>2, <2>1 DEF Holds
  <2>3. "all_tp" \in Reasons /\ "all_tp" \notin Stops \cup {"model3_exit"}
    BY DEF Reasons, Stops
  <2> QED
    BY <1>2, <2>1, <2>2, <2>3, ClosedRow, RowsFlush
<1>5. CASE CancelOld(t)
  <2> DEFINE row == [draft[t] EXCEPT !.sl = "be"]
  <2>1. row \in Rows /\ Holds(t, row)
    BY <1>2 DEF Rows, Holds, Stops
  <2>2. Flush(t, t, row)
    BY <1>5 DEF CancelOld
  <2> HIDE DEF row
  <2> QED
    BY <2>1, <2>2, RowsFlush
<1>6. CASE CloseStopped(t)
  <2>1. CASE WaitForRow(t, t)
    BY <1>1, <2>1 DEF WaitForRow
  <2>2. CASE Flush(t, t, Closed(db[t], CloseReason(t), db[t]))
    <3>1. event[t] \in done[t] \cap Stops
      BY <1>6 DEF CloseStopped, At, StreamControl, Controlled, Reported
    <3>2. CloseReason(t) \in Reasons /\ CloseReason(t) \in done[t] /\ CloseReason(t) # "all_tp"
      BY <3>1 DEF CloseReason, Reasons, Stops
    <3> QED
      BY <1>2, <2>2, <3>2, ClosedRow, RowsFlush
  <2> QED
    BY <1>6, <2>1, <2>2 DEF CloseStopped
<1>7. CASE TakeLiquidation(t)
  <2> DEFINE u == First(OpenTrades)
  <2>1. u \in Trades
    BY <1>7, FirstIsMember DEF TakeLiquidation, OpenTrades
  <2>2. Flush(t, u, Closed(db[u], "liquidation", db[u])) \/ WaitForRow(t, u)
    BY <1>7 DEF TakeLiquidation
  <2> HIDE DEF u
  <2>3. CASE WaitForRow(t, u)
    BY <1>1, <2>3 DEF WaitForRow
  <2>4. CASE Flush(t, u, Closed(db[u], "liquidation", db[u]))
    <3>1. /\ "liquidation" \in Reasons /\ "liquidation" # "all_tp"
          /\ "liquidation" \notin Stops \cup {"model3_exit"}
      BY DEF Reasons, Stops
    <3>2. db[u] \in Rows /\ Holds(u, db[u])
      BY <2>1 DEF TypeOK, Recorded
    <3> QED
      BY <2>1, <2>4, <3>1, <3>2, ClosedRow, RowsFlush
  <2> QED
    BY <2>2, <2>3, <2>4
<1>8. CASE Publish(t)
  BY <1>8, RowsCommit, RowsRollback DEF Publish
<1>9. CASE \/ Ignore(t) \/ PlaceBe(t) \/ ConfirmBe(t) \/ TakeStopFill(t)
           \/ CancelTargets(t) \/ Connect(t) \/ Disconnect(t)
  BY <1>1, <1>9
     DEF Ignore, PlaceBe, ConfirmBe, TakeStopFill, CancelTargets, Connect, Disconnect
<1> QED
  BY <1>3, <1>4, <1>5, <1>6, <1>7, <1>8, <1>9 DEF StreamStep

LEMMA RowsReconcile ==
  ASSUME TypeOK, Recorded, SessionControl, ReconcileStep
  PROVE  RowStep /\ KeptBy(R)
<1> DEFINE r == Cur(R)
<1>1. R \in Tasks
  BY DEF Tasks, R
<1>2. ASSUME UNCHANGED dbVars
      PROVE  RowStep /\ KeptBy(R)
  BY <1>2, RowsRest
<1>3. ASSUME CommitAtEnd(r)
      PROVE  RowStep /\ KeptBy(R)
  BY <1>1, <1>2, <1>3, RowsCommit DEF CommitAtEnd
<1>4. ASSUME r \in Trades
      PROVE  /\ RowFor(R, r) \in Rows /\ Holds(r, RowFor(R, r))
             /\ seen[R][r] \in Rows
  BY <1>4 DEF TypeOK, Recorded, RowFor
<1>5. CASE CloseMissing
  <2>1. r \in Trades
    BY <1>5, CurrentTrade DEF CloseMissing, At
  <2> DEFINE row == Closed(RowFor(R, r), "reconciled_closed_unknown", seen[R][r])
  <2>2. /\ "reconciled_closed_unknown" \in Reasons
        /\ "reconciled_closed_unknown" \notin Stops \cup {"all_tp", "model3_exit"}
    BY DEF Reasons, Stops
  <2>3. row \in Rows /\ Holds(r, row)
    BY <1>4, <2>1, <2>2, ClosedRow
  <2>4. WriteAndEnd(r, row) \/ WaitForRow(R, r)
    BY <1>5 DEF CloseMissing
  <2> HIDE DEF r, row
  <2>5. CASE WriteAndEnd(r, row)
    BY <2>1, <2>3, <2>5, RowsWriteAndEnd
  <2>6. CASE WaitForRow(R, r)
    BY <1>2, <2>6 DEF WaitForRow
  <2> QED
    BY <2>4, <2>5, <2>6
<1>6. CASE RepairStop
  <2>1. r \in Trades
    BY <1>6, CurrentTrade DEF RepairStop, At
  <2> DEFINE id == SlOf(seen[R][r])
             row == [RowFor(R, r) EXCEPT !.sl = id]
  <2>2. \/ UNCHANGED dbVars \/ CommitAtEnd(r)
        \/ Flush(R, r, row) \/ WaitForRow(R, r)
    BY <1>6 DEF RepairStop
  <2>3. id \in Stops
    BY <1>4, <2>1 DEF Rows, SlOf, Stops
  <2>4. row \in Rows /\ Holds(r, row)
    BY <1>4, <2>1, <2>3 DEF Rows, Holds
  <2> HIDE DEF r, row
  <2>5. CASE Flush(R, r, row)
    BY <1>1, <2>1, <2>4, <2>5, RowsFlush
  <2>6. CASE WaitForRow(R, r)
    BY <1>2, <2>6 DEF WaitForRow
  <2> QED
    BY <1>2, <1>3, <2>2, <2>5, <2>6
<1>7. CASE ReadPosition \/ ReadOrders \/ PassOver \/ RepairTargets
  BY <1>2, <1>3, <1>7 DEF ReadPosition, ReadOrders, PassOver, RepairTargets
<1>8. CASE StartReconcile
  BY <1>2, <1>8 DEF StartReconcile
<1> QED
  BY <1>5, <1>6, <1>7, <1>8 DEF ReconcileStep

LEMMA RowsMonitor ==
  ASSUME TypeOK, Recorded, SessionControl, MonitorStep
  PROVE  RowStep /\ KeptBy(M)
<1> DEFINE t == Cur(M)
<1>1. M \in Tasks
  BY DEF Tasks, M
<1>2. ASSUME UNCHANGED dbVars
      PROVE  RowStep /\ KeptBy(M)
  BY <1>2, RowsRest
<1>3. CASE CloseModel3
  <2>1. t \in Trades /\ "model3_exit" \in done[t]
    BY <1>3, CurrentTrade DEF CloseModel3, At, SessionControl
  <2> DEFINE row == Closed(RowFor(M, t), "model3_exit", seen[M][t])
  <2>2. /\ RowFor(M, t) \in Rows /\ Holds(t, RowFor(M, t))
        /\ seen[M][t] \in Rows
    BY <2>1 DEF TypeOK, Recorded, RowFor
  <2>3. "model3_exit" \in Reasons /\ "model3_exit" # "all_tp"
    BY DEF Reasons
  <2>4. row \in Rows /\ Holds(t, row)
    BY <2>1, <2>2, <2>3, ClosedRow
  <2>5. Flush(M, t, row) \/ WaitForRow(M, t)
    BY <1>3 DEF CloseModel3
  <2> HIDE DEF t, row
  <2>6. CASE Flush(M, t, row)
    BY <1>1, <2>1, <2>4, <2>6, RowsFlush
  <2>7. CASE WaitForRow(M, t)
    BY <1>2, <2>7 DEF WaitForRow
  <2> QED
    BY <2>5, <2>6, <2>7
<1>4. CASE Sell \/ PublishModel3
  <2>1. UNCHANGED dbVars \/ CommitRows(M) \/ RollbackRows(M)
    BY <1>4 DEF Sell, PublishModel3, Abandon
  <2> QED
    BY <1>1, <1>2, <2>1, RowsCommit, RowsRollback
<1>5. CASE PriceCrosses \/ Unstop
  BY <1>2, <1>5 DEF PriceCrosses, Unstop
<1> QED
  BY <1>3, <1>4, <1>5 DEF MonitorStep

LEMMA RowsNext ==
  ASSUME IInv, [Next]_vars
  PROVE  RowStep
<1>1. ASSUME NEW t \in Trades, StreamStep(t) \/ Disconnect(t)
      PROVE  RowStep
  BY <1>1, RowsStream DEF IInv
<1>2. CASE ReconcileStep
  BY <1>2, RowsReconcile DEF IInv
<1>3. CASE MonitorStep
  BY <1>3, RowsMonitor DEF IInv
<1>4. ASSUME NEW t \in Trades, Market(t)
      PROVE  RowStep
  <2>1. UNCHANGED dbVars
    BY <1>4 DEF Market, EntryFills, Liquidated, TargetFills, StopFires,
                OrderExpires, Execute, onlyExchange
  <2> QED
    BY <2>1, RowsRest DEF IInv
<1>5. ASSUME NEW t \in Trades, OpeningCommits(t)
      PROVE  RowStep
  <2>1. /\ db' = [db EXCEPT ![t] = [db[t] EXCEPT !.status = "open"]]
        /\ draft' = [draft EXCEPT ![t] = [draft[t] EXCEPT !.status = "open"]]
        /\ owner' = owner
    BY <1>5 DEF OpeningCommits
  <2>2. \A row \in Rows :
          /\ [row EXCEPT !.status = "open"] \in Rows
          /\ Holds(t, row) => Holds(t, [row EXCEPT !.status = "open"])
    BY DEF Rows, Holds
  <2>3. /\ db \in [Trades -> Rows] /\ draft \in [Trades -> Rows]
        /\ owner \in [Trades -> Tasks \cup {NoTask}]
        /\ \A u \in Trades : Holds(u, db[u]) /\ Holds(u, draft[u])
    BY DEF IInv, TypeOK, Recorded
  <2> QED
    BY <2>1, <2>2, <2>3 DEF RowStep
<1>6. CASE Crash
  BY <1>6 DEF Crash, IInv, TypeOK, Recorded, RowStep
<1>7. CASE UNCHANGED vars
  BY <1>7, RowsRest DEF IInv, vars
<1> QED
  BY <1>1, <1>2, <1>3, <1>4, <1>5, <1>6, <1>7 DEF Next

-----------------------------------------------------------------------------
(* The user streams.                                                        *)

QueuesTell ==
  /\ queue' \in [Trades -> Seq(Executions)]
  /\ \A t \in Trades : \A i \in 1 .. Len(queue'[t]) : queue'[t][i] \in done'[t]

EventsTell ==
  /\ event' \in [Trades -> Executions \cup {"none"}]
  /\ \A t \in Trades : event'[t] # "none" => event'[t] \in done'[t] \cap Stops

StreamTells == QueuesTell /\ EventsTell /\ conn' \in [Trades -> BOOLEAN]

LEMMA QueuesRest ==
  ASSUME TypeOK, Reported, Grows, UNCHANGED queue
  PROVE  QueuesTell
BY DEF TypeOK, Reported, Grows, QueuesTell

LEMMA EventsRest ==
  ASSUME TypeOK, Reported, Grows, UNCHANGED event
  PROVE  EventsTell
BY DEF TypeOK, Reported, Grows, EventsTell

LEMMA ConnRests ==
  ASSUME TypeOK, UNCHANGED conn
  PROVE  conn' \in [Trades -> BOOLEAN]
BY DEF TypeOK

LEMMA StreamRests ==
  ASSUME TypeOK, Reported, Grows, UNCHANGED streamVars
  PROVE  StreamTells
BY QueuesRest, EventsRest, ConnRests DEF streamVars, StreamTells

LEMMA QueuesTaken ==
  ASSUME TypeOK, Reported, Grows, NEW t \in Trades, queue[t] # <<>>,
         TakeMessage(t)
  PROVE  QueuesTell
<1>1. queue' = [queue EXCEPT ![t] = Tail(queue[t])]
  BY DEF TakeMessage
<1>2. queue[t] \in Seq(Executions) /\ queue[t] # <<>>
  BY DEF TypeOK
<1>3. /\ Tail(queue[t]) \in Seq(Executions)
      /\ Len(Tail(queue[t])) = Len(queue[t]) - 1
      /\ \A i \in 1 .. Len(queue[t]) - 1 : Tail(queue[t])[i] = queue[t][i + 1]
  BY <1>2
<1>4. \A i \in 1 .. Len(queue[t]) - 1 : queue[t][i + 1] \in done'[t]
  BY <1>2 DEF Reported, Grows
<1> QED
  BY <1>1, <1>3, <1>4 DEF TypeOK, Reported, Grows, QueuesTell

LEMMA StreamReports ==
  ASSUME TypeOK, Reported, Grows, NEW t \in Trades, NEW x \in Executions,
         NEW left, Execute(t, x, left)
  PROVE  StreamTells
<1>1. x \in done'[t]
  BY DEF Execute, TypeOK
<1>2. Report(t, x)
  BY DEF Execute
<1>3. QueuesTell
  <2>1. CASE UNCHANGED queue
    BY <2>1, QueuesRest
  <2>2. ASSUME NEW m \in {<<x>>, <<x, x>>},
               queue' = [queue EXCEPT ![t] = queue[t] \o m]
        PROVE  QueuesTell
    <3>0. <<x>> \in Seq(Executions) /\ <<x, x>> \in Seq(Executions)
      OBVIOUS
    <3>1. queue[t] \in Seq(Executions) /\ m \in Seq(Executions)
      BY <2>2, <3>0 DEF TypeOK
    <3>2. /\ queue[t] \o m \in Seq(Executions)
          /\ \A i \in 1 .. Len(queue[t] \o m) :
               (queue[t] \o m)[i] = x \/ \E j \in 1 .. Len(queue[t]) :
                                          (queue[t] \o m)[i] = queue[t][j]
      BY <2>2, <3>1
    <3>3. \A i \in 1 .. Len(queue[t] \o m) : (queue[t] \o m)[i] \in done'[t]
      BY <1>1, <3>2 DEF Reported, Grows
    <3> QED
      BY <2>2, <3>2, <3>3 DEF TypeOK, Reported, Grows, QueuesTell
  <2> QED
    BY <1>2, <2>1, <2>2 DEF Report
<1> QED
  BY <1>2, <1>3, EventsRest, ConnRests DEF Report, StreamTells

LEMMA StreamNext ==
  ASSUME TypeOK, Reported, Grows, [Next]_vars
  PROVE  StreamTells
<1>1. ASSUME UNCHANGED streamVars
      PROVE  StreamTells
  BY <1>1, StreamRests
<1>2. ASSUME NEW t \in Trades, StreamStep(t) \/ Disconnect(t)
      PROVE  StreamTells
  <2>1. CASE Ignore(t) \/ TakeLegFill(t) \/ TakeLiquidation(t)
    <3>1. queue[t] # <<>> /\ TakeMessage(t) /\ UNCHANGED <<conn, event>>
      BY <2>1 DEF Ignore, TakeLegFill, TakeLiquidation, notStream
    <3> QED
      BY <3>1, QueuesTaken, EventsRest, ConnRests DEF StreamTells
  <2>2. CASE TakeStopFill(t)
    <3>1. /\ queue[t] # <<>> /\ TakeMessage(t) /\ UNCHANGED conn
          /\ Head(queue[t]) \in Stops
          /\ event' = [event EXCEPT ![t] = Head(queue[t])]
      BY <2>2 DEF TakeStopFill, notStream
    <3>2. Head(queue[t]) \in Executions /\ Head(queue[t]) \in done'[t]
      BY <3>1 DEF TypeOK, Reported, Grows
    <3>3. EventsTell
      BY <3>1, <3>2 DEF TypeOK, Reported, Grows, EventsTell
    <3> QED
      BY <3>1, <3>3, QueuesTaken, ConnRests DEF StreamTells
  <2>3. CASE CloseStopped(t)
    <3>1. /\ UNCHANGED <<conn, queue>>
          /\ event' = [event EXCEPT ![t] = "none"] \/ UNCHANGED event
      BY <2>3 DEF CloseStopped, notStream
    <3>2. EventsTell
      BY <3>1 DEF TypeOK, Reported, Grows, EventsTell
    <3> QED
      BY <3>1, <3>2, QueuesRest, ConnRests DEF StreamTells
  <2>4. CASE Publish(t) \/ Connect(t) \/ Disconnect(t)
    <3>1. /\ UNCHANGED event
          /\ UNCHANGED queue \/ queue' = [queue EXCEPT ![t] = <<>>]
          /\ \E c \in BOOLEAN : conn' = [conn EXCEPT ![t] = c] \/ UNCHANGED conn
      BY <2>4 DEF Publish, Connect, Disconnect
    <3>2. ASSUME queue' = [queue EXCEPT ![t] = <<>>]
          PROVE  QueuesTell
      <4>1. <<>> \in Seq(Executions) /\ Len(<<>>) = 0
        OBVIOUS
      <4> QED
        BY <3>2, <4>1 DEF TypeOK, Reported, Grows, QueuesTell
    <3> QED
      BY <3>1, <3>2, QueuesRest, EventsRest DEF TypeOK, StreamTells
  <2>5. CASE \/ CancelStop(t) \/ PlaceBe(t) \/ ConfirmBe(t) \/ CancelOld(t)
             \/ CancelTargets(t)
    BY <1>1, <2>5 DEF CancelStop, PlaceBe, ConfirmBe, CancelOld, CancelTargets
  <2> QED
    BY <1>2, <2>1, <2>2, <2>3, <2>4, <2>5 DEF StreamStep
<1>3. ASSUME NEW t \in Trades, Market(t)
      PROVE  StreamTells
  <2>1. CASE UNCHANGED streamVars
    BY <1>1, <2>1
  <2>2. ASSUME NEW x \in Executions, NEW left, Execute(t, x, left)
        PROVE  StreamTells
    BY <2>2, StreamReports
  <2>3. CASE \/ EntryFills(t) \/ \E x \in Orders(t) : OrderExpires(t, x)
    BY <2>1, <2>3 DEF EntryFills, OrderExpires
  <2>4. ASSUME NEW i \in LegsOf[t], TargetFills(t, i)
        PROVE  StreamTells
    <3>1. i \in Executions /\ Execute(t, i, pos[t] - 1)
      BY <2>4, Legs DEF TargetFills, Executions
    <3> QED
      BY <2>2, <3>1
  <2>5. ASSUME NEW i \in Stops, StopFires(t, i)
        PROVE  StreamTells
    <3>1. i \in Executions /\ Execute(t, i, 0)
      BY <2>5 DEF StopFires, Executions
    <3> QED
      BY <2>2, <3>1
  <2>6. CASE Liquidated(t)
    <3>1. "liquidation" \in Executions /\ Execute(t, "liquidation", 0)
      BY <2>6 DEF Liquidated, Executions
    <3> QED
      BY <2>2, <3>1
  <2> QED
    BY <1>3, <2>3, <2>4, <2>5, <2>6 DEF Market
<1>4. CASE ReconcileStep
  BY <1>1, <1>4
     DEF ReconcileStep, StartReconcile, ReadPosition, ReadOrders, CloseMissing,
         PassOver, RepairStop, RepairTargets, notReconciler
<1>5. CASE MonitorStep
  BY <1>1, <1>5
     DEF MonitorStep, PriceCrosses, Sell, Unstop, CloseModel3, PublishModel3,
         notMonitor
<1>6. CASE Crash
  BY <1>6 DEF Crash, StreamTells, QueuesTell, EventsTell
<1>7. CASE UNCHANGED vars \/ \E t \in Trades : OpeningCommits(t)
  BY <1>1, <1>7 DEF vars, OpeningCommits
<1> QED
  BY <1>2, <1>3, <1>4, <1>5, <1>6, <1>7 DEF Next

-----------------------------------------------------------------------------
(* The tasks.                                                               *)

StepTypes == pc \in [Tasks -> Steps] /\ blocked \in Tasks \cup {NoTask}

SessionTypes ==
  /\ todo \in [{R, M} -> SUBSET Trades]
  /\ seen \in [{R, M} -> [Trades -> Rows]]
  /\ rpos \in BOOLEAN /\ rlive \subseteq Stops \cup Targets
  /\ started \in BOOLEAN

CounterTypes ==
  /\ faults \in 0 .. MaxFaults /\ drops \in 0 .. MaxDrops
  /\ crashes \in 0 .. MaxCrashes

LEMMA Counters ==
  ASSUME TypeOK, [Next]_vars
  PROVE  CounterTypes'
<1> USE LifecycleConstants
<1>1. ASSUME Fault \/ UNCHANGED countVars
      PROVE  CounterTypes'
  BY <1>1 DEF TypeOK, CounterTypes, Fault, countVars
<1>2. ASSUME NEW t \in Trades, StreamStep(t)
      PROVE  CounterTypes'
  BY <1>1, <1>2
     DEF StreamStep, Ignore, TakeLegFill, CancelStop, PlaceBe, ConfirmBe,
         CancelOld, TakeStopFill, CancelTargets, CloseStopped, TakeLiquidation,
         Publish, Connect, NoFault
<1>3. ASSUME NEW t \in Trades, Market(t) \/ OpeningCommits(t)
      PROVE  CounterTypes'
  BY <1>1, <1>3
     DEF Market, EntryFills, Liquidated, TargetFills, StopFires, OrderExpires,
         Execute, onlyExchange, OpeningCommits
<1>4. CASE ReconcileStep
  BY <1>1, <1>4
     DEF ReconcileStep, StartReconcile, ReadPosition, ReadOrders, CloseMissing,
         PassOver, RepairStop, RepairTargets, notReconciler, NoFault
<1>5. CASE MonitorStep
  BY <1>1, <1>5
     DEF MonitorStep, PriceCrosses, Sell, Unstop, CloseModel3, PublishModel3,
         NoFault
<1>6. CASE Crash \/ \E t \in Trades : Disconnect(t)
  BY <1>6 DEF Crash, Disconnect, TypeOK, CounterTypes
<1>7. CASE UNCHANGED vars
  BY <1>1, <1>7 DEF vars
<1> QED
  BY <1>2, <1>3, <1>4, <1>5, <1>6, <1>7 DEF Next

\* A task moves itself, to one of the points of its own code.
StreamMoves(t) ==
  /\ \/ UNCHANGED pc
     \/ \E step \in {"idle", "cancelStop", "placeBe", "confirmBe", "cancelOld",
                     "publish", "cancelTargets", "close"} : Goto(t, step)
  /\ blocked' \in {blocked, t}
  /\ UNCHANGED <<sessionVars, started>>

LEMMA StreamMoving ==
  ASSUME NEW t \in Trades, StreamStep(t) \/ Disconnect(t)
  PROVE  StreamMoves(t)
<1>1. CASE Ignore(t) \/ PlaceBe(t) \/ ConfirmBe(t)
  BY <1>1 DEF Ignore, PlaceBe, ConfirmBe, notStream, StreamMoves
<1>2. CASE TakeLegFill(t)
  BY <1>2 DEF TakeLegFill, notStream, StreamMoves, Flush, WaitForRow
<1>3. CASE CancelStop(t) \/ CancelOld(t)
  BY <1>3 DEF CancelStop, CancelOld, StreamMoves, Flush
<1>4. CASE TakeStopFill(t) \/ CancelTargets(t)
  BY <1>4 DEF TakeStopFill, CancelTargets, notStream, StreamMoves
<1>5. CASE CloseStopped(t) \/ TakeLiquidation(t)
  BY <1>5 DEF CloseStopped, TakeLiquidation, notStream, StreamMoves, Flush,
              WaitForRow
<1>6. CASE Publish(t)
  BY <1>6 DEF Publish, StreamMoves, CommitRows, RollbackRows
<1>7. CASE Connect(t) \/ Disconnect(t)
  BY <1>7 DEF Connect, Disconnect, StreamMoves
<1> QED
  BY <1>1, <1>2, <1>3, <1>4, <1>5, <1>6, <1>7 DEF StreamStep

\* A step of the market, or the commit of an opening.
Elsewhere == UNCHANGED <<pc, blocked, sessionVars, started>>

LEMMA MarketElsewhere ==
  ASSUME NEW t \in Trades, Market(t) \/ OpeningCommits(t)
  PROVE  Elsewhere
BY DEF Market, EntryFills, Liquidated, TargetFills, StopFires, OrderExpires,
       Execute, onlyExchange, OpeningCommits, Elsewhere

\* The reconciliation: what it leaves alone, and what it may do to itself.
ReconcilerMoves ==
  /\ UNCHANGED streamVars
  /\ \/ UNCHANGED pc
     \/ \E step \in {"idle", "position", "orders", "decide", "targets"} : Goto(R, step)
  /\ blocked' \in {blocked, R}
  /\ UNCHANGED todo \/ \E S \in SUBSET Trades : todo' = [todo EXCEPT ![R] = S]
  /\ \/ UNCHANGED seen
     \/ seen' = [seen EXCEPT ![R] = Unread]
     \/ seen' = [seen EXCEPT ![R] = db]
  /\ rpos' \in BOOLEAN /\ rlive' \subseteq Stops \cup Targets
  /\ started' \in BOOLEAN
  /\ pc'[R] # "idle" => todo'[R] # {}

LEMMA TurnEnds ==
  ASSUME TypeOK, SessionControl, NEW r, EndOfTrade(r), pc[R] # "idle",
         blocked' \in {blocked, R}, UNCHANGED streamVars
  PROVE  ReconcilerMoves
<1>1. todo[R] \in SUBSET Trades /\ todo[R] # {} /\ R \in {R, M} /\ R \in Tasks
  BY DEF TypeOK, SessionControl, Tasks, R
<1>2. /\ todo' = [todo EXCEPT ![R] = todo[R] \ {r}]
      /\ rpos' = FALSE /\ rlive' = {}
  BY DEF EndOfTrade
<1>3. todo[R] \ {r} \in SUBSET Trades
  BY <1>1
<1>4. CASE todo[R] = {r}
  <2>1. /\ Goto(R, "idle") /\ started' = TRUE
        /\ seen' = [seen EXCEPT ![R] = Unread]
        /\ pc'[R] = "idle"
    BY <1>1, <1>4 DEF EndOfTrade, Goto, TypeOK
  <2> QED
    BY <1>2, <1>3, <2>1 DEF ReconcilerMoves
<1>5. CASE todo[R] # {r}
  <2>1. Goto(R, "position") /\ UNCHANGED <<started, seen>>
    BY <1>5 DEF EndOfTrade
  <2>2. todo'[R] # {}
    BY <1>1, <1>2, <1>5 DEF TypeOK
  <2> QED
    BY <1>2, <1>3, <2>1, <2>2 DEF TypeOK, ReconcilerMoves
<1> QED
  BY <1>4, <1>5

LEMMA Reading ==
  /\ R \in Tasks /\ M \in Tasks /\ R # M
  /\ R \notin Trades /\ M \notin Trades
BY LifecycleConstants DEF Tasks, R, M

LEMMA ReconcilerMoving ==
  ASSUME TypeOK, SessionControl, ReconcileStep
  PROVE  ReconcilerMoves
<1>1. todo[R] \in SUBSET Trades /\ pc \in [Tasks -> Steps]
  BY DEF TypeOK
<1>2. ASSUME CommitAtEnd(Cur(R)) \/ UNCHANGED <<dbVars, blocked>>
      PROVE  blocked' \in {blocked, R}
  BY <1>2 DEF CommitAtEnd, CommitRows
<1>3. ASSUME EndOfTrade(Cur(R)), CommitAtEnd(Cur(R)), UNCHANGED streamVars,
             pc[R] # "idle"
      PROVE  ReconcilerMoves
  BY <1>2, <1>3, TurnEnds
<1>4. ASSUME NEW step \in {"orders", "decide", "targets"}, pc[R] # "idle",
             Goto(R, step) \/ UNCHANGED pc, UNCHANGED <<streamVars, todo, seen, started>>,
             blocked' \in {blocked, R},
             rpos' \in BOOLEAN, rlive' \subseteq Stops \cup Targets
      PROVE  ReconcilerMoves
  BY <1>4 DEF TypeOK, SessionControl, ReconcilerMoves
<1>5. CASE StartReconcile
  <2>1. /\ UNCHANGED <<streamVars, blocked, rpos, rlive>>
        /\ todo' = [todo EXCEPT ![R] = OpenTrades]
        /\ seen' = [seen EXCEPT ![R] = IF OpenTrades = {} THEN Unread ELSE db]
        /\ OpenTrades \in SUBSET Trades /\ pc[R] = "idle"
    BY <1>5 DEF StartReconcile, notReconciler, OpenTrades, At
  <2>2. CASE OpenTrades = {}
    BY <1>5, <2>1, <2>2 DEF StartReconcile, TypeOK, ReconcilerMoves
  <2>3. CASE OpenTrades # {}
    <3>1. Goto(R, "position") /\ UNCHANGED started
      BY <1>5, <2>3 DEF StartReconcile
    <3>2. todo'[R] # {}
      BY <2>1, <2>3 DEF TypeOK
    <3> QED
      BY <2>1, <2>3, <3>1, <3>2 DEF TypeOK, ReconcilerMoves
  <2> QED
    BY <2>2, <2>3
<1>6. CASE ReadPosition
  <2>1. pc[R] # "idle" /\ UNCHANGED streamVars
    BY <1>6 DEF ReadPosition, At
  <2>2. CASE /\ rpos' = (pos[Cur(R)] > 0)
             /\ Goto(R, "orders") /\ UNCHANGED <<blocked, todo, seen, rlive, started>>
    BY <1>4, <2>1, <2>2 DEF TypeOK
  <2>3. CASE EndOfTrade(Cur(R)) /\ CommitAtEnd(Cur(R))
    BY <1>3, <2>1, <2>3
  <2> QED
    BY <1>6, <2>2, <2>3 DEF ReadPosition
<1>7. CASE ReadOrders
  <2>1. pc[R] # "idle" /\ UNCHANGED streamVars /\ Cur(R) \in Trades
    BY <1>7, CurrentTrade DEF ReadOrders, At
  <2>2. CASE /\ rlive' = live[Cur(R)]
             /\ Goto(R, "decide") /\ UNCHANGED <<blocked, todo, seen, rpos, started>>
    BY <1>4, <2>1, <2>2 DEF TypeOK
  <2>3. CASE EndOfTrade(Cur(R)) /\ CommitAtEnd(Cur(R))
    BY <1>3, <2>1, <2>3
  <2> QED
    BY <1>7, <2>2, <2>3 DEF ReadOrders
<1>8. CASE CloseMissing
  <2> DEFINE r == Cur(R)
             row == Closed(RowFor(R, r), "reconciled_closed_unknown", seen[R][r])
  <2>1. pc[R] # "idle" /\ UNCHANGED streamVars
    BY <1>8 DEF CloseMissing, At, notReconciler
  <2>2. \/ WriteAndEnd(r, row) /\ EndOfTrade(r)
        \/ WaitForRow(R, r) /\ UNCHANGED <<pc, sessionVars, started>>
    BY <1>8 DEF CloseMissing
  <2> HIDE DEF r, row
  <2>3. CASE WriteAndEnd(r, row) /\ EndOfTrade(r)
    <3>1. UNCHANGED blocked
      BY <2>3 DEF WriteAndEnd, Flush
    <3> QED
      BY <2>1, <2>3, <3>1, TurnEnds
  <2>4. CASE WaitForRow(R, r) /\ UNCHANGED <<pc, sessionVars, started>>
    BY <1>4, <2>1, <2>4 DEF WaitForRow, sessionVars, TypeOK
  <2> QED
    BY <2>2, <2>3, <2>4
<1>9. CASE PassOver \/ RepairTargets
  BY <1>3, <1>9 DEF PassOver, RepairTargets, At, notReconciler
<1>10. CASE RepairStop
  <2>1. pc[R] # "idle" /\ UNCHANGED streamVars
    BY <1>10 DEF RepairStop, At
  <2>2. \/ /\ Goto(R, "targets") \/ UNCHANGED pc
           /\ UNCHANGED <<sessionVars, started>>
           /\ blocked' \in {blocked, R}
        \/ EndOfTrade(Cur(R)) /\ CommitAtEnd(Cur(R))
    BY <1>10 DEF RepairStop, Flush, WaitForRow
  <2>3. CASE /\ Goto(R, "targets") \/ UNCHANGED pc
             /\ UNCHANGED <<sessionVars, started>>
             /\ blocked' \in {blocked, R}
    BY <1>4, <2>1, <2>3 DEF sessionVars, TypeOK
  <2> QED
    BY <1>3, <2>1, <2>2, <2>3
<1> QED
  BY <1>5, <1>6, <1>7, <1>8, <1>9, <1>10 DEF ReconcileStep

\* The monitor of risk model 3.
MonitorMoves ==
  /\ UNCHANGED <<streamVars, rpos, rlive, started>>
  /\ \/ UNCHANGED pc
     \/ \E step \in {"idle", "sell", "unstop", "exit", "tell"} : Goto(M, step)
  /\ blocked' \in {blocked, M}
  /\ \/ UNCHANGED todo
     \/ \E S \in SUBSET Trades : /\ \A t \in S : LegsOf[t] = {}
                               /\ todo' = [todo EXCEPT ![M] = S]
  /\ \/ UNCHANGED seen
     \/ seen' = [seen EXCEPT ![M] = Unread]
     \/ seen' = [seen EXCEPT ![M] = db]
  /\ pc'[M] \in {"sell", "unstop", "exit", "tell"} => todo'[M] # {}
  /\ pc'[M] \in {"unstop", "exit"} => "model3_exit" \in done'[First(todo'[M])]

LEMMA MonitorMoving ==
  ASSUME TypeOK, SessionControl, Grows, MonitorStep
  PROVE  MonitorMoves
<1>1. /\ M \in Tasks /\ pc \in [Tasks -> Steps]
      /\ todo \in [{R, M} -> SUBSET Trades]
      /\ \A t \in todo[M] : LegsOf[t] = {}
  BY Reading DEF TypeOK, SessionControl
<1>2. ASSUME Abandon, UNCHANGED notMonitor
      PROVE  MonitorMoves
  <2>1. /\ Goto(M, "idle") /\ pc'[M] = "idle" /\ UNCHANGED blocked
        /\ todo' = [todo EXCEPT ![M] = {}]
        /\ seen' = [seen EXCEPT ![M] = Unread]
    BY <1>1, <1>2 DEF Abandon, Goto, RollbackRows
  <2> QED
    BY <1>2, <2>1 DEF notMonitor, MonitorMoves
<1>3. CASE PriceCrosses
  <2>1. PICK S \in (SUBSET Model3Trades) \ {{}} : todo' = [todo EXCEPT ![M] = S]
    BY <1>3 DEF PriceCrosses
  <2>2. S # {} /\ S \in SUBSET Trades /\ \A t \in S : LegsOf[t] = {}
    BY <2>1 DEF Model3Trades, OpenTrades
  <2>3. /\ Goto(M, "sell") /\ UNCHANGED <<notMonitor, blocked>>
        /\ seen' = [seen EXCEPT ![M] = db]
    BY <1>3 DEF PriceCrosses
  <2>4. pc'[M] = "sell" /\ todo'[M] = S
    BY <1>1, <2>1, <2>3 DEF Goto
  <2> QED
    BY <2>1, <2>2, <2>3, <2>4 DEF notMonitor, MonitorMoves
<1>4. CASE Sell
  <2>1. CASE Abandon
    BY <1>2, <1>4, <2>1 DEF Sell
  <2>2. CASE ~ Abandon
    <3>1. /\ done' = [done EXCEPT ![Cur(M)] = done[Cur(M)] \cup {"model3_exit"}]
          /\ Goto(M, "unstop") /\ UNCHANGED <<notMonitor, todo, seen, blocked>>
          /\ pc[M] = "sell"
      BY <1>4, <2>2 DEF Sell, At
    <3>2. Cur(M) \in Trades /\ todo[M] # {}
      BY <3>1, CurrentTrade DEF SessionControl
    <3>3. "model3_exit" \in done'[Cur(M)]
      BY <3>1, <3>2 DEF TypeOK
    <3> QED
      BY <1>1, <3>1, <3>2, <3>3 DEF Goto, Cur, notMonitor, MonitorMoves
  <2> QED
    BY <2>1, <2>2
<1>5. ASSUME pc[M] \in {"unstop", "exit"}, NEW step \in {"exit", "tell"},
             Goto(M, step) \/ UNCHANGED pc, UNCHANGED <<notMonitor, todo, seen>>,
             blocked' \in {blocked, M}
      PROVE  MonitorMoves
  <2>1. /\ todo[M] # {} /\ Cur(M) \in Trades /\ "model3_exit" \in done[Cur(M)]
    BY <1>5, CurrentTrade DEF SessionControl
  <2>2. "model3_exit" \in done'[First(todo'[M])]
    BY <1>5, <2>1 DEF Grows, Cur
  <2> QED
    BY <1>1, <1>5, <2>1, <2>2 DEF notMonitor, MonitorMoves
<1>6. CASE Unstop
  BY <1>5, <1>6 DEF Unstop, At
<1>7. CASE CloseModel3
  BY <1>5, <1>7 DEF CloseModel3, At, Flush, WaitForRow
<1>8. CASE PublishModel3
  <2>1. CASE Abandon
    BY <1>2, <1>8, <2>1 DEF PublishModel3
  <2>2. CASE ~ Abandon
    <3>1. /\ todo' = [todo EXCEPT ![M] = todo[M] \ {Cur(M)}]
          /\ UNCHANGED <<notMonitor, blocked>>
          /\ pc[M] = "tell"
      BY <1>8, <2>2 DEF PublishModel3, At, CommitRows
    <3>2. /\ todo[M] \ {Cur(M)} \in SUBSET Trades
          /\ \A t \in todo[M] \ {Cur(M)} : LegsOf[t] = {}
          /\ todo'[M] = todo[M] \ {Cur(M)}
          /\ todo[M] # {}
      BY <1>1, <3>1 DEF SessionControl
    <3>3. CASE todo[M] = {Cur(M)}
      <4>1. /\ Goto(M, "idle") /\ pc'[M] = "idle"
            /\ seen' = [seen EXCEPT ![M] = Unread]
        BY <1>1, <1>8, <2>2, <3>3 DEF PublishModel3, Goto
      <4> QED
        BY <3>1, <3>2, <4>1 DEF notMonitor, MonitorMoves
    <3>4. CASE todo[M] # {Cur(M)}
      <4>1. Goto(M, "sell") /\ pc'[M] = "sell" /\ UNCHANGED seen
        BY <1>1, <1>8, <2>2, <3>4 DEF PublishModel3, Goto
      <4>2. todo'[M] # {}
        BY <3>2, <3>4
      <4> QED
        BY <3>1, <3>2, <4>1, <4>2 DEF notMonitor, MonitorMoves
    <3> QED
      BY <3>3, <3>4
  <2> QED
    BY <2>1, <2>2
<1> QED
  BY <1>3, <1>4, <1>6, <1>7, <1>8 DEF MonitorStep

LEMMA TaskTypes ==
  ASSUME TypeOK, ExchangeTypes', RowStep,
         \/ \E t \in Trades : StreamMoves(t)
         \/ Elsewhere \/ ReconcilerMoves \/ MonitorMoves
  PROVE  StepTypes' /\ SessionTypes'
<1>1. Unread \in [Trades -> Rows]
  BY DEF Unread, Rows, Reasons
<1>2. ASSUME NEW k \in Tasks, NEW step \in Steps,
             Goto(k, step) \/ UNCHANGED pc, blocked' \in {blocked, k}
      PROVE  StepTypes'
  <2>1. pc' \in [Tasks -> Steps]
    BY <1>2 DEF TypeOK, Goto
  <2>2. blocked' \in Tasks \cup {NoTask}
    BY <1>2 DEF TypeOK
  <2> QED
    BY <2>1, <2>2 DEF StepTypes
<1>3. ASSUME NEW k \in {R, M}, NEW S \in SUBSET Trades,
             UNCHANGED todo \/ todo' = [todo EXCEPT ![k] = S],
             \/ UNCHANGED seen
             \/ seen' = [seen EXCEPT ![k] = Unread]
             \/ seen' = [seen EXCEPT ![k] = db],
             rpos' \in BOOLEAN, rlive' \subseteq Stops \cup Targets,
             started' \in BOOLEAN
      PROVE  SessionTypes'
  <2>1. todo' \in [{R, M} -> SUBSET Trades]
    BY <1>3 DEF TypeOK
  <2>2. seen' \in [{R, M} -> [Trades -> Rows]]
    BY <1>1, <1>3 DEF TypeOK
  <2> QED
    BY <1>3, <2>1, <2>2 DEF SessionTypes
<1>4. ASSUME NEW t \in Trades, StreamMoves(t)
      PROVE  StepTypes' /\ SessionTypes'
  <2>1. /\ t \in Tasks
        /\ \E step \in Steps : Goto(t, step) \/ UNCHANGED pc
    BY <1>4 DEF StreamMoves, Steps, Tasks
  <2>2. StepTypes'
    BY <1>2, <1>4, <2>1 DEF StreamMoves
  <2> QED
    BY <1>4, <2>2 DEF StreamMoves, sessionVars, TypeOK, SessionTypes
<1>5. CASE Elsewhere
  BY <1>5 DEF TypeOK, Elsewhere, sessionVars, StepTypes, SessionTypes
<1>6. CASE ReconcilerMoves
  <2>1. \E step \in Steps : Goto(R, step) \/ UNCHANGED pc
    BY <1>6 DEF ReconcilerMoves, Steps
  <2>2. \E S \in SUBSET Trades : UNCHANGED todo \/ todo' = [todo EXCEPT ![R] = S]
    BY <1>6 DEF ReconcilerMoves
  <2> QED
    BY <1>2, <1>3, <1>6, <2>1, <2>2, Reading DEF ReconcilerMoves
<1>7. CASE MonitorMoves
  <2>1. \E step \in Steps : Goto(M, step) \/ UNCHANGED pc
    BY <1>7 DEF MonitorMoves, Steps
  <2>2. \E S \in SUBSET Trades : UNCHANGED todo \/ todo' = [todo EXCEPT ![M] = S]
    BY <1>7 DEF MonitorMoves
  <2>3. rpos' \in BOOLEAN /\ rlive' \subseteq Stops \cup Targets /\ started' \in BOOLEAN
    BY <1>7 DEF MonitorMoves, TypeOK
  <2>4. /\ blocked' \in {blocked, M}
        /\ \/ UNCHANGED seen
           \/ seen' = [seen EXCEPT ![M] = Unread]
           \/ seen' = [seen EXCEPT ![M] = db]
    BY <1>7 DEF MonitorMoves
  <2>5. StepTypes'
    BY <1>2, <2>1, <2>4, Reading
  <2>6. SessionTypes'
    BY <1>3, <2>2, <2>3, <2>4, Reading
  <2> QED
    BY <2>5, <2>6
<1> QED
  BY <1>4, <1>5, <1>6, <1>7

\* What holds of a stream that does not move.
LEMMA StreamStands ==
  ASSUME NEW t \in Trades, Controlled(t), Grows, StopsLeave,
         pc'[t] = pc[t], event'[t] = event[t],
         owner[t] = t => owner'[t] = t /\ draft'[t].filled = draft[t].filled
  PROVE  Controlled(t)'
<1>1. pc[t] = "cancelOld" /\ LegsOf[t] # {} => "be" \in live'[t] \/ Ended(t)'
  BY DEF Controlled, Grows, StopsLeave, Ended, Stops
<1> QED
  BY <1>1 DEF Controlled

LEMMA StreamsStand ==
  ASSUME IInv, ExchangeStep, NEW k \in Tasks, KeptBy(k),
         NEW t \in Trades \ {k}, pc'[t] = pc[t], event'[t] = event[t]
  PROVE  Controlled(t)'
<1>1. owner[t] = t => owner'[t] = t /\ draft'[t].filled = draft[t].filled
  BY LifecycleConstants DEF KeptBy, Tasks
<1> QED
  BY <1>1, StreamStands DEF IInv, StreamControl, ExchangeStep

\* What holds of a stream that has moved.
LEMMA StreamMoved ==
  ASSUME IInv, ExchangeStep, NEW t \in Trades, StreamStep(t) \/ Disconnect(t)
  PROVE  Controlled(t)'
<1>1. /\ pc \in [Tasks -> Steps] /\ t \in Tasks
      /\ Controlled(t)
  BY DEF IInv, TypeOK, StreamControl, Tasks
<1>2. ASSUME pc'[t] \notin {"cancelTargets", "close", "cancelStop", "cancelOld"}
      PROVE  Controlled(t)'
  BY <1>2 DEF Controlled
<1>3. CASE Ignore(t) \/ Connect(t) \/ Disconnect(t) \/ Publish(t)
  <2>1. pc'[t] = "idle"
    BY <1>1, <1>3 DEF Ignore, Connect, Disconnect, Publish, At, Goto
  <2> QED
    BY <1>2, <2>1
<1>4. CASE TakeLegFill(t)
  <2> DEFINE filled == db[t].filled \cup {Head(queue[t])}
  <2>1. CASE WaitForRow(t, t) /\ UNCHANGED pc
    BY <1>2, <1>4, <2>1 DEF TakeLegFill, At
  <2>2. CASE /\ Flush(t, t, [db[t] EXCEPT !.filled = filled])
             /\ pc'[t] # "cancelStop" \/ AllFilled(t, filled)
             /\ pc'[t] \notin {"cancelTargets", "close", "cancelOld"}
    <3>1. db[t] \in Rows /\ draft \in [Trades -> Rows]
          /\ owner \in [Trades -> Tasks \cup {NoTask}]
      BY DEF IInv, TypeOK
    <3>2. draft'[t] = [db[t] EXCEPT !.filled = filled] /\ owner'[t] = t
      BY <2>2, <3>1 DEF Flush
    <3>3. draft'[t].filled = filled
      BY <3>1, <3>2 DEF Rows
    <3> QED
      BY <2>2, <3>2, <3>3 DEF AllFilled, Controlled
  <2>3. \/ WaitForRow(t, t) /\ UNCHANGED pc
        \/ /\ Flush(t, t, [db[t] EXCEPT !.filled = filled])
           /\ Goto(t, CASE AllFilled(t, filled) -> "cancelStop"
                        [] Head(queue[t]) = "tp1" /\ ~ AllFilled(t, filled) -> "placeBe"
                        [] OTHER -> "publish")
    BY <1>4 DEF TakeLegFill
  <2> QED
    BY <1>1, <2>1, <2>2, <2>3 DEF Goto
<1>5. CASE CancelStop(t) \/ PlaceBe(t) \/ CancelOld(t) \/ TakeLiquidation(t)
  <2>1. pc'[t] \in {"idle", "publish", "confirmBe"}
    BY <1>1, <1>5
       DEF CancelStop, PlaceBe, CancelOld, TakeLiquidation, At, Goto
  <2> QED
    BY <1>2, <2>1
<1>6. CASE ConfirmBe(t)
  <2>1. /\ UNCHANGED live
        /\ pc'[t] = "publish" \/ (pc'[t] = "cancelOld" /\ "be" \in live[t])
    BY <1>1, <1>6 DEF ConfirmBe, BeConfirmed, Goto, exchangeVars
  <2> QED
    BY <2>1 DEF Controlled
<1>7. CASE TakeStopFill(t)
  <2>1. pc'[t] = "cancelTargets" /\ event'[t] \in Stops
    BY <1>1, <1>7 DEF TakeStopFill, Goto, IInv, TypeOK
  <2> QED
    BY <2>1 DEF Controlled, Stops
<1>8. CASE CancelTargets(t)
  <2>1. pc'[t] = "close" /\ event'[t] = event[t] /\ event[t] # "none"
    BY <1>1, <1>8 DEF CancelTargets, At, Goto, streamVars, Controlled
  <2> QED
    BY <2>1 DEF Controlled
<1>9. CASE CloseStopped(t)
  <2>1. \/ pc'[t] = "publish"
        \/ pc'[t] = "close" /\ event'[t] = event[t] /\ event[t] # "none"
    BY <1>1, <1>9 DEF CloseStopped, At, Goto, Controlled
  <2> QED
    BY <2>1 DEF Controlled
<1> QED
  BY <1>3, <1>4, <1>5, <1>6, <1>7, <1>8, <1>9 DEF StreamStep

\* Sessions keep their control while others move.
LEMMA SessionsStand ==
  ASSUME IInv, Grows, UNCHANGED todo, pc'[R] = pc[R], pc'[M] = pc[M]
  PROVE  SessionControl'
<1>1. pc[M] \in {"unstop", "exit"} => "model3_exit" \in done'[Cur(M)]
  BY CurrentTrade DEF IInv, SessionControl, Grows
<1> QED
  BY <1>1 DEF IInv, SessionControl, Cur

-----------------------------------------------------------------------------
(* The invariant holds initially and is preserved.                          *)

LEMMA InitHolds ==
  Init => IInv
<1> SUFFICES ASSUME Init PROVE IInv
  OBVIOUS
<1> USE Reading
<1>1. PICK sl \in InitialSls :
        /\ db = [t \in Trades |-> [status |-> "none", reason |-> "none",
                                   sl |-> sl, filled |-> {}]]
        /\ live = [t \in Trades |->
                     IF sl = "none" THEN {} ELSE LegsOf[t] \cup {sl}]
  BY DEF Init
<1>2. PICK n \in InitialRests :
        /\ rest = [t \in Trades |-> IF n < QtyOf(t) THEN n ELSE 0]
        /\ pos = [t \in Trades |-> QtyOf(t) - rest[t]]
  BY DEF Init
<1>3. sl \in Stops \cup {"none"} /\ sl \in {"sl", "none"} /\ n \in Nat
  BY LifecycleConstants DEF Stops
<1>4. \A t \in Trades : QtyOf(t) \in Nat /\ LegsOf[t] \subseteq Targets
  BY Legs
<1>5. Unread \in [Trades -> Rows]
  BY DEF Unread, Rows, Reasons
<1>6. db \in [Trades -> Rows] /\ draft = db
  BY <1>1, <1>3 DEF Init, Rows, Reasons
<1>7. pos \in [Trades -> Nat] /\ rest \in [Trades -> Nat]
  BY <1>2, <1>3, <1>4
<1>8. live \in [Trades -> SUBSET (Stops \cup Targets)]
  BY <1>1, <1>3, <1>4
<1>9. /\ done \in [Trades -> SUBSET Executions]
      /\ queue \in [Trades -> Seq(Executions)]
      /\ event \in [Trades -> Executions \cup {"none"}]
      /\ owner \in [Trades -> Tasks \cup {NoTask}]
      /\ conn \in [Trades -> BOOLEAN]
  BY DEF Init
<1>10. /\ pc \in [Tasks -> Steps] /\ blocked \in Tasks \cup {NoTask}
       /\ todo \in [{R, M} -> SUBSET Trades]
       /\ seen \in [{R, M} -> [Trades -> Rows]]
       /\ rpos \in BOOLEAN /\ rlive \subseteq Stops \cup Targets
       /\ started \in BOOLEAN
  BY <1>5 DEF Init, Steps
<1>11. CounterTypes
  BY LifecycleConstants DEF Init, CounterTypes
<1>12. TypeOK
  BY <1>6, <1>7, <1>8, <1>9, <1>10, <1>11 DEF TypeOK, CounterTypes
<1>13. Amounts
  <2> SUFFICES ASSUME NEW t \in Trades, LegsOf[t] # {}
               PROVE  pos[t] + rest[t] <= Cardinality(LegsOf[t] \ done[t])
    BY DEF Amounts
  <2>1. pos[t] + rest[t] = QtyOf(t)
    BY <1>2, <1>3, <1>4
  <2>2. LegsOf[t] \ done[t] = LegsOf[t]
    BY DEF Init
  <2>3. Cardinality(LegsOf[t] \ done[t]) = QtyOf(t)
    BY <2>2 DEF QtyOf
  <2> QED
    BY <1>4, <2>1, <2>3
<1>14. Reported
  BY DEF Init, Reported
<1>15. Recorded
  BY <1>1, <1>6 DEF Recorded, Holds, Stops
<1>16. StreamControl
  BY DEF Init, StreamControl, Controlled, Tasks
<1>17. SessionControl
  BY DEF Init, SessionControl
<1> QED
  BY <1>12, <1>13, <1>14, <1>15, <1>16, <1>17 DEF IInv

LEMMA AmountsNext ==
  ASSUME IInv, ExchangeStep
  PROVE  Amounts'
<1> SUFFICES ASSUME NEW t \in Trades, LegsOf[t] # {}
             PROVE  pos'[t] + rest'[t] <= Cardinality(LegsOf[t] \ done'[t])
  BY DEF Amounts
<1> DEFINE left == LegsOf[t] \ done[t]
<1>1. IsFiniteSet(left)
  <2>1. left \in SUBSET LegsOf[t]
    OBVIOUS
  <2> QED
    BY <2>1, Legs, FS_Subset
<1>2. pos[t] + rest[t] <= Cardinality(left)
  BY DEF IInv, Amounts
<1>3. /\ pos[t] \in Nat /\ rest[t] \in Nat
      /\ pos'[t] \in Nat /\ rest'[t] \in Nat
  BY DEF IInv, TypeOK, ExchangeStep, ExchangeTypes
<1>4. Cardinality(left) \in Nat
  BY <1>1, FS_CardinalityType
<1>5. CASE /\ pos'[t] + rest'[t] <= pos[t] + rest[t]
           /\ done'[t] \cap LegsOf[t] = done[t] \cap LegsOf[t]
  <2>1. LegsOf[t] \ done'[t] = left
    BY <1>5
  <2> HIDE DEF left
  <2>2. Cardinality(LegsOf[t] \ done'[t]) = Cardinality(left)
    BY <2>1
  <2> QED
    BY <1>2, <1>3, <1>4, <1>5, <2>2
<1>6. ASSUME NEW i \in LegsOf[t],
             pos'[t] + rest'[t] <= pos[t] + rest[t] - 1,
             done'[t] = done[t] \cup {i}
      PROVE  pos'[t] + rest'[t] <= Cardinality(LegsOf[t] \ done'[t])
  <2>1. LegsOf[t] \ done'[t] = left \ {i}
    BY <1>6
  <2> HIDE DEF left
  <2>2. \/ Cardinality(left \ {i}) = Cardinality(left) - 1
        \/ Cardinality(left \ {i}) = Cardinality(left)
    BY <1>1, FS_RemoveElement
  <2>3. Cardinality(LegsOf[t] \ done'[t]) = Cardinality(left \ {i})
    BY <2>1
  <2> QED
    BY <1>2, <1>3, <1>4, <1>6, <2>2, <2>3
<1> QED
  BY <1>5, <1>6 DEF ExchangeStep, AmountsShrink

\* A crash ends what the tasks were doing.
LEMMA CrashHolds ==
  ASSUME IInv, Crash
  PROVE  StepTypes' /\ SessionTypes' /\ StreamControl' /\ SessionControl'
<1> USE Reading
<1>1. Unread \in [Trades -> Rows]
  BY DEF Unread, Rows, Reasons
<1>2. StepTypes' /\ SessionTypes'
  BY <1>1 DEF Crash, StepTypes, SessionTypes, Steps
<1>3. StreamControl' /\ SessionControl'
  BY DEF Crash, StreamControl, Controlled, SessionControl, Tasks
<1> QED
  BY <1>2, <1>3

LEMMA TasksNext ==
  ASSUME IInv, ExchangeStep, RowStep, [Next]_vars
  PROVE  StepTypes' /\ SessionTypes' /\ StreamControl' /\ SessionControl'
<1> USE Reading
<1>1. /\ TypeOK /\ Reported /\ Recorded /\ StreamControl /\ SessionControl
      /\ Grows /\ StopsLeave /\ ExchangeTypes'
  BY DEF IInv, ExchangeStep
<1>2. ASSUME NEW t \in Trades, StreamStep(t) \/ Disconnect(t)
      PROVE  StepTypes' /\ SessionTypes' /\ StreamControl' /\ SessionControl'
  <2>1. StreamMoves(t) /\ KeptBy(t) /\ t \in Tasks
    BY <1>1, <1>2, StreamMoving, RowsStream DEF Tasks
  <2>2. StepTypes' /\ SessionTypes'
    BY <1>1, <2>1, TaskTypes
  <2>3. \A k \in Tasks \ {t} : pc'[k] = pc[k]
    BY <1>1, <2>1 DEF TypeOK, StreamMoves, Goto
  <2>4. \A u \in Trades \ {t} : event'[u] = event[u]
    BY <1>1, <1>2
       DEF TypeOK, StreamStep, Ignore, TakeLegFill, CancelStop, PlaceBe,
           ConfirmBe, CancelOld, TakeStopFill, CancelTargets, CloseStopped,
           TakeLiquidation, Publish, Connect, Disconnect, notStream, streamVars
  <2>5. ASSUME NEW u \in Trades \ {t}
        PROVE  Controlled(u)'
    BY <2>1, <2>3, <2>4, StreamsStand DEF Tasks
  <2>6. StreamControl'
    BY <1>2, <2>5, StreamMoved DEF StreamControl
  <2>7. SessionControl'
    BY <1>1, <2>1, <2>3, SessionsStand DEF StreamMoves, sessionVars
  <2> QED
    BY <2>2, <2>6, <2>7
<1>3. ASSUME NEW k \in Tasks \ Trades, KeptBy(k), UNCHANGED event,
             \A t \in Trades : pc'[t] = pc[t]
      PROVE  StreamControl'
  BY <1>3, StreamsStand DEF StreamControl
<1>4. CASE ReconcileStep
  <2>1. ReconcilerMoves /\ KeptBy(R)
    BY <1>1, <1>4, ReconcilerMoving, RowsReconcile
  <2>2. StepTypes' /\ SessionTypes'
    BY <1>1, <2>1, TaskTypes
  <2>3. \A k \in Tasks \ {R} : pc'[k] = pc[k]
    BY <1>1, <2>1 DEF TypeOK, ReconcilerMoves, Goto
  <2>4. StreamControl'
    <3>1. \A t \in Trades : t \in Tasks \ {R}
      BY DEF Tasks
    <3> QED
      BY <1>3, <2>1, <2>3, <3>1 DEF ReconcilerMoves, streamVars
  <2>5. /\ todo'[M] = todo[M] /\ pc'[M] = pc[M]
        /\ pc'[R] # "idle" => todo'[R] # {}
    BY <1>1, <2>1, <2>3 DEF TypeOK, ReconcilerMoves
  <2>6. pc[M] \in {"unstop", "exit"} => "model3_exit" \in done'[Cur(M)]
    BY <1>1, CurrentTrade DEF SessionControl, Grows
  <2>7. SessionControl'
    BY <1>1, <2>5, <2>6 DEF SessionControl, Cur
  <2> QED
    BY <2>2, <2>4, <2>7
<1>5. CASE MonitorStep
  <2>1. MonitorMoves /\ KeptBy(M)
    BY <1>1, <1>5, MonitorMoving, RowsMonitor
  <2>2. StepTypes' /\ SessionTypes'
    BY <1>1, <2>1, TaskTypes
  <2>3. \A k \in Tasks \ {M} : pc'[k] = pc[k]
    BY <1>1, <2>1 DEF TypeOK, MonitorMoves, Goto
  <2>4. StreamControl'
    <3>1. \A t \in Trades : t \in Tasks \ {M}
      BY DEF Tasks
    <3> QED
      BY <1>3, <2>1, <2>3, <3>1 DEF MonitorMoves, streamVars
  <2>5. /\ todo'[R] = todo[R] /\ pc'[R] = pc[R]
        /\ \A t \in todo'[M] : LegsOf[t] = {}
    BY <1>1, <2>1, <2>3 DEF TypeOK, SessionControl, MonitorMoves
  <2>6. SessionControl'
    BY <1>1, <2>1, <2>5 DEF SessionControl, MonitorMoves, Cur
  <2> QED
    BY <2>2, <2>4, <2>6
<1>6. ASSUME NEW t \in Trades, Market(t) \/ OpeningCommits(t)
      PROVE  StepTypes' /\ SessionTypes' /\ StreamControl' /\ SessionControl'
  <2>1. Elsewhere
    BY <1>6, MarketElsewhere
  <2>2. StepTypes' /\ SessionTypes'
    BY <1>1, <2>1, TaskTypes
  <2>3. /\ UNCHANGED event /\ UNCHANGED owner
        /\ UNCHANGED draft \/ draft' = [draft EXCEPT ![t].status = "open"]
    BY <1>6 DEF Market, EntryFills, Liquidated, TargetFills, StopFires,
                OrderExpires, Execute, Report, onlyExchange, dbVars, streamVars,
                OpeningCommits
  <2>4. KeptBy(R)
    <3>1. \A u \in Trades : draft'[u].filled = draft[u].filled
      <4>1. /\ draft \in [Trades -> Rows]
            /\ \A row \in Rows : [row EXCEPT !.status = "open"].filled = row.filled
        BY <1>1 DEF TypeOK, Rows
      <4>2. \/ UNCHANGED draft
            \/ draft' = [draft EXCEPT ![t] = [draft[t] EXCEPT !.status = "open"]]
        BY <2>3
      <4> QED
        BY <4>1, <4>2
    <3> QED
      BY <2>3, <3>1 DEF KeptBy
  <2>5. StreamControl'
    BY <1>3, <2>1, <2>3, <2>4 DEF Elsewhere
  <2>6. SessionControl'
    BY <1>1, <2>1, SessionsStand DEF Elsewhere, sessionVars
  <2> QED
    BY <2>2, <2>5, <2>6
<1>7. CASE Crash
  BY <1>7, CrashHolds
<1>8. CASE UNCHANGED vars
  BY <1>8
     DEF vars, dbVars, exchangeVars, sessionVars, streamVars, IInv, TypeOK,
         StepTypes, SessionTypes, StreamControl, Controlled, SessionControl,
         Ended, Cur
<1> QED
  BY <1>2, <1>4, <1>5, <1>6, <1>7, <1>8 DEF Next

LEMMA NextHolds ==
  IInv /\ [Next]_vars => IInv'
<1> SUFFICES ASSUME IInv, [Next]_vars
             PROVE  IInv'
  OBVIOUS
<1>1. ExchangeStep
  BY ExchangeNext DEF IInv
<1>2. RowStep
  BY RowsNext
<1>3. StreamTells
  BY <1>1, StreamNext DEF IInv, ExchangeStep
<1>4. StepTypes' /\ SessionTypes' /\ StreamControl' /\ SessionControl'
  BY <1>1, <1>2, TasksNext
<1>5. CounterTypes'
  BY Counters DEF IInv
<1>6. TypeOK'
  BY <1>1, <1>2, <1>3, <1>4, <1>5
     DEF TypeOK, ExchangeStep, ExchangeTypes, RowStep, StreamTells, QueuesTell,
         EventsTell, StepTypes, SessionTypes, CounterTypes
<1>7. Amounts'
  BY <1>1, AmountsNext
<1>8. Reported'
  BY <1>3 DEF Reported, StreamTells, QueuesTell, EventsTell
<1>9. Recorded'
  BY <1>1, <1>2 DEF ExchangeStep, Grows, RowStep, Recorded, Holds
<1> QED
  BY <1>4, <1>6, <1>7, <1>8, <1>9 DEF IInv

THEOREM Invariant ==
  Spec => []IInv
<1>1. IInv /\ UNCHANGED vars => IInv'
  BY NextHolds
<1> QED
  BY InitHolds, NextHolds, PTL DEF Spec

-----------------------------------------------------------------------------
(* The theorems.                                                            *)

\* The types of the module hold in every state.
THEOREM LifecycleTypes ==
  Spec => []TypeOK
<1>1. IInv => TypeOK
  BY DEF IInv
<1> QED
  BY <1>1, Invariant, PTL

\* The committed rows of a trade record executions only: no lost or repeated
\* message, rollback, restart or stale read makes them say otherwise.
THEOREM ClosesAreTrue ==
  Spec => []CloseIsTrue
<1>1. IInv => CloseIsTrue
  BY DEF IInv, Recorded, Holds, CloseIsTrue
<1> QED
  BY <1>1, Invariant, PTL

\* No step takes the last stop-loss from a position of a trade with legs that
\* the market has not ended.
THEOREM StopsStay ==
  Spec => StopStays
<1>1. ASSUME IInv, [Next]_vars, NEW t \in Trades,
             LegsOf[t] # {}, ~ Ended(t), HasStop(t), pos'[t] > 0
      PROVE  HasStop(t)' \/ Ended(t)'
  <2>1. StopsLeave
    BY <1>1, ExchangeNext DEF IInv, ExchangeStep
  <2>2. CASE live[t] \cap Stops \subseteq live'[t]
    BY <1>1, <2>2 DEF HasStop
  <2>3. CASE done'[t] \cap (Stops \cup {"void", "liquidation"}) # {}
    BY <2>3 DEF Ended
  <2>4. CASE pc[t] = "cancelStop" /\ pos'[t] = pos[t]
    <3>1. LegsOf[t] \subseteq done[t]
      BY <1>1, <2>4 DEF IInv, StreamControl, Controlled, Recorded, Holds
    <3>2. LegsOf[t] \ done[t] = {}
      BY <3>1
    <3>3. pos[t] + rest[t] <= 0
      BY <1>1, <3>2, FS_EmptySet DEF IInv, Amounts
    <3> QED
      BY <1>1, <2>4, <3>3 DEF IInv, TypeOK
  <2>5. CASE pc[t] = "cancelOld" /\ live[t] \cap {"be"} \subseteq live'[t]
    <3>1. "be" \in live[t]
      BY <1>1, <2>5 DEF IInv, StreamControl, Controlled
    <3> QED
      BY <2>5, <3>1 DEF HasStop, Stops
  <2> QED
    BY <1>1, <2>1, <2>2, <2>3, <2>4, <2>5 DEF StopsLeave
<1>2. IInv /\ [Next]_vars =>
        [\A t \in Trades :
           LegsOf[t] # {} /\ ~ Ended(t) /\ HasStop(t) /\ pos'[t] > 0
             => HasStop(t)' \/ Ended(t)']_vars
  BY <1>1
<1> QED
  BY <1>2, Invariant, PTL DEF Spec, StopStays

=============================================================================
