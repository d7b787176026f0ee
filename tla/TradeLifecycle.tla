--------------------------- MODULE TradeLifecycle ---------------------------
(***************************************************************************)
(* Open trades in one core engine process: the user streams that report    *)
(* fills, the reconciliation with the exchange, and the price monitor of   *)
(* risk model 3.                                                           *)
(*                                                                         *)
(* They are tasks of one event loop.  Each works in a database session of  *)
(* its own, which is open across its awaits: what it read stays as it was  *)
(* read, what it wrote (draft) is its own until it commits, and the rows   *)
(* it wrote are locked (owner).  The database driver is synchronous: a     *)
(* task that has to wait for a row lock stops the loop, and with it the    *)
(* task that holds the lock (blocked).                                     *)
(*                                                                         *)
(* All trades are on one symbol and each is of a user of its own, so the   *)
(* stream of a user is named by the trade.  Quantities are counted in      *)
(* legs; a trade of model 3 has no legs and a quantity of one.             *)
(***************************************************************************)
EXTENDS Naturals, Sequences, FiniteSets

CONSTANTS
  Trades,       \* trade ids
  Targets,      \* purposes of take-profit orders; "tp1" is that of leg 1
  LegsOf,       \* the legs of a trade, {} in risk model 3
  InitialSls,   \* what sl_order_id may be when the opening is committed
  InitialRests, \* how much of an entry may still be unfilled then
  Reconciler, Monitor, NoTask,
  MaxQueue,     \* bound: user-stream messages under way to a task
  MaxFaults,    \* bound: failing calls
  MaxDrops,     \* bound: user streams that disconnect
  MaxCrashes    \* bound: deaths of the process

Tasks == Trades \cup {Reconciler, Monitor}
QtyOf(t) == IF LegsOf[t] = {} THEN 1 ELSE Cardinality(LegsOf[t])

ASSUME LifecycleConstants ==
  /\ Trades \subseteq Nat
  /\ IsFiniteSet(Targets)
  /\ Targets \cap {"sl", "be", "liquidation", "model3_exit", "void"} = {}
  /\ LegsOf \in [Trades -> SUBSET Targets]
  /\ InitialSls \subseteq {"none", "sl"}
  /\ InitialRests \subseteq Nat
  /\ Reconciler \notin Trades /\ Monitor \notin Trades
  /\ Reconciler # Monitor
  /\ NoTask \notin Tasks
  /\ MaxQueue \in Nat /\ MaxFaults \in Nat
  /\ MaxDrops \in Nat /\ MaxCrashes \in Nat

Stops == {"sl", "be"}
Orders(t) == Stops \cup LegsOf[t]
Executions == Stops \cup Targets \cup {"liquidation", "model3_exit", "void"}
Reasons == {"none", "all_tp", "sl", "be", "liquidation", "model3_exit",
            "reconciled_closed_unknown"}

\* The rows of a trade: trades.status ("none" before the opening commits),
\* closed_reason, sl_order_id, and the legs with status filled; the others
\* are open, or canceled once the trade is closed.
Rows == [status : {"none", "open", "closed"}, reason : Reasons,
         sl : Stops \cup {"none"}, filled : SUBSET Targets]

VARIABLES
  db, draft, owner,        \* rows: committed, uncommitted, locked by
  pos, rest, live, done,   \* exchange: position, unfilled entry, live orders,
                           \* what was executed so far ("void": a stop that
                           \* was triggered without a position)
  conn, queue,             \* user streams: connected, messages under way
  pc, event,               \* tasks: step; streams: the message being handled
  todo, seen,              \* reconciler and monitor: trades left, rows read
  rpos, rlive,             \* reconciler: position and orders it was told of
  started, blocked,        \* the loop: past the first reconciliation; the
                           \* task that waits for a row lock
  faults, drops, crashes

dbVars == <<db, draft, owner>>
exchangeVars == <<pos, rest, live, done>>
streamVars == <<conn, queue, event>>
sessionVars == <<todo, seen, rpos, rlive>>
countVars == <<faults, drops, crashes>>
vars == <<dbVars, exchangeVars, streamVars, pc, sessionVars, started, blocked,
          countVars>>

-----------------------------------------------------------------------------
(* The loop, sessions and row locks.                                        *)

\* A step of task k at the given point of its code.
At(k, step) ==
  /\ blocked = NoTask
  /\ pc[k] = step

Goto(k, step) == pc' = [pc EXCEPT ![k] = step]

Fault == faults < MaxFaults /\ faults' = faults + 1 /\ UNCHANGED <<drops, crashes>>
NoFault == UNCHANGED countVars

OwnedBy(k) == {t \in Trades : owner[t] = k}
RowIsFree(k, t) == owner[t] \in {k, NoTask}

\* What task k finds in the rows of t: its own writes, or what is committed.
RowFor(k, t) == IF owner[t] = k THEN draft[t] ELSE db[t]

\* A flush: the UPDATE takes the row lock, or waits for it and stops the loop.
Flush(k, t, row) ==
  /\ RowIsFree(k, t)
  /\ draft' = [draft EXCEPT ![t] = row]
  /\ owner' = [owner EXCEPT ![t] = k]
  /\ UNCHANGED <<db, blocked>>

WaitForRow(k, t) ==
  /\ ~ RowIsFree(k, t)
  /\ blocked' = k
  /\ UNCHANGED dbVars

Release(k) == owner' = [t \in Trades |-> IF owner[t] = k THEN NoTask ELSE owner[t]]

CommitRows(k) ==
  /\ db' = [t \in Trades |-> RowFor(k, t)]
  /\ Release(k)
  /\ UNCHANGED <<draft, blocked>>

RollbackRows(k) ==
  /\ draft' = [t \in Trades |-> IF owner[t] = k THEN db[t] ELSE draft[t]]
  /\ Release(k)
  /\ UNCHANGED <<db, blocked>>

\* close_trade: legs that are open among those the session has read become
\* canceled, whatever their rows hold by now.
Closed(row, reason, read) ==
  [row EXCEPT !.status = "closed", !.reason = reason,
              !.filled = @ \cap read.filled]

First(S) == CHOOSE t \in S : \A u \in S : t <= u
OpenTrades == {t \in Trades : db[t].status = "open"}

-----------------------------------------------------------------------------
(* The exchange and what it reports.                                        *)

\* A fill is reported in one or two messages (of the order, of the algo
\* order), and to nobody while the stream is down.
Report(t, x) ==
  /\ \/ ~ conn[t] /\ UNCHANGED queue
     \/ conn[t] /\ \E messages \in {<<x>>, <<x, x>>} :
          /\ Len(queue[t] \o messages) <= MaxQueue
          /\ queue' = [queue EXCEPT ![t] = @ \o messages]
  /\ UNCHANGED <<conn, event>>

onlyExchange == <<dbVars, pc, sessionVars, started, blocked, countVars>>

Execute(t, x, left) ==
  /\ pos' = [pos EXCEPT ![t] = left]
  /\ done' = [done EXCEPT ![t] = @ \cup {x}]
  /\ Report(t, x)
  /\ UNCHANGED onlyExchange

\* More of an entry order that was filled in part.
EntryFills(t) ==
  /\ rest[t] > 0
  /\ rest' = [rest EXCEPT ![t] = @ - 1]
  /\ pos' = [pos EXCEPT ![t] = @ + 1]
  /\ UNCHANGED <<live, done, streamVars, onlyExchange>>

TargetFills(t, i) ==
  /\ i \in live[t] \cap LegsOf[t]
  /\ pos[t] > 0
  /\ live' = [live EXCEPT ![t] = @ \ {i}]
  /\ Execute(t, i, pos[t] - 1)
  /\ UNCHANGED rest

\* The quantity of a stop is that of the legs not recorded as filled, so it
\* is never less than the position.
StopFires(t, s) ==
  /\ s \in live[t] \cap Stops
  /\ pos[t] > 0
  /\ live' = [live EXCEPT ![t] = @ \ {s}]
  /\ Execute(t, s, 0)
  /\ UNCHANGED rest

Liquidated(t) ==
  /\ pos[t] > 0
  /\ live' \in {live, [live EXCEPT ![t] = {}]}
  /\ Execute(t, "liquidation", 0)
  /\ UNCHANGED rest

\* An order that triggers without a position is rejected by the exchange.
OrderExpires(t, x) ==
  /\ x \in live[t]
  /\ pos[t] = 0
  /\ live' = [live EXCEPT ![t] = @ \ {x}]
  /\ done' = [done EXCEPT ![t] = IF x \in Stops THEN @ \cup {"void"} ELSE @]
  /\ UNCHANGED <<pos, rest, streamVars, onlyExchange>>

\* Calls of the engine: an order is placed or cancelled, or the call raises,
\* in which case it may have worked.
Place(t, S) == live' = [live EXCEPT ![t] = @ \cup S]
Cancel(t, S) == live' = [live EXCEPT ![t] = @ \ S]

onlyLive == <<pos, rest, done>>

-----------------------------------------------------------------------------
(* A user stream: handle_user_stream_event in one session per message.      *)

notStream == <<exchangeVars, conn, sessionVars, started>>

TakeMessage(t) == queue' = [queue EXCEPT ![t] = Tail(@)]

\* A message that changes nothing: unknown to the database, of a closed trade,
\* a leg filled before, or a stop that is not the one of sl_order_id.
IsIgnored(t, x) ==
  \/ db[t].status # "open"
  \/ x \in LegsOf[t] /\ x \in db[t].filled
  \/ x \in Stops /\ x # db[t].sl

Ignore(t) ==
  /\ At(t, "idle") /\ queue[t] # <<>>
  /\ LET x == Head(queue[t]) IN
       IF x = "liquidation" THEN OpenTrades = {} ELSE IsIgnored(t, x)
  /\ TakeMessage(t)
  /\ NoFault
  /\ UNCHANGED <<notStream, dbVars, pc, event, blocked>>

\* mark_leg_filled, whose flush takes the row locks of the trade.
AnyFilled(t, filled) == filled # {}
AllFilled(t, filled) == filled = LegsOf[t]

TakeLegFill(t) ==
  /\ At(t, "idle") /\ queue[t] # <<>>
  /\ Head(queue[t]) \in LegsOf[t]
  /\ ~ IsIgnored(t, Head(queue[t]))
  /\ TakeMessage(t)
  /\ LET i == Head(queue[t])
         filled == db[t].filled \cup {i}
     IN \/ /\ Flush(t, t, [db[t] EXCEPT !.filled = filled])
           /\ Goto(t, CASE AllFilled(t, filled) -> "cancelStop"
                        [] i = "tp1" /\ ~ AllFilled(t, filled) -> "placeBe"
                        [] OTHER -> "publish")
        \/ WaitForRow(t, t) /\ UNCHANGED pc
  /\ NoFault
  /\ UNCHANGED <<notStream, event>>

\* All legs are filled: the stop is cancelled, as far as that works.
CancelStop(t) ==
  /\ At(t, "cancelStop")
  /\ \/ Cancel(t, {draft[t].sl}) /\ NoFault
     \/ UNCHANGED live /\ Fault
  /\ Flush(t, t, Closed(draft[t], "all_tp", draft[t]))
  /\ Goto(t, "publish")
  /\ UNCHANGED <<onlyLive, streamVars, sessionVars, started>>

\* move_sl_to_be_after_tp1: _place_break_even_stop.  When the calls raise the
\* old stop is kept; the new one may be live all the same, and need not be
\* live when the call is answered.
PlaceBe(t) ==
  /\ At(t, "placeBe")
  /\ \/ Place(t, {"be"}) /\ NoFault /\ Goto(t, "confirmBe")
     \/ /\ Place(t, {"be"}) \/ UNCHANGED live
        /\ Goto(t, "confirmBe") \/ Goto(t, "publish")
        /\ Fault
  /\ UNCHANGED <<onlyLive, dbVars, blocked, streamVars, sessionVars, started>>

\* _confirm_open_order: unless the new stop is seen, the old one is kept.
BeAssumed(t) == TRUE
BeConfirmed(t) == "be" \in live[t]

ConfirmBe(t) ==
  /\ At(t, "confirmBe")
  /\ \/ NoFault /\ Goto(t, IF BeConfirmed(t) THEN "cancelOld" ELSE "publish")
     \/ Fault /\ Goto(t, "publish")
  /\ UNCHANGED <<dbVars, blocked, exchangeVars, streamVars, sessionVars, started>>

CancelOld(t) ==
  /\ At(t, "cancelOld")
  /\ \/ Cancel(t, {draft[t].sl} \ {"be"}) /\ NoFault
     \/ UNCHANGED live /\ Fault
  /\ Flush(t, t, [draft[t] EXCEPT !.sl = "be"])
  /\ Goto(t, "publish")
  /\ UNCHANGED <<onlyLive, streamVars, sessionVars, started>>

\* The stop of sl_order_id was executed.
TakeStopFill(t) ==
  /\ At(t, "idle") /\ queue[t] # <<>>
  /\ Head(queue[t]) \in Stops
  /\ ~ IsIgnored(t, Head(queue[t]))
  /\ TakeMessage(t)
  /\ event' = [event EXCEPT ![t] = Head(queue[t])]
  /\ Goto(t, "cancelTargets")
  /\ NoFault
  /\ UNCHANGED <<notStream, dbVars, blocked>>

\* _cancel_open_tps; the entry order is not cancelled.
CancelTargets(t) ==
  /\ At(t, "cancelTargets")
  /\ \/ Cancel(t, LegsOf[t] \ db[t].filled) /\ NoFault
     \/ \E i \in LegsOf[t] : Cancel(t, (LegsOf[t] \ db[t].filled) \ {i}) /\ Fault
  /\ Goto(t, "close")
  /\ UNCHANGED <<onlyLive, dbVars, blocked, streamVars, sessionVars, started>>

PurposeAsReason(t) == IF event[t] = "be" THEN "be_sl" ELSE "sl"
CloseReason(t) == event[t]

CloseStopped(t) ==
  /\ At(t, "close")
  /\ \/ /\ Flush(t, t, Closed(db[t], CloseReason(t), db[t]))
        /\ event' = [event EXCEPT ![t] = "none"]
        /\ Goto(t, "publish")
     \/ WaitForRow(t, t) /\ UNCHANGED <<event, pc>>
  /\ NoFault
  /\ UNCHANGED <<notStream, queue>>

\* handle_liquidation_update for the trade _find_open_trade_by_symbol returns:
\* the first open one on the symbol, of any user.
TakeLiquidation(t) ==
  /\ At(t, "idle") /\ queue[t] # <<>>
  /\ Head(queue[t]) = "liquidation"
  /\ OpenTrades # {}
  /\ TakeMessage(t)
  /\ LET u == First(OpenTrades)
     IN \/ /\ Flush(t, u, Closed(db[u], "liquidation", db[u]))
           /\ Goto(t, "publish")
        \/ WaitForRow(t, u) /\ UNCHANGED pc
  /\ NoFault
  /\ UNCHANGED <<notStream, event>>

\* _publish_lifecycle_result, then the commit; an exception ends the session
\* with a rollback and the stream with it.
Publish(t) ==
  /\ At(t, "publish")
  /\ \/ /\ CommitRows(t)
        /\ NoFault
        /\ UNCHANGED <<conn, queue>>
     \/ /\ RollbackRows(t)
        /\ Fault
        /\ conn' = [conn EXCEPT ![t] = FALSE]
        /\ queue' = [queue EXCEPT ![t] = <<>>]
  /\ Goto(t, "idle")
  /\ UNCHANGED <<exchangeVars, event, sessionVars, started>>

Disconnect(t) ==
  /\ At(t, "idle") /\ conn[t]
  /\ drops < MaxDrops
  /\ drops' = drops + 1
  /\ conn' = [conn EXCEPT ![t] = FALSE]
  /\ queue' = [queue EXCEPT ![t] = <<>>]
  /\ UNCHANGED <<dbVars, exchangeVars, event, pc, sessionVars, started, blocked,
                 faults, crashes>>

\* _supervise_user_streams starts the task of a user again.
Connect(t) ==
  /\ At(t, "idle") /\ ~ conn[t] /\ started
  /\ conn' = [conn EXCEPT ![t] = TRUE]
  /\ UNCHANGED <<dbVars, exchangeVars, queue, event, pc, sessionVars, started,
                 blocked, countVars>>

StreamStep(t) ==
  \/ Ignore(t) \/ TakeLegFill(t) \/ CancelStop(t)
  \/ PlaceBe(t) \/ ConfirmBe(t) \/ CancelOld(t)
  \/ TakeStopFill(t) \/ CancelTargets(t) \/ CloseStopped(t)
  \/ TakeLiquidation(t) \/ Publish(t) \/ Connect(t)

-----------------------------------------------------------------------------
(* reconcile_open_trades: one session for all open trades.                  *)

R == Reconciler
Unread == [t \in Trades |-> [status |-> "none", reason |-> "none",
                             sl |-> "none", filled |-> {}]]
Cur(k) == First(todo[k])
SlOf(row) == IF row.sl = "none" THEN "sl" ELSE row.sl

notReconciler == <<streamVars, countVars>>

\* At the start of the process, then every minute.
StartReconcile ==
  /\ At(R, "idle")
  /\ OpenTrades # {} \/ ~ started
  /\ seen' = [seen EXCEPT ![R] = IF OpenTrades = {} THEN Unread ELSE db]
  /\ todo' = [todo EXCEPT ![R] = OpenTrades]
  /\ IF OpenTrades = {}
     THEN started' = TRUE /\ UNCHANGED pc
     ELSE Goto(R, "position") /\ UNCHANGED started
  /\ UNCHANGED <<dbVars, blocked, exchangeVars, rpos, rlive, notReconciler>>

\* The next trade, or the commit: no await lies between the last trade and it.
EndOfTrade(r) ==
  /\ todo' = [todo EXCEPT ![R] = @ \ {r}]
  /\ IF todo[R] = {r}
     THEN /\ Goto(R, "idle")
          /\ started' = TRUE
          /\ seen' = [seen EXCEPT ![R] = Unread]
     ELSE Goto(R, "position") /\ UNCHANGED <<started, seen>>
  /\ rpos' = FALSE /\ rlive' = {}

CommitAtEnd(r) ==
  IF todo[R] = {r} THEN CommitRows(R) ELSE UNCHANGED <<dbVars, blocked>>

OnlyFlush(r, row) == Flush(R, r, row)
WriteAndEnd(r, row) ==
  IF todo[R] = {r}
  THEN /\ RowIsFree(R, r)
       /\ db' = [t \in Trades |-> IF t = r THEN row ELSE RowFor(R, t)]
       /\ draft' = [draft EXCEPT ![r] = row]
       /\ Release(R)
       /\ UNCHANGED blocked
  ELSE Flush(R, r, row)

\* A failing call ends the trade's turn.
ReadPosition ==
  /\ At(R, "position")
  /\ \/ /\ rpos' = (pos[Cur(R)] > 0)
        /\ Goto(R, "orders")
        /\ NoFault
        /\ UNCHANGED <<dbVars, blocked, todo, seen, rlive, started>>
     \/ /\ Fault
        /\ EndOfTrade(Cur(R))
        /\ CommitAtEnd(Cur(R))
  /\ UNCHANGED <<exchangeVars, streamVars>>

ReadOrders ==
  /\ At(R, "orders")
  /\ \/ /\ rlive' = live[Cur(R)]
        /\ Goto(R, "decide")
        /\ NoFault
        /\ UNCHANGED <<dbVars, blocked, todo, seen, rpos, started>>
     \/ /\ Fault
        /\ EndOfTrade(Cur(R))
        /\ CommitAtEnd(Cur(R))
  /\ UNCHANGED <<exchangeVars, streamVars>>

\* Neither a position nor an order: the trade is closed with no result.
CloseMissing ==
  LET r == Cur(R)
  IN /\ At(R, "decide")
     /\ ~ rpos /\ rlive = {}
     /\ \/ /\ WriteAndEnd(r, Closed(RowFor(R, r), "reconciled_closed_unknown",
                                    seen[R][r]))
           /\ EndOfTrade(r)
        \/ WaitForRow(R, r) /\ UNCHANGED <<pc, sessionVars, started>>
     /\ UNCHANGED <<exchangeVars, notReconciler>>

\* Orders without a position are left alone.
PassOver ==
  /\ At(R, "decide")
  /\ ~ rpos /\ rlive # {}
  /\ EndOfTrade(Cur(R))
  /\ CommitAtEnd(Cur(R))
  /\ UNCHANGED <<exchangeVars, notReconciler>>

\* A stop-loss that was not among the orders is placed again under its id,
\* for the legs that were not filled when the rows were read.
KnownStopIsMissing(r) == seen[R][r].sl \in Stops \ rlive
StopIsMissing(r) ==
  SlOf(seen[R][r]) \notin rlive /\ Cardinality(seen[R][r].filled) < QtyOf(r)

RepairStop ==
  LET r == Cur(R)
      id == SlOf(seen[R][r])
  IN /\ At(R, "decide")
     /\ rpos
     /\ \/ /\ ~ StopIsMissing(r)
           /\ Goto(R, "targets")
           /\ NoFault
           /\ UNCHANGED <<live, dbVars, blocked, sessionVars, started>>
        \/ /\ StopIsMissing(r)
           /\ \/ Place(r, {id}) /\ NoFault
              \/ UNCHANGED live /\ Fault
           /\ IF seen[R][r].sl = id
              THEN UNCHANGED <<dbVars, blocked>> /\ Goto(R, "targets")
              ELSE \/ /\ Flush(R, r, [RowFor(R, r) EXCEPT !.sl = id])
                      /\ Goto(R, "targets")
                   \/ WaitForRow(R, r) /\ UNCHANGED pc
           /\ UNCHANGED <<sessionVars, started>>
        \/ /\ StopIsMissing(r)
           /\ Place(r, {id}) \/ UNCHANGED live
           /\ Fault
           /\ EndOfTrade(r)
           /\ CommitAtEnd(r)
     /\ UNCHANGED <<onlyLive, streamVars>>

\* So are the take-profits of the legs that were open then, one by one.
RepairTargets ==
  LET r == Cur(R)
      missing == (LegsOf[r] \ seen[R][r].filled) \ rlive
  IN /\ At(R, "targets")
     /\ \/ Place(r, missing) /\ NoFault
        \/ \E S \in SUBSET missing : Place(r, S) /\ missing # {} /\ Fault
     /\ EndOfTrade(r)
     /\ CommitAtEnd(r)
     /\ UNCHANGED <<onlyLive, streamVars>>

ReconcileStep ==
  \/ StartReconcile \/ ReadPosition \/ ReadOrders
  \/ CloseMissing \/ PassOver \/ RepairStop \/ RepairTargets

-----------------------------------------------------------------------------
(* _monitor_model3_prices: one session for all trades of a price message.   *)

M == Monitor

notMonitor == <<streamVars, rpos, rlive, started>>

Model3Trades == {t \in OpenTrades : LegsOf[t] = {}}

\* A price at which some of the trades reach their exit.
PriceCrosses ==
  /\ At(M, "idle") /\ started
  /\ \E S \in (SUBSET Model3Trades) \ {{}} : todo' = [todo EXCEPT ![M] = S]
  /\ seen' = [seen EXCEPT ![M] = db]
  /\ Goto(M, "sell")
  /\ NoFault
  /\ UNCHANGED <<notMonitor, dbVars, blocked, exchangeVars>>

\* An exception undoes what the session wrote for the earlier trades too.
Swallow == Goto(M, "unstop") /\ UNCHANGED <<todo, seen, dbVars, blocked>>
Abandon ==
  /\ RollbackRows(M)
  /\ todo' = [todo EXCEPT ![M] = {}]
  /\ seen' = [seen EXCEPT ![M] = Unread]
  /\ Goto(M, "idle")

\* close_position_market raises when there is no position.
Sell ==
  LET t == Cur(M)
  IN /\ At(M, "sell")
     /\ \/ /\ pos[t] > 0
           /\ pos' = [pos EXCEPT ![t] = 0]
           /\ done' = [done EXCEPT ![t] = @ \cup {"model3_exit"}]
           /\ \/ Goto(M, "unstop") /\ NoFault /\ UNCHANGED <<todo, seen, dbVars, blocked>>
              \/ Abandon /\ Fault
        \/ /\ \/ pos[t] = 0 /\ NoFault
              \/ Fault
           /\ Abandon
           /\ UNCHANGED <<pos, done>>
     /\ UNCHANGED <<notMonitor, rest, live>>

Unstop ==
  LET t == Cur(M)
  IN /\ At(M, "unstop")
     /\ \/ Cancel(t, {seen[M][t].sl}) /\ NoFault
        \/ UNCHANGED live /\ Fault
     /\ Goto(M, "exit")
     /\ UNCHANGED <<notMonitor, onlyLive, todo, seen, dbVars, blocked>>

CloseModel3 ==
  LET t == Cur(M)
  IN /\ At(M, "exit")
     /\ \/ /\ Flush(M, t, Closed(RowFor(M, t), "model3_exit", seen[M][t]))
           /\ Goto(M, "tell")
        \/ WaitForRow(M, t) /\ UNCHANGED pc
     /\ NoFault
     /\ UNCHANGED <<notMonitor, exchangeVars, todo, seen>>

PublishModel3 ==
  /\ At(M, "tell")
  /\ \/ /\ todo' = [todo EXCEPT ![M] = @ \ {Cur(M)}]
        /\ IF todo[M] = {Cur(M)}
           THEN /\ CommitRows(M)
                /\ Goto(M, "idle")
                /\ seen' = [seen EXCEPT ![M] = Unread]
           ELSE Goto(M, "sell") /\ UNCHANGED <<seen, dbVars, blocked>>
        /\ NoFault
     \/ Abandon /\ Fault
  /\ UNCHANGED <<notMonitor, exchangeVars>>

MonitorStep == PriceCrosses \/ Sell \/ Unstop \/ CloseModel3 \/ PublishModel3

-----------------------------------------------------------------------------
(* The process.                                                             *)

\* The consumer of signals commits the transaction that opened the trade.
OpeningCommits(t) ==
  /\ blocked = NoTask
  /\ db[t].status = "none"
  /\ db' = [db EXCEPT ![t].status = "open"]
  /\ draft' = [draft EXCEPT ![t].status = "open"]
  /\ UNCHANGED <<owner, blocked, exchangeVars, streamVars, pc, sessionVars,
                 started, countVars>>

\* The process dies, or is killed, and starts again: sessions are rolled back,
\* what the streams had to say is lost.
Crash ==
  /\ crashes < MaxCrashes
  /\ crashes' = crashes + 1
  /\ draft' = db
  /\ owner' = [t \in Trades |-> NoTask]
  /\ conn' = [t \in Trades |-> FALSE]
  /\ queue' = [t \in Trades |-> <<>>]
  /\ pc' = [k \in Tasks |-> "idle"]
  /\ todo' = [k \in {R, M} |-> {}]
  /\ seen' = [k \in {R, M} |-> Unread]
  /\ event' = [t \in Trades |-> "none"]
  /\ rpos' = FALSE /\ rlive' = {}
  /\ started' = FALSE
  /\ blocked' = NoTask
  /\ UNCHANGED <<db, exchangeVars, faults, drops>>

Init ==
  /\ \E sl \in InitialSls :
       /\ db = [t \in Trades |-> [status |-> "none", reason |-> "none",
                                  sl |-> sl, filled |-> {}]]
       /\ live = [t \in Trades |->
                    IF sl = "none" THEN {} ELSE LegsOf[t] \cup {sl}]
  /\ draft = db
  /\ owner = [t \in Trades |-> NoTask]
  /\ \E n \in InitialRests :
       /\ rest = [t \in Trades |-> IF n < QtyOf(t) THEN n ELSE 0]
       /\ pos = [t \in Trades |-> QtyOf(t) - rest[t]]
  /\ done = [t \in Trades |-> {}]
  /\ conn = [t \in Trades |-> TRUE]
  /\ queue = [t \in Trades |-> <<>>]
  /\ event = [t \in Trades |-> "none"]
  /\ pc = [k \in Tasks |-> "idle"]
  /\ todo = [k \in {R, M} |-> {}]
  /\ seen = [k \in {R, M} |-> Unread]
  /\ rpos = FALSE /\ rlive = {}
  /\ started = TRUE
  /\ blocked = NoTask
  /\ faults = 0 /\ drops = 0 /\ crashes = 0

Market(t) ==
  \/ EntryFills(t) \/ Liquidated(t)
  \/ \E i \in LegsOf[t] : TargetFills(t, i)
  \/ \E s \in Stops : StopFires(t, s)
  \/ \E x \in Orders(t) : OrderExpires(t, x)

Next ==
  \/ \E t \in Trades : StreamStep(t) \/ Disconnect(t)
  \/ \E t \in Trades : OpeningCommits(t) \/ Market(t)
  \/ ReconcileStep \/ MonitorStep
  \/ Crash

Spec == Init /\ [][Next]_vars

\* The loop runs what is ready: every task goes on, the reconciliation is
\* scheduled again and again, streams are connected again.  The market owes
\* nothing.
Fairness ==
  /\ \A t \in Trades : WF_vars(StreamStep(t)) /\ WF_vars(OpeningCommits(t))
  /\ WF_vars(ReconcileStep)
  /\ WF_vars(MonitorStep)

FairSpec == Spec /\ Fairness

-----------------------------------------------------------------------------
(* Properties.                                                              *)

Steps == {"idle", "cancelStop", "placeBe", "confirmBe", "cancelOld", "publish",
          "cancelTargets", "close", "position", "orders", "decide", "targets",
          "sell", "unstop", "exit", "tell"}

\* Types; the reasons and steps are those of the code, counters are bounded.
TypeOK ==
  /\ db \in [Trades -> Rows] /\ draft \in [Trades -> Rows]
  /\ pos \in [Trades -> Nat] /\ rest \in [Trades -> Nat]
  /\ live \in [Trades -> SUBSET (Stops \cup Targets)]
  /\ done \in [Trades -> SUBSET Executions]
  /\ queue \in [Trades -> Seq(Executions)]
  /\ event \in [Trades -> Executions \cup {"none"}]
  /\ seen \in [{R, M} -> [Trades -> Rows]]
  /\ owner \in [Trades -> Tasks \cup {NoTask}]
  /\ conn \in [Trades -> BOOLEAN]
  /\ pc \in [Tasks -> Steps]
  /\ todo \in [{R, M} -> SUBSET Trades]
  /\ rpos \in BOOLEAN /\ rlive \subseteq Stops \cup Targets
  /\ started \in BOOLEAN
  /\ blocked \in Tasks \cup {NoTask}
  /\ faults \in 0 .. MaxFaults /\ drops \in 0 .. MaxDrops
  /\ crashes \in 0 .. MaxCrashes

HasStop(t) == live[t] \cap Stops # {}

\* The market has triggered a stop of the trade, or liquidated it.
Ended(t) == done[t] \cap (Stops \cup {"void", "liquidation"}) # {}

\* Until the market ends a trade with legs, no step takes the last stop-loss
\* from its position: not the move to break-even with its failing calls, not
\* the end of the trade when all legs are filled, not a reconciliation at the
\* same time, not a rollback or a restart after any of them.
StopStays ==
  [][\A t \in Trades :
       LegsOf[t] # {} /\ ~ Ended(t) /\ HasStop(t) /\ pos'[t] > 0
         => HasStop(t)' \/ Ended(t)']_vars

\* What the rows say of a trade happened at the exchange: legs recorded as
\* filled were executed, and so was what closed it; through messages lost or
\* delivered twice, rollbacks, restarts and rows rewritten from stale reads.
CloseIsTrue ==
  \A t \in Trades :
    /\ db[t].filled \subseteq done[t]
    /\ db[t].reason = "all_tp" => LegsOf[t] \subseteq done[t]
    /\ db[t].reason \in Stops \cup {"model3_exit"} => db[t].reason \in done[t]

\* An open position without a stop-loss (the opening ended without one, or
\* the rest of the entry came in after the stop) gets one again.
StopIsRepaired ==
  \A t \in Trades :
    db[t].status = "open" /\ pos[t] > 0 /\ ~ HasStop(t)
      ~> \/ HasStop(t) \/ pos[t] = 0
         \/ db[t].status = "closed" \/ blocked # NoTask

\* What the streams or the monitor missed or failed to record is recorded by a
\* reconciliation: an open trade of which nothing is left at the exchange is
\* closed, unless a stale repair puts new orders there.
MissingTradeCloses ==
  \A t \in Trades :
    db[t].status = "open" /\ pos[t] = 0 /\ rest[t] = 0 /\ live[t] = {}
      ~> db[t].status = "closed" \/ live[t] # {} \/ blocked # NoTask

\* "if exchange liquidates, mark liquidation": a trade is marked so when it
\* was liquidated.
LiquidationIsOwn ==
  \A t \in Trades :
    db[t].reason = "liquidation" => "liquidation" \in done[t]
=============================================================================
