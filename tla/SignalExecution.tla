--------------------------- MODULE SignalExecution ---------------------------
(***************************************************************************)
(* The core engine's consumer of the "signals" stream: one or more workers *)
(* take signal.created records from a consumer group and, inside one       *)
(* database transaction per record, open a trade for every eligible user   *)
(* on that user's exchange account.                                        *)
(*                                                                         *)
(* Three stores that fail separately meet here:                            *)
(*   - the stream (rec): new, pending or acknowledged records;             *)
(*   - the database: rows written by a worker stay invisible (txRows,      *)
(*     marks) until the transaction commits, and a rollback drops them;    *)
(*   - the exchange (resting, lots, stops, targets): what a call did there *)
(*     stays done whatever becomes of the transaction.                     *)
(*                                                                         *)
(* A step ends at an await of the handler after which something another    *)
(* actor did in the meantime can matter.  Writes to rows nobody else can   *)
(* see yet are merged into the step of the await before them.              *)
(***************************************************************************)
EXTENDS Naturals, FiniteSets

CONSTANTS
  Workers,        \* engine processes reading the consumer group
  Users,          \* user ids; the engine visits them in increasing order
  Records,        \* entries of the stream
  Events,         \* event ids
  Signals,        \* signal ids
  Symbols,        \* traded symbols; one side per symbol
  EventOf,        \* event id of a record, NoEvent for a malformed one
  SignalOf,       \* signal named by the payload of an event
  SymbolOf,       \* symbol of a signal
  InitialRows,    \* what the signals table may hold for them at first
  MaxConcurrent,  \* user_settings.max_concurrent
  MaxTrades,      \* bound: values the trade id sequence may take
  MaxFaults,      \* bound: failing calls to the exchange, Redis or Postgres
  MaxCrashes,     \* bound: worker crashes
  MaxChanges,     \* bound: administrative changes of a user's standing
  MaxFired,       \* bound: trades whose stop-loss is executed
  NoWorker, NoRecord, NoEvent, NoKey

ASSUME ConstantsAssumption ==
  /\ Users \subseteq Nat
  /\ EventOf \in [Records -> Events \cup {NoEvent}]
  /\ SignalOf \in [Events -> Signals]
  /\ SymbolOf \in [Signals -> Symbols]
  /\ InitialRows \subseteq {"missing", "accepted", "rejected"}
  /\ MaxConcurrent \in Nat \ {0}
  /\ MaxTrades \in Nat
  /\ MaxFaults \in Nat /\ MaxCrashes \in Nat /\ MaxChanges \in Nat
  /\ MaxFired \in Nat
  /\ NoWorker \notin Workers
  /\ NoRecord \notin Records
  /\ NoEvent \notin Events

TradeIds == 1 .. MaxTrades
NoTrade == 0
Keys == [user : Users, signal : Signals, event : Events]

Standings == {"active", "blocked", "unsubscribed", "paused"}
Active == {"pending_entry", "open"}
Statuses == Active \cup {"none", "lost", "skipped", "error", "closed"}
Steps == {"idle", "lookup", "insert", "users", "verify", "refuse", "entry",
          "wait", "cancel", "stop", "confirm", "emergency", "cleanup",
          "targets", "abort", "sweep", "report", "ack"}

VARIABLES
  rec,        \* stream: state of each record in the consumer group
  row,        \* signals table: what get_signal finds
  standing,   \* users, subscriptions and kill switches, as one mark per user
  processed,  \* committed processed_events
  committed,  \* ids of the committed trades
  status,     \* trades.status; "lost" for a row that was rolled back
  key,        \* user, signal and event a trade was created for
  slId,       \* trades whose sl_order_id is set
  nextId,     \* trade id sequence; a rollback does not give an id back
  txRows,     \* trades written by each worker's open transaction
  marks,      \* processed_events rows inserted by each open transaction
  lock,       \* pg_advisory_xact_lock holder per user
  pc, cur, todo, tid,   \* worker: step, record, users left, current trade
  resting,    \* exchange: entry orders that may still fill
  lots,       \* exchange: trades whose entry has put on a position
  stops,      \* exchange: trades with a live stop-loss order
  targets,    \* exchange: trades with live take-profit orders
  fired,      \* exchange: trades whose stop-loss order was executed
  cleaned,    \* exchange: trades whose clean-up cancelled their symbol's stops
  faults, crashes, changes

streamVars == <<rec, row, standing>>
dbVars == <<processed, committed, status, key, slId, nextId>>
txVars == <<txRows, marks, lock>>
workerVars == <<pc, cur, todo, tid>>
exchangeVars == <<resting, lots, stops, targets, fired>>
countVars == <<faults, crashes, changes>>
vars == <<streamVars, dbVars, txVars, workerVars, exchangeVars, cleaned,
          countVars>>

-----------------------------------------------------------------------------
(* Reading the state as one worker sees it.                                 *)

EventAt(w) == EventOf[cur[w]]
SignalAt(w) == SignalOf[EventAt(w)]

\* order_by(User.id): the users of one event are visited in increasing order.
UnorderedUser(w) ==
  IF EventAt(w) = CHOOSE e \in Events : TRUE
  THEN CHOOSE u \in todo[w] : \A v \in todo[w] : v <= u
  ELSE CHOOSE u \in todo[w] : \A v \in todo[w] : u <= v
NextUser(w) == CHOOSE u \in todo[w] : \A v \in todo[w] : u <= v

\* Rows a worker's queries return: committed ones and its own.
VisibleTo(w) == committed \cup txRows[w]

ActiveOf(u, S) == {t \in S : status[t] \in Active /\ key[t].user = u}

HasOpenTradeForEvent(w, u) ==
  \E t \in ActiveOf(u, VisibleTo(w)) : key[t].event = EventAt(w)
HasOpenTradeForSignal(w, u) ==
  \E t \in ActiveOf(u, VisibleTo(w)) : key[t].signal = SignalAt(w)

HasRoomOrIsFull(w, u) == Cardinality(ActiveOf(u, VisibleTo(w))) <= MaxConcurrent
HasRoom(w, u) == Cardinality(ActiveOf(u, VisibleTo(w))) < MaxConcurrent

\* is_blocked was read with the list of users and is not read again; the
\* kill switches and the subscription are.
PrecheckPasses(w, u) ==
  /\ standing[u] \notin {"paused", "unsubscribed"}
  /\ ~ HasOpenTradeForSignal(w, u)
  /\ HasRoom(w, u)

\* Trades whose orders share a position and an order book with trade t.
Peers(t) ==
  {p \in TradeIds :
     /\ status[p] # "none"
     /\ key[p].user = key[t].user
     /\ SymbolOf[key[p].signal] = SymbolOf[key[t].signal]}

-----------------------------------------------------------------------------
(* Writing the state: worker control, transactions, faults.                 *)

Goto(w, step) == pc' = [pc EXCEPT ![w] = step]

At(w, step) ==
  /\ pc[w] = step
  /\ UNCHANGED <<cur, todo, tid>>

\* An external call fails: it raises or its answer is lost.
Fault ==
  /\ faults < MaxFaults
  /\ faults' = faults + 1
  /\ UNCHANGED <<crashes, changes>>

NoFault == UNCHANGED countVars

\* `continue` at the end of a user's turn.
EndTurn(w) ==
  /\ todo' = [todo EXCEPT ![w] = @ \ {NextUser(w)}]
  /\ tid' = [tid EXCEPT ![w] = NoTrade]
  /\ Goto(w, "users")
  /\ UNCHANGED cur

\* The advisory locks of a transaction go with it.
KeepLocks(w) == lock
FreeLocks(w) == [u \in Users |-> IF lock[u] = w THEN NoWorker ELSE lock[u]]

EndTransaction(w) ==
  /\ txRows' = [txRows EXCEPT ![w] = {}]
  /\ marks' = [marks EXCEPT ![w] = {}]
  /\ lock' = FreeLocks(w)
  /\ todo' = [todo EXCEPT ![w] = {}]
  /\ tid' = [tid EXCEPT ![w] = NoTrade]

LeaveRecord(w) == Goto(w, "idle") /\ cur' = [cur EXCEPT ![w] = NoRecord]

\* An exception leaves session_scope: nothing is committed and the record
\* is not acknowledged.
AckAfterFailure(w) == Goto(w, "ack") /\ UNCHANGED cur
PendAfterFailure(w) == LeaveRecord(w)

Rollback(w) ==
  /\ status' = [t \in TradeIds |-> IF t \in txRows[w] THEN "lost" ELSE status[t]]
  /\ slId' = slId \ txRows[w]
  /\ EndTransaction(w)
  /\ PendAfterFailure(w)
  /\ UNCHANGED <<streamVars, processed, committed, key, nextId, exchangeVars,
                 cleaned>>

SetStatus(t, s) == status' = [status EXCEPT ![t] = s]

-----------------------------------------------------------------------------
(* The stream: reading, looking the signal up, marking the event.           *)

\* A worker takes a new record, or one the group's consumer has not
\* acknowledged; a record that is not a signal.created event is dropped.
ReadRecord(w, r) ==
  /\ pc[w] = "idle"
  /\ rec[r] \in {"new", "pending"}
  /\ IF EventOf[r] = NoEvent
     THEN /\ rec' = [rec EXCEPT ![r] = "acked"]
          /\ UNCHANGED workerVars
     ELSE /\ rec' = [rec EXCEPT ![r] = "pending"]
          /\ cur' = [cur EXCEPT ![w] = r]
          /\ Goto(w, "lookup")
          /\ UNCHANGED <<todo, tid>>
  /\ UNCHANGED <<row, standing, dbVars, txVars, exchangeVars, cleaned,
                 countVars>>

\* get_signal with its retries, then session.get(ProcessedEvent).  "retry"
\* is the result for a row that does not show up: the record stays pending.
Lookup(w) ==
  /\ pc[w] = "lookup"
  /\ \/ /\ row[SignalAt(w)] = "missing"
        /\ LeaveRecord(w)
     \/ /\ row[SignalAt(w)] # "missing"
        /\ Goto(w, IF EventAt(w) \in processed THEN "ack" ELSE "insert")
        /\ UNCHANGED cur
  /\ UNCHANGED <<streamVars, dbVars, txVars, todo, tid, exchangeVars, cleaned,
                 countVars>>

\* list_eligible_users_for_signal: not blocked, with an active subscription.
EligibleUsers == {u \in Users : standing[u] \notin {"blocked", "unsubscribed"}}

\* The flush of the processed_events row (the primary key makes a second
\* inserter wait for the first, and fail when the first commits), then the
\* snapshot of the users; a signal that is not accepted has no turns.
InsertMark(w) ==
  /\ pc[w] = "insert"
  /\ EventAt(w) \notin processed
  /\ \A v \in Workers : EventAt(w) \notin marks[v]
  /\ marks' = [marks EXCEPT ![w] = {EventAt(w)}]
  /\ todo' = [todo EXCEPT ![w] =
                IF row[SignalAt(w)] = "accepted" THEN EligibleUsers ELSE {}]
  /\ Goto(w, "users")
  /\ UNCHANGED <<streamVars, dbVars, txRows, lock, cur, tid, exchangeVars,
                 cleaned, countVars>>

InsertMarkFails(w) ==
  /\ pc[w] = "insert"
  /\ EventAt(w) \in processed
  /\ Rollback(w)
  /\ NoFault

\* lock_user_for_execution, then the prechecks.
LockIgnored(w, u) == TRUE
LockFree(w, u) == lock[u] = NoWorker

BeginTurn(w) ==
  /\ At(w, "users")
  /\ todo[w] # {}
  /\ LET u == NextUser(w)
     IN /\ LockFree(w, u)
        /\ lock' = [lock EXCEPT ![u] = w]
        /\ Goto(w, IF PrecheckPasses(w, u) THEN "verify" ELSE "refuse")
  /\ UNCHANGED <<streamVars, dbVars, txRows, marks, exchangeVars, cleaned,
                 countVars>>

\* _publish_skip: after a failed precheck, or because of the credentials,
\* the account, the free margin or the symbol filters.  A publish that fails
\* (also the one of _publish_error after it) undoes the whole event.
Refuse(w) ==
  /\ pc[w] \in {"refuse", "verify"}
  /\ \/ /\ EndTurn(w)
        /\ NoFault
        /\ UNCHANGED <<streamVars, dbVars, txVars, exchangeVars, cleaned>>
     \/ /\ Fault
        /\ Rollback(w)

\* create_trade_from_plan
CreateTrade(w) ==
  /\ pc[w] = "verify"
  /\ nextId \in TradeIds
  /\ nextId' = nextId + 1
  /\ tid' = [tid EXCEPT ![w] = nextId]
  /\ SetStatus(nextId, "pending_entry")
  /\ key' = [key EXCEPT ![nextId] =
               [user |-> NextUser(w), signal |-> SignalAt(w),
                event |-> EventAt(w)]]
  /\ txRows' = [txRows EXCEPT ![w] = @ \cup {nextId}]
  /\ Goto(w, "entry")
  /\ UNCHANGED <<cur, todo, streamVars, processed, committed, slId,
                 marks, lock, exchangeVars, cleaned, countVars>>

-----------------------------------------------------------------------------
(* The exchange: entry, guard, protective orders.                           *)

\* Every call for trade t reads or changes the position of its symbol.
PositionOf(t) == lots \cap Peers(t)

onlyExchange == <<streamVars, dbVars, txVars, cleaned>>

\* set_leverage, set_margin_type_isolated and the entry order.  The order may
\* come to rest (it fills in a step of its own) or be rejected outright; when
\* a call raises, the order may still have reached the exchange.
PlaceEntry(w) ==
  /\ At(w, "entry")
  /\ \/ /\ NoFault
        /\ resting' = resting \cup {tid[w]}
        /\ Goto(w, "wait")
     \/ /\ NoFault
        /\ UNCHANGED resting
        /\ Goto(w, "cancel")
     \/ /\ Fault
        /\ resting' \in {resting, resting \cup {tid[w]}}
        /\ Goto(w, "abort")
  /\ UNCHANGED <<onlyExchange, lots, stops, targets, fired>>

\* The market fills an entry order, wholly or in part.
EntryFills(t) ==
  /\ t \in resting
  /\ lots' = lots \cup {t}
  /\ resting' \in {resting, resting \ {t}}
  /\ UNCHANGED <<onlyExchange, workerVars, stops, targets, fired, countVars>>

\* _wait_for_entry_fill: any position in the symbol is enough, however small
\* and whosever; the deadline and the deviation guard can come first even
\* when there is one.
WaitForFill(w) ==
  /\ At(w, "wait")
  /\ \/ PositionOf(tid[w]) # {} /\ Goto(w, "stop") /\ NoFault
     \/ Goto(w, "cancel") /\ NoFault
     \/ Goto(w, "abort") /\ Fault
  /\ UNCHANGED <<onlyExchange, exchangeVars>>

\* cancel_order of the entry, refused when nothing rests any more.  When it
\* works the trade is "skipped"; a publish failing after that hands the
\* settled trade to the exception handler.
CanceledStatus == "canceled"
SkippedStatus == "skipped"

CancelEntry(w) ==
  LET t == tid[w]
  IN /\ pc[w] = "cancel"
     /\ \/ /\ t \in resting
           /\ resting' = resting \ {t}
           /\ SetStatus(t, SkippedStatus)
           /\ \/ EndTurn(w) /\ NoFault
              \/ Goto(w, "abort") /\ Fault /\ UNCHANGED <<cur, todo, tid>>
        \/ /\ \/ t \notin resting /\ UNCHANGED resting /\ NoFault
              \/ resting' \in {resting, resting \ {t}} /\ Fault
           /\ Goto(w, "abort")
           /\ UNCHANGED <<cur, todo, tid, status>>
     /\ UNCHANGED <<streamVars, processed, committed, key, slId, nextId,
                    txVars, lots, stops, targets, fired, cleaned>>

\* Three attempts at the stop-loss, whose result is not looked at.
PlaceStop(w) ==
  /\ At(w, "stop")
  /\ Goto(w, "confirm")
  /\ \/ stops' = stops \cup {tid[w]} /\ NoFault
     \/ UNCHANGED stops /\ Fault
  /\ UNCHANGED <<onlyExchange, resting, lots, targets, fired>>

\* _confirm_open_order: the order is looked for among the live ones.
StopAssumed(w) == TRUE
StopConfirmed(w) == tid[w] \in stops

ConfirmStop(w) ==
  /\ At(w, "confirm")
  /\ \/ /\ NoFault
        /\ Goto(w, IF StopConfirmed(w) THEN "targets" ELSE "emergency")
     \/ /\ Fault
        /\ Goto(w, "emergency")
  /\ UNCHANGED <<onlyExchange, exchangeVars>>

\* Take-profits of the plan's legs (none in model 3; a failing one is passed
\* over), then the trade is recorded open with its sl_order_id.  A trade.opened
\* that cannot be published changes nothing.
PlaceTargets(w) ==
  LET t == tid[w]
  IN /\ pc[w] = "targets"
     /\ targets' \in {targets, targets \cup {t}}
     /\ NoFault
     /\ SetStatus(t, "open")
     /\ slId' = slId \cup {t}
     /\ EndTurn(w)
     /\ UNCHANGED <<streamVars, processed, committed, key, nextId, txVars,
                    resting, lots, stops, fired, cleaned>>

-----------------------------------------------------------------------------
(* Emergency close: no stop-loss could be confirmed.                        *)

\* close_position_market with qty=None sells the whole position of the
\* symbol, so it takes the lots of every trade that shares it.
ClosePosition(t) == lots' = lots \ PositionOf(t)

\* Closing works, or fails three times: because there is no position, or
\* because the calls fail, in which case one of them may have worked.  Then
\* the trade is recorded open without a sl_order_id.  The trade.error and the
\* admin alerts that follow may each be swallowed (_publish_safely), or have no
\* admin to go to: they change nothing here, and nothing may depend on them.
EmergencyClose(w) ==
  LET t == tid[w]
  IN /\ pc[w] = "emergency"
     /\ \/ /\ PositionOf(t) # {}
           /\ ClosePosition(t)
           /\ NoFault
           /\ Goto(w, "cleanup")
           /\ UNCHANGED <<cur, todo, tid, status>>
        \/ /\ \/ PositionOf(t) = {} /\ UNCHANGED lots /\ NoFault
              \/ (ClosePosition(t) \/ UNCHANGED lots) /\ Fault
           /\ SetStatus(t, "open")
           /\ EndTurn(w)
     /\ UNCHANGED <<streamVars, processed, committed, key, slId, nextId,
                    txVars, resting, stops, targets, fired, cleaned>>

\* cancel_all_algo_orders of the symbol.
CancelProtection(t) ==
  /\ stops' = stops \ Peers(t)
  /\ targets' = targets \ Peers(t)
  /\ cleaned' = cleaned \cup {t}

\* cancel_open_orders and cancel_all_algo_orders, whose failures are logged;
\* the trade is closed as aborted_no_protection.  What is published of it may
\* be swallowed as well.
CleanUp(w) ==
  LET t == tid[w]
  IN /\ pc[w] = "cleanup"
     /\ \/ resting' = resting \ Peers(t) /\ CancelProtection(t) /\ NoFault
        \/ /\ resting' \in {resting, resting \ Peers(t)}
           /\ CancelProtection(t) \/ UNCHANGED <<stops, targets, cleaned>>
           /\ Fault
     /\ SetStatus(t, "closed")
     /\ EndTurn(w)
     /\ UNCHANGED <<streamVars, processed, committed, key, slId, nextId,
                    txVars, lots, fired>>

-----------------------------------------------------------------------------
(* The exception handler of a user's turn.                                  *)

\* _close_after_protection_failure: no position, or a failing call, ends it
\* before the entry order is cancelled.
Abort(w) ==
  LET t == tid[w]
  IN /\ At(w, "abort")
     /\ \/ /\ PositionOf(t) # {}
           /\ ClosePosition(t)
           /\ NoFault
           /\ Goto(w, "sweep")
        \/ /\ PositionOf(t) = {}
           /\ UNCHANGED lots
           /\ NoFault
           /\ Goto(w, "report")
        \/ /\ ClosePosition(t) \/ UNCHANGED lots
           /\ Fault
           /\ Goto(w, "report")
     /\ UNCHANGED <<onlyExchange, resting, stops, targets, fired>>

Sweep(w) ==
  /\ At(w, "sweep")
  /\ Goto(w, "report")
  /\ \/ resting' = resting \ Peers(tid[w]) /\ NoFault
     \/ resting' \in {resting, resting \ Peers(tid[w])} /\ Fault
  /\ UNCHANGED <<onlyExchange, lots, stops, targets, fired>>

\* The status "error" and trade.error; a publish that fails here escapes.
LeftAsIs(w) == status[tid[w]]
ErrorStatus(w) == "error"

ReportError(w) ==
  /\ pc[w] = "report"
  /\ \/ /\ SetStatus(tid[w], ErrorStatus(w))
        /\ EndTurn(w)
        /\ NoFault
        /\ UNCHANGED <<streamVars, processed, committed, key, slId,
                       nextId, txVars, exchangeVars, cleaned>>
     \/ /\ Fault
        /\ Rollback(w)

-----------------------------------------------------------------------------
(* The end of a record, crashes, and the world around.                      *)

\* session.commit() after the last turn: the rows and the event become
\* visible together.
RowsOnly(w) == processed
WithMark(w) == processed \cup marks[w]

Commit(w) ==
  /\ pc[w] = "users"
  /\ todo[w] = {}
  /\ \/ /\ NoFault
        /\ committed' = committed \cup txRows[w]
        /\ processed' = WithMark(w)
        /\ EndTransaction(w)
        /\ Goto(w, "ack")
        /\ UNCHANGED <<cur, streamVars, status, key, slId, nextId,
                       exchangeVars, cleaned>>
     \/ /\ Fault
        /\ Rollback(w)

\* XACK; when it fails the record stays pending although it is settled.
Ack(w) ==
  /\ pc[w] = "ack"
  /\ \/ rec' = [rec EXCEPT ![cur[w]] = "acked"] /\ NoFault
     \/ UNCHANGED rec /\ Fault
  /\ LeaveRecord(w)
  /\ UNCHANGED <<row, standing, dbVars, txVars, todo, tid, exchangeVars,
                 cleaned>>

\* The process dies: Postgres rolls the open transaction back.
Crash(w) ==
  /\ pc[w] # "idle"
  /\ crashes < MaxCrashes
  /\ crashes' = crashes + 1
  /\ UNCHANGED <<faults, changes>>
  /\ Rollback(w)

\* The market reaches the stop price of trade t: its quantity is sold out of
\* the position of the symbol.
StopFires(t) ==
  /\ Cardinality(fired) < MaxFired
  /\ t \in stops
  /\ \E p \in PositionOf(t) : (t \in lots => p = t) /\ lots' = lots \ {p}
  /\ stops' = stops \ {t}
  /\ fired' = fired \cup {t}
  /\ UNCHANGED <<onlyExchange, workerVars, resting, targets, countVars>>

\* The user-stream consumer records that: the trade is closed and its
\* take-profits are cancelled, as far as that works.
TradeCloses(t) ==
  /\ t \in committed \cap fired
  /\ status[t] = "open"
  /\ SetStatus(t, "closed")
  /\ targets' \in {targets, targets \ {t}}
  /\ UNCHANGED <<streamVars, processed, committed, key, slId, nextId, txVars,
                 workerVars, resting, lots, stops, fired, cleaned, countVars>>

\* The signals row of a published signal becomes visible to the engine.
RowAppears(s) ==
  /\ row[s] = "missing"
  /\ row' = [row EXCEPT ![s] = "accepted"]
  /\ UNCHANGED <<rec, standing, dbVars, txVars, workerVars, exchangeVars,
                 cleaned, countVars>>

\* Admin panel, expiry job, kill switches.
ChangeStanding(u, s) ==
  /\ changes < MaxChanges
  /\ s # standing[u]
  /\ standing' = [standing EXCEPT ![u] = s]
  /\ changes' = changes + 1
  /\ UNCHANGED <<rec, row, dbVars, txVars, workerVars, exchangeVars, cleaned,
                 faults, crashes>>

-----------------------------------------------------------------------------
Init ==
  /\ rec = [r \in Records |-> "new"]
  /\ row \in [Signals -> InitialRows]
  /\ standing = [u \in Users |-> "active"]
  /\ processed = {}
  /\ committed = {}
  /\ status = [t \in TradeIds |-> "none"]
  /\ key = [t \in TradeIds |-> NoKey]
  /\ slId = {}
  /\ nextId = 1
  /\ txRows = [w \in Workers |-> {}]
  /\ marks = [w \in Workers |-> {}]
  /\ lock = [u \in Users |-> NoWorker]
  /\ pc = [w \in Workers |-> "idle"]
  /\ cur = [w \in Workers |-> NoRecord]
  /\ todo = [w \in Workers |-> {}]
  /\ tid = [w \in Workers |-> NoTrade]
  /\ resting = {} /\ lots = {} /\ stops = {} /\ targets = {} /\ fired = {}
  /\ cleaned = {}
  /\ faults = 0 /\ crashes = 0 /\ changes = 0

WorkerStep(w) ==
  \/ Lookup(w) \/ InsertMark(w) \/ InsertMarkFails(w)
  \/ BeginTurn(w) \/ Refuse(w) \/ CreateTrade(w)
  \/ PlaceEntry(w) \/ WaitForFill(w) \/ CancelEntry(w)
  \/ PlaceStop(w) \/ ConfirmStop(w) \/ PlaceTargets(w)
  \/ EmergencyClose(w) \/ CleanUp(w)
  \/ Abort(w) \/ Sweep(w) \/ ReportError(w)
  \/ Commit(w) \/ Ack(w)

Environment ==
  \/ \E w \in Workers : Crash(w)
  \/ \E t \in TradeIds : EntryFills(t) \/ StopFires(t) \/ TradeCloses(t)
  \/ \E s \in Signals : RowAppears(s)
  \/ \E u \in Users, s \in Standings : ChangeStanding(u, s)

Next ==
  \/ \E w \in Workers : WorkerStep(w)
  \/ \E w \in Workers, r \in Records : ReadRecord(w, r)
  \/ Environment

Spec == Init /\ [][Next]_vars

\* A worker in the middle of a record goes on (the entry wait has a deadline,
\* the retries are counted), and the reader, which alternates between the
\* pending and the new records and takes up to 100 of them in stream order,
\* comes to every record again and again.
Fairness ==
  /\ \A w \in Workers : WF_vars(WorkerStep(w))
  /\ \A r \in Records : SF_vars(\E w \in Workers : ReadRecord(w, r))

FairSpec == Spec /\ Fairness

-----------------------------------------------------------------------------
(* Properties.                                                              *)

TypeOK ==
  /\ rec \in [Records -> {"new", "pending", "acked"}]
  /\ row \in [Signals -> {"missing", "accepted", "rejected"}]
  /\ standing \in [Users -> Standings]
  /\ processed \subseteq Events
  /\ committed \subseteq TradeIds
  /\ status \in [TradeIds -> Statuses]
  /\ key \in [TradeIds -> Keys \cup {NoKey}]
  /\ slId \subseteq TradeIds
  /\ nextId \in 1 .. MaxTrades + 1
  /\ txRows \in [Workers -> SUBSET TradeIds]
  /\ marks \in [Workers -> SUBSET Events]
  /\ lock \in [Users -> Workers \cup {NoWorker}]
  /\ pc \in [Workers -> Steps]
  /\ cur \in [Workers -> Records \cup {NoRecord}]
  /\ todo \in [Workers -> SUBSET Users]
  /\ tid \in [Workers -> TradeIds \cup {NoTrade}]
  /\ resting \subseteq TradeIds /\ lots \subseteq TradeIds
  /\ stops \subseteq TradeIds /\ targets \subseteq TradeIds
  /\ fired \subseteq TradeIds /\ cleaned \subseteq TradeIds
  /\ faults \in 0 .. MaxFaults
  /\ crashes \in 0 .. MaxCrashes
  /\ changes \in 0 .. MaxChanges

\* Rows that are committed or still may be.
Live == committed \cup UNION {txRows[w] : w \in Workers}

\* Counting the rows of every open transaction as well, a user never has more
\* active trades than max_concurrent: the per-user advisory lock keeps two
\* workers from passing the count of _precheck_reason on the same free place.
CapRespected ==
  \A u \in Users : Cardinality(ActiveOf(u, Live)) <= MaxConcurrent

\* A user never has two active trades for one signal, whether the signal
\* comes in two records, in two events or to two workers at once.
OneActiveTradePerSignal ==
  \A t, p \in Live :
     /\ t # p
     /\ status[t] \in Active /\ status[p] \in Active
     /\ key[t].user = key[p].user
     => key[t].signal # key[p].signal

\* An event is executed once: its trades are committed together with its
\* processed_events row, at most one per user, whatever was redelivered.
EventExecutedOnce ==
  /\ \A t \in committed : key[t].event \in processed
  /\ \A t, p \in committed :
        /\ t # p
        /\ key[t].user = key[p].user
        => key[t].event # key[p].event

\* No commit leaves a trade half way: each of its trades was taken to one of
\* the outcomes of the handler, through every failure of a user's turn.
NoTradeLeftPending ==
  \A t \in committed : status[t] \in {"open", "skipped", "error", "closed"}

\* A record is acknowledged only after the effect of its event is durable; a
\* failed attempt at it is never acknowledged.
AckedIsSettled ==
  \A r \in Records :
     rec[r] = "acked" => EventOf[r] = NoEvent \/ EventOf[r] \in processed

\* A trade that is recorded open with a sl_order_id and has a position has its
\* stop-loss live, or executed already (the rest of a partly filled entry can
\* still come in after that).  Only a later trade of the same user and symbol
\* can have taken the stop away, by the clean-up after its emergency close,
\* and that trade itself ended closed or rolled back.
OpenTradeIsCovered ==
  \A t \in Live \cap slId \cap lots :
     status[t] = "open" =>
       \/ t \in stops \cup fired
       \/ \E p \in Peers(t) \cap cleaned :
            p > t /\ status[p] \in {"closed", "lost"}

\* "Confirm a live position-specific SL before placing optional TP legs": no
\* take-profit order lives unless its trade's stop-loss lives or did its work.
TargetsBehindStop == targets \subseteq stops \cup fired

\* Whoever waits (for a user's advisory lock, or for the primary key of
\* processed_events) waits for a worker that is not itself stuck in a circle
\* of waiting workers; users are locked in increasing order for that.
WaitsFor(w, v) ==
  \/ pc[w] = "users" /\ todo[w] # {} /\ lock[NextUser(w)] = v
  \/ pc[w] = "insert" /\ EventAt(w) \in marks[v]

NoLockCycle ==
  \A S \in (SUBSET Workers) \ {{}} :
     \E w \in S : \A v \in S : ~ WaitsFor(w, v)

\* Through crashes, redeliveries, failing calls and concurrent workers, what
\* is committed and acknowledged follows the abstract book of trades: one
\* atomic, final batch per event, within the limits of every user.
CommittedBook ==
  {[id |-> t, user |-> key[t].user, event |-> key[t].event,
    outcome |-> status[t]] : t \in committed}

Book == INSTANCE TradeBook WITH
  acked <- {r \in Records : rec[r] = "acked"},
  settled <- processed,
  book <- CommittedBook

ImplementsTradeBook == Book!Spec

\* Every record whose signal can be read is acknowledged in the end, through
\* any finite number of failing calls and crashes.
RecordSettles ==
  \A r \in Records :
     (EventOf[r] = NoEvent \/ row[SignalOf[EventOf[r]]] # "missing")
       ~> rec[r] = "acked"
=============================================================================
