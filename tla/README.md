# Verification of the MRRIK trading bot

The bot turns signals of a Telegram channel into leveraged futures trades on
each subscriber's exchange account, and into simulated trades for demo users.
This directory holds TLA+ models of the parts where its correctness is hard to
see, the TLC configurations that check them, and theorems proved with TLAPS.
Paths below are relative to the repository.

## 1. The system

Five services share one Postgres database and one Redis server.

| component | keeps | operations | talks to |
|---|---|---|---|
| signal ingestor (`services/signal_ingestor`) | `signals` rows | parse, sanitize, store, then publish `signal.created` or `signal.rejected` | stream `signals` |
| core engine, signal consumer (`core_engine/engine.py`, `orders.py`, `main.py`) | `trades`, `trade_legs`, `processed_events`, advisory locks; orders and positions at the exchange | one transaction per event: a turn for every eligible user (prechecks, entry order, guard, stop-loss, take-profits, emergency close) | streams `signals` (in), `orders` and `notify` (out), exchange |
| core engine, lifecycle (`lifecycle.py`) | the same rows and orders | user-stream events: leg fills, break-even stop, stop-loss, liquidation; mark prices for risk model 3 | exchange user stream |
| core engine, reconciliation (`reconciliation.py`) | the same | at start and every minute: compare every active trade with position and orders, close or repair it | exchange |
| execution plan (`risk.py`, `shared/signal/sizing.py`, `pnl.py`) | nothing | quantities, legs, rounding, liquidation price | - |
| demo engine (`services/demo_engine`) | demo accounts, trades, legs | open on `signal.created`, evaluate each price tick, settle balances | streams `signals`, `notify`, price feed |
| Telegram bot (`services/telegram_bot`) | users, subscriptions, payments, settings, credentials | dialogs, delivery of `notify`, reminder and expiry jobs | stream `notify`, Telegram |
| admin panel (`services/admin_panel`) | payments, audit log, kill switches, sessions | precheck, approve, reject, block, switch | Redis, explorers |
| shared (`bus.py`, `exchange/`, `models/`, ...) | - | event envelopes, exchange client, schema | - |

`PROJECT.json` lists every part with its status. Where the difficulty lies:

* **Three stores, no common commit.** A signal is consumed inside a database
  transaction, but orders are placed at the exchange from within it and the
  record is acknowledged after it. A crash or an exception between any two of
  these leaves the stores at odds.
* **Concurrency.** Several engine processes may read one consumer group; rows
  are invisible to each other until commit; advisory locks serialize users.
  Inside one process the signal consumer, the user streams and the
  reconciliation interleave at every `await`.
* **Failing calls.** Every call to the exchange, to Redis or to Postgres may
  raise, and a call that raised may have worked.
* **Delivery.** Records are redelivered; events may name a signal twice; the
  signals row may not be visible yet.
* **Shared positions.** Trades of one user on one symbol share a position and
  an order book; "the position" and "all orders" are those of the symbol.

What makes each component correct: the consumer executes an event once, within
every user's limits, records a trade as protected only behind a stop that is
live, and gets every record settled. The lifecycle never leaves a position
without a stop while it moves it, and records only what happened at the
exchange. Reconciliation repairs what the others left. The plan conserves quantity. The demo engine conserves
balance and opens one trade per user and signal. Notifications are delivered or
dropped for a reason. A payment activates one subscription once.
`PROJECT.json`, "hazards", names the lines where these can go wrong.

## 2. Modules

| module | models |
|---|---|
| `TradeBook` | abstract: what the signal consumer promises about its committed trades |
| `SignalExecution` | the signal consumer and the opening of trades |
| `MCSignalExecution` | small instances of it for TLC |
| `SignalExecutionProofs` | its inductive invariant, types and safety theorems |
| `SignalExecutionLimits` | theorems about limits and locks under concurrent workers, and that it implements `TradeBook` |
| `TradeLifecycle` | open trades: user streams, reconciliation, model-3 monitor |
| `MCTradeLifecycle` | small instances of it for TLC |
| `TradeLifecycleProofs` | its inductive invariant and theorems |
| `SignalIngest` | the signal ingestor, a component of `DemoEngine` |
| `DemoTrading` | the arithmetic of a demo trade |
| `DemoBook` | abstract: what the demo promises about accounts, trades and announcements |
| `DemoEngine` | the demo engine behind the ingestor, and the demo in the bot |
| `MCDemoEngine` | a small instance of it |
| `DemoEngineProofs` | the inductive invariant and theorems of the demo engine and the ingestor, and that the engine implements `DemoBook` |
| `Summation`, `SummationProofs` | sums, as loops add them up; facts about them and about loops |
| `SignalPlanning` | sanitizer and execution plan, as operators over bounded inputs |
| `MCSignalPlanning` | a small instance of it |
| `SignalPlanningProofs` | theorems about every result of the two |
| `NotifyDelivery` | the consumer of the `notify` stream in the bot |
| `NotifyDeliveryProofs` | its inductive invariant and theorems |
| `Subscriptions` | forms, payments, decisions, reminder and expiry jobs |
| `MCSubscriptions` | a small instance of it |
| `SubscriptionsProofs` | its inductive invariant and theorems |

The first two models meet in the transaction that opens a trade:
`SignalExecution` ends with its commit, `TradeLifecycle` begins with it
(`OpeningCommits`), and takes the states an opening may leave as its initial
ones (`InitialSls`, `InitialRests`). What each needs of the other is one action
there (`TradeCloses`, `OpeningCommits`). `DemoEngine` extends `SignalIngest` and
`DemoTrading`: its stream is the one the ingestor writes, and its ticks call the
arithmetic. `SignalPlanning` composes the sanitizer of the ingestor with the
planner of the core engine, whose input it is.

### SignalExecution

A worker is one engine process in `_consume_signals` (`main.py:147`). A step of
the model ends at an `await` after which another actor's doing can matter;
writes to rows nobody else can see are merged into the step before.

| code | model |
|---|---|
| stream `signals`, its consumer group, XACK | `rec`, `ReadRecord`, `Ack` |
| `session_scope`: commit, rollback | `txRows`, `marks`, `lock`; `Commit`, `Rollback` |
| `_get_signal_with_retry`, `mark_event_processed` | `Lookup`, `InsertMark`, `InsertMarkFails` |
| `lock_user_for_execution`, `_precheck_reason` | `BeginTurn`, `PrecheckPasses` |
| the skips before a trade exists | `Refuse` |
| `create_trade_from_plan` | `CreateTrade` |
| `place_initial_orders`, `_wait_for_entry_fill` | `PlaceEntry`, `WaitForFill`, `CancelEntry` |
| `place_protective_orders`, `_confirm_open_order` | `PlaceStop`, `ConfirmStop`, `PlaceTargets` |
| `_emergency_close` and the two outcomes of it | `EmergencyClose`, `CleanUp` |
| the `except` of a user's turn, `_close_after_protection_failure` | `Abort`, `Sweep`, `ReportError` |
| the exchange: entry fills, stop executed | `resting`, `lots`, `stops`, `targets`, `fired`; `EntryFills`, `StopFires` |
| user stream records an executed stop (seen from here) | `TradeCloses` |
| ingestor's commit, admin panel, expiry job, kill switches | `RowAppears`, `ChangeStanding` |
| death of a process | `Crash` |

Abstractions: quantities are not numbers here (an entry is filled or not, and
may fill further as long as it rests); one side per symbol; the user's
credentials, balance and filters are the choice of `Refuse`; retries of one
call are one step with the outcomes the last attempt may have. A publish that
the code swallows (`trade.opened`, and all that `_publish_safely` sends after an
emergency close: `trade.closed`, `trade.error`, the user's text, the alerts to
the admins, of whom there may be none) may be lost without a trace. No state
depends on it and no property assumes that it arrives. One that raises is a
fault. `cleaned` is a history variable: it remembers whose clean-up cancelled the
orders of a symbol, which a rollback does not undo. `standing` folds the kill switches, the
subscription and `is_blocked` into one mark per user, but keeps the difference
in when each is read.

### TradeLifecycle

One process; its tasks are the user streams (one per trade, each trade being of
its own user, all on one symbol), the reconciliation and the price monitor. A
step ends at an `await`.

| code | model |
|---|---|
| `session_scope`, rows read once and not refreshed, row locks | `db`, `draft`, `owner`, `seen`; `Flush`, `CommitRows`, `RollbackRows` |
| a synchronous wait for a row lock, which stops the event loop | `blocked`, `WaitForRow` |
| the messages of `user_stream`, `_consume_user_stream` | `queue`, `TakeMessage`, `Disconnect` |
| `_supervise_user_streams` | `Connect` |
| `handle_user_stream_event`: a leg, all legs | `TakeLegFill`, `CancelStop` |
| `_place_break_even_stop`, `_confirm_open_order`, the old stop | `PlaceBe`, `ConfirmBe`, `CancelOld` |
| the stop is executed, `_cancel_open_tps`, `close_trade` | `TakeStopFill`, `CancelTargets`, `CloseStopped` |
| `CALCULATED`, `_find_open_trade_by_symbol` | `TakeLiquidation` |
| `_publish_lifecycle_result`, the commit or the rollback | `Publish` |
| `reconcile_job`, `reconcile_open_trades` | `StartReconcile`, `ReadPosition`, `ReadOrders`, `CloseMissing`, `PassOver`, `RepairStop`, `RepairTargets` |
| `_monitor_model3_prices`, `handle_mark_price_for_model3` | `PriceCrosses`, `Sell`, `Unstop`, `CloseModel3`, `PublishModel3` |
| the exchange | `pos`, `rest`, `live`, `done`; `EntryFills`, `TargetFills`, `StopFires`, `Liquidated`, `OrderExpires` |

Abstractions: quantities count legs; results in USDT are left out; a stop placed
for the legs not recorded as filled covers the position, as it is never less;
`move_sl_to_be_after_tp1` is on, its default; the reason of a close is the
purpose of the stop (the code also says "be" when the stop was filled exactly at
the entry price). Client order ids are the purposes; leg ids are strings so
that they can stand beside the other purposes.

### SignalIngest and DemoEngine

The ingestor gives every message a task of its own; the demo engine has two
tasks in one event loop, the opener and the ticker, each with a session per
record or per price. A step ends where a task awaits.

| code | model |
|---|---|
| `process_source_message`: parse, sanitize, store, commit | `HandleMessage` |
| `_publish_persisted_event` | `PublishSignal`, `PublishFails` |
| consumer group, pending and new records in turn, XACK | `ReadPending`, `ReadFresh`, `Acknowledge` |
| `handle_signal_created` | `StartRecord`, `SkipUser`, `OpenForUser`, `AnnounceOpened`, `CommitOpened` |
| a publishing raises, the session rolls back | `OpenFails`, `CloseFails` |
| `_track_prices`, mark-price stream | `Subscribe`, `ReceivePrice` |
| `handle_price_tick`, `mark_demo_legs_filled`, `close_demo_trade` | `LeaveTrade`, `ApplyDecision`, `AnnounceClosed`, `CommitTick` |
| an UPDATE of a row a reset has deleted | `StaleTick` |
| the demo menu and settings in the bot | `OpenDemo`, `ResetDemo`, `ChangeRiskModel` |
| `build_demo_open_plan`, `evaluate_price_tick` | `DemoPlan`, `EvaluatePriceTick` |
| death of the process | `Crash` |

Abstractions: amounts are integers and rates per mille, with an instance in
which every division is exact; statistics, which nothing depends on, are left
out. `ResetDemo` is one step. The bot deletes the trades and then sets the
balance back, two statements of one transaction in a process of its own, so that
a trade could be opened between them, and closed before the second: it would
stay on record while the balance is set back, or its result be added to the
balance read before. What is checked and proved of balances and results is about
resets with no commit of the engine in that gap. The ingestor keeps no record of the messages it has seen, and its handler is
registered for new messages only: each message is handled at most once, as long
as Telegram delivers it once.

### SignalPlanning

`Sanitized` is `sanitize_signal` with all it calls, `Planned` is
`build_execution_plan`. The state machine has one step for each, since each is
a function; what it adds is that the second works on the result of the first.
Every loop of the code that carries something along is a recursive function of
the round: the rounds of the dynamic programme
(`longest_monotonic_subsequence_indices`) are `PathsOf`, and `PathTo` within them,
the merging of legs (`_merge_tiny_legs`) is `AllGathered`, its round `Gather`.
`TargetsAreBest` compares what the search finds with the definition over all
ways to leave out targets. Decimals are fixed-point numbers with three digits,
which gives the quantities of 28 digits while they are small.

Two inputs at the edge are kept because the code treats them in its own way. A
price of zero can be written in a message (the parser asks for no positive
number): the sanitizer lets it pass as the target of a short signal or the stop
of a long one, and the planner refuses it. And an entry below one tick is
rounded to zero, by which the planner then divides (`DivisionByZero`): what is
raised is not the planner's own error, and takes the way of any other exception
out of the user's turn.

### NotifyDelivery

One consumer and its supervisor. `EnsureGroup`, `ClaimPending`, `Recovered`,
`ReadNew`, `EndOfBatch` are the loops of `_recover_pending_notifications` and
`_consume_notifications`; `DropPoison`, `Send`, `Ack`, `SendRefused` are the ways
through `_process_notification_message`; `SendFails`, `AckFails`,
`RecoveryFails`, `ReadFails` are what raises, each before or after its effect, and
`Restart` is what the supervisor does then.

### Subscriptions

| code | model |
|---|---|
| form states and data of aiogram, `state.clear` | `form`; `ChoosePlan`, `ChooseNetwork`, `AskOther`, `Clear` |
| `handle_txid`: commit, then publish, then clear | `Submit`, `Announced`, `AnnounceFails` |
| `approve_payment`, `reject_payment` | `Approve`, `Reject`, `PendingFor` |
| `reminder_job`, `enforcement_job`: one transaction each | `StartJob`, `JobStep`, `JobFails`; `job` holds rows to do and rows marked |
| the row lock of an uncommitted update | `LockedByOther`, `JobBlocks`, `stuck` |
| death of the bot | `RestartBot` |

Abstractions: wallet, network and TXID are not kept (a TXID used before makes
the insertion fail, before anything has changed); an admin's request has no
`await` in its transaction and the panel is one event loop, hence one step.

## 3. Runs

Every run is small enough to be exhaustive. The counters `faults`, `crashes`,
`changes`, `resets`, `lost` and the size of `fired` are bounded by the constants
`MaxFaults`, `MaxCrashes`, `MaxChanges`, `MaxResets`, `MaxLost`, `MaxFired`; ids
by `MaxTrades`, `MaxPayments`, `MaxRecords`; messages under way by `MaxQueue`,
disconnects by `MaxDrops`, days by `MaxTime`. Runs say `CHECK_DEADLOCK FALSE`:
with all records acknowledged and the bounds used up the system rests.

| run | instance | shows |
|---|---|---|
| `exec_symbol` | 1 worker, 1 user, 2 signals on one symbol, 2 faults, 1 executed stop | `OpenTradeIsCovered`, `TargetsBehindStop`, `NoTradeLeftPending` |
| `exec_turns` | 1 worker, 2 users; missing, accepted, rejected signals, a malformed record, a fault and a crash | `TypeOK`, `AckedIsSettled`, `EventExecutedOnce` |
| `exec_locks` | 2 workers, 2 users, 2 signals, room for 1 trade, an executed stop | `CapRespected`, `NoLockCycle`, `ImplementsTradeBook` |
| `exec_settles` | 2 workers, 2 records of 2 events of 1 signal, its row missing, rejected or accepted, a crash, a change of standing, fairness | `OneActiveTradePerSignal`, `RecordSettles` |
| `life_repair` | 1 trade of 2 legs opened with or without a stop, entry filled in full or part, a fault, a disconnect, fairness | `TypeOK`, `CloseIsTrue`, `StopStays`, `StopIsRepaired`, `MissingTradeCloses` |
| `life_model3` | 2 trades of model 3 in one session of the monitor, a fault, a crash | `CloseIsTrue` |
| `life_liquidation` | 2 users on one symbol | violation of `LiquidationIsOwn` |
| `demo_trades` | 1 message, 2 users (one opens the demo meanwhile, one has a leverage cap), legs and whole positions, 3 prices, a fault, a lost event, a reset or change of model, fairness | `TypeOK`, `BalanceIsStartPlusClosed`, `OneOpenTradePerSignal`, `LossIsCapped`, `LeverageIsTheUsers`, `EventHasItsRow`, `ImplementsDemoBook`, `ResultStands`, `RecordIsAcknowledged` |
| `notify` | 4 records of any kinds, 2 read at once, 3 faults, fairness | `TypeOK`, `NothingOvertakes`, `AckedWasHandled`, `OneInDoubt`, `TextArrives` |
| `subs` | 1 user, 2 plans, 2 payments, 3 days, a fault, fairness | `TypeOK`, `PaymentsMatchSubscriptions`, `TextsFollowRows`, `DecisionIsFinal`, `EndedExpires` |
| `plan` | all signals of up to 4 targets over 8 prices, zero among them, both sides, 3 margins, 3 models, 3 filters | `TargetsAreBest`, `SoundSignalPasses`, `PlanIsExecutable`, `PricesAreConservative` |
| `plan_merge` | the same | violation of `OnlySmallLegsMerge` |

**Why the bounds are enough.** The hazards need two actors on one thing (two
workers on one user, two trades on one symbol, two records of one event, a
ticker and a reset on one account, two jobs on one row), or one failure at a bad
moment and the attempt after it; each instance holds the pair its property is
about, and every property fails in its instance under the bug named for it in
`PROJECT.json`, "mutants".

* A stream of `TradeLifecycle` works on one trade and trades share nothing but
  sessions and the symbol, so one trade suffices except where a session spans
  two (`life_model3`) or a message names the symbol (`life_liquidation`). The
  three safety properties of `life_repair` are theorems, so larger bounds would
  add nothing.
* The safety properties of `demo_trades` are theorems too. It uses the prices of
  the long signal at which something happens: below the stop and past one
  liquidation, at the first target, at the second. The side SHORT mirrors every comparison of `DemoTrading` and is not exercised.
* In `subs` the second plan plays the part of the second user: rows are matched
  by user and plan, and nothing else tells them apart. The theorems cover any
  number of both.
* In `plan` the prices are in cents and chosen around an entry at 100: on either
  side, on neither tick, ten times off in both directions, zero, and near enough
  that a coarse tick meets the entry; one tick is larger than the entry. The four
  properties are theorems, so more targets would add nothing.

Workers are interchangeable, so `exec_locks`, which checks safety properties
only, uses symmetry; users are numbers (they are visited in order) and records
differ by what they carry, so nothing else is symmetric.

**Fairness.** It is what the event loops and schedulers give, and no more: the
exchange, the market, the users and the admins owe nothing.

* `SignalExecution`: a worker in the middle of a record goes on (weak fairness):
  every wait in the handler has a deadline and every retry is counted. A record
  that can be read again and again is read again and again (strong fairness):
  `_read_signal_records` alternates between pending and new records and takes up
  to 100 in stream order. With more than 100 records that cannot be settled
  pending before it, a record could starve; the model does not reach that.
* `TradeLifecycle`: weak fairness of each stream's task (the event loop runs what
  is ready, and the supervisor starts a stream again), of the reconciliation (a
  scheduled job, every minute) and of the monitor. A blocked loop makes every
  task's steps impossible, so the liveness properties name it as an outcome of
  its own: `MissingTradeCloses` and `StopIsRepaired` say what happens in a
  process that does not hang.
* `DemoEngine`: strong fairness of the opener, which is kept from a step for as
  long as the ticker is in synchronous code, and weak fairness of the ticker.
* `NotifyDelivery`: weak fairness of the consumer: its waits have timeouts, and
  its supervisor starts it again.
* `Subscriptions`: weak fairness of each job: the scheduler starts it
  periodically, one run at a time. `EndedExpires` names the hung bot (`stuck`)
  as an outcome of its own.

### Disagreements with the documents

`MRRIK_AI_Bot_Architecture.md` is "the document" here. Shown by a run:

1. *Another user's liquidation* (`life_liquidation`). A liquidation message is
   attributed to the first open trade on its symbol, of any user.
2. *A good leg is merged away* (`plan_merge`). A leg below the minimums is
   gathered with the legs after it, and all of them join the leg before: a
   target that could be placed on its own is dropped (`risk.py:200`). The
   document (line 400) merges the small leg only, as `sizing.py` does, which
   nothing but tests uses.

Seen in the models, where the behaviours are present, without a run of their
own. Of real trades:

3. *Two positions for one signal.* Orders are placed inside the transaction of
   the event. When the process dies after the entry order, lock, mark and trade
   row are rolled back, the record is delivered again, and the second run places
   a second entry under a new trade id. The document counts on one real trade
   per user and signal (line 217) and on locks "to avoid double-open" (line
   504). A failing publish of another user's skip in the same event has the same
   effect.
4. *A second close.* The reconciliation closes a trade it read before its
   awaits, over the close the stream committed meanwhile: the reason becomes
   `reconciled_closed_unknown`, the result zero. The tests
   (`test_core_engine_lifecycle.py:285`) expect a closed trade to stay as it is.
5. *A hung core engine.* The reconciliation's write waits synchronously for a
   row locked by a stream's session that is itself awaiting the exchange; the
   document (line 600) has it run every minute.
6. *A skipped trade with a position* (`WaitForFill`, `CancelEntry`). The guard and
   the deadline cancel the entry without asking what has been filled.
7. *"blocked user" cannot happen* (`PrecheckPasses`). The precheck looks at rows
   that a query restricted to users who are not blocked, before the first turn;
   all users of an event are read once (`engine.py:464`).
8. *A target placed again* (`RepairTargets`). A take-profit that is executed
   between the reading of the rows and the repair is missing from the open
   orders, and is placed again under the same id.
9. *A position after the stop* (`CloseStopped`). The rest of a partly filled entry
   is not cancelled when the stop closes the trade, and may fill afterwards.
10. *A trade open for ever* (`PassOver`). With orders left and no position a trade
    is passed over by every reconciliation; `MissingTradeCloses` speaks of trades
    without orders for that reason.
11. *Told before it is so.* `trade.closed` and the user's message are published
    before the commit (`main.py:423`), which may still fail.

Of the demo and the ingestor:

12. *An event is not idempotent.* The document (line 104) has consumers
    idempotent on `event_id`; the demo engine looks for an open trade of the
    signal only, so a record delivered again after its trade has closed opens
    another one. `OneOpenTradePerSignal` says what holds.
13. *The remaining position.* On liquidation the code books the loss of the whole
    margin; the document (line 382) has only the remaining position closed, its
    total floored there.
14. *A signal nobody hears of.* When publishing fails after the commit, the
    accepted row stays and its event is never sent (`processor.py:109`).

Of the bot and the panel:

15. *One unreachable chat holds up everybody* (`SendRefused`). A message Telegram
    refuses for good stays pending, stops the consumer, and is the first to be
    tried after every restart (`telegram_bot/main.py:358`); `TextArrives` speaks
    of texts before it. Texts published before the group first exists are never
    delivered (`GroupGoesOn`).
16. *A hung bot* (`JobBlocks`). The two jobs share one event loop with a
    synchronous database, each in one transaction across its waits for Redis.
    When they meet on a row, one waits for the other in the thread that would
    have to resume it.
17. *A late clear* (`Announced`, `Clear`). `handle_txid` and
    `handle_api_credentials` clear the form after their waits, whatever form the
    user has opened by then. When the publishing fails after the payment was
    committed, the form stays, and the same TXID is refused when sent again.
18. *The plan of the moment.* `ChoosePlan` keeps the state of the form, so a plan
    chosen after the payment instructions is the one recorded.
19. *A renewal overlaps.* An approved renewal starts now and does not follow the
    subscription that is running; when the older one ends, its user is told that
    the subscription expired.
20. *Credentials stay invalid.* `ExchangeCredential.is_valid` is set to false where
    credentials are stored (`telegram_bot/repository.py:282`) and to true
    nowhere, while the engine asks for valid ones (`engine.py:165`).

Of the plan:

21. *Ties.* The document (line 349) keeps the earliest targets among runs of one
    length, "equivalently" drops the highest-indexed offender; its own example
    (line 351) and the code prefer the targets nearest to the entry.
22. *Coarse ticks.* Rounding may put a target or the stop on the entry, or two
    targets on one price (`PricesAreConservative` excludes the losing side only);
    the document (line 355) promises profitable and strictly improving ones.
    On a tick above the entry the planner divides by zero (`DivisionByZero`).
23. *Too many targets.* Model 2 refuses a signal with more targets than weights,
    where the document renormalizes.

Of the emergency close:

24. *An open trade nobody hears of* (`EmergencyClose`). When closing fails, the trade
    is recorded open without a `sl_order_id`, and every message about it may be
    swallowed (`engine.py:515`) or find no admin configured (`engine.py:57`). Only
    the reconciliation is left to protect it (`StopIsRepaired`).
25. *Another trade's stop is taken* (`CleanUp`). The emergency close of a later trade
    cancels all orders of the symbol (`orders.py:298`), the stop of an older trade
    among them, which stays recorded as open with it; what still fills of that
    trade's entry has no stop. `OpenTradeIsCovered` says that nothing else takes a
    stop away.

## 4. Proofs

Every safety property a passing run checks, invariant or action property, is a
theorem of its specification, for every value of the constants that satisfies the
named assumptions:

| module | any | assumptions |
|---|---|---|
| `SignalExecution` | number of workers, users, records, signals, trades, faults | `ConstantsAssumption`: trade ids are a finite range, users are numbers |
| `TradeLifecycle` | set of trades and legs, every bound | `LifecycleConstants` |
| `DemoEngine` | messages, users, prices, leverages, weights, every bound | `IngestConstants`, `DemoConstants`; `SignalsAreSanitized`: a signal's stop and targets are on their sides of the entry, as `sanitize_signal` sees to; `ScaleIsExact`: the unit of amounts is fine enough that quantities and legs come out whole |
| `SignalPlanning` | prices, numbers of targets, margins, weights, filters | `PlanningConstants`; `PrecisionSuffices`: the rounding of all parts but the last leaves the last one something, as 28 digits do |
| `NotifyDelivery` | batch size, number of records | `NotifyConstants` |
| `Subscriptions` | users, plans, durations, every bound | `SubscriptionConstants` |

TLC evaluates the assumptions in every run. Of `SignalsAreSanitized`,
`AcceptedIsOnItsSides` proves in `SignalPlanning` what it takes for granted.
`ScaleIsExact` leaves out the 28th digit of a quotient of decimals, and nothing
else.

*Inductive invariant* (`SignalExecutionProofs`). `EventExecutedOnce` is not
inductive: that a committed trade's event is marked follows only if every row of
an open transaction belongs to the event its transaction has marked, and that
there is one trade per user follows only if a user whose turn is over, and no
other, may have a row in the transaction. `IInv` adds these: `Control` (what each
program step implies about `cur`, `tid`, `todo`), `OpenRows` (whose rows are in
which transaction), `Marks` (a mark is held by one transaction, whose event is
not yet processed), `Turns` (a trade of a transaction belongs to a user whose
turn is over, or is the current one) and `Durable`. Actions are first classified
by what they do to rows (`Classification`), and preservation is proved per
class rather than per action.

*Open trades* (`SignalExecutionProofs`). `OpenTradeIsCovered` looks at positions,
`Covered` at every open row, whether there is a position yet or not: the entry may
fill at any time. What takes a stop away is the clean-up of another trade of the
same user on the symbol, so the row needs to know that the one who sweeps is
newer: ids rise (`Fresh`), and whoever is in a turn holds the user's lock and
therefore has that user's newest trade (`Newest`). That the one who swept ended
closed or rolled back (`Cleaned`) needs in turn that no worker is still at it, which
`Ended` adds. Of a trade recorded open without a stop the theorem says nothing.

*Limits* (`SignalExecutionLimits`). `CapRespected` needs that whoever is between
the precheck and the new row holds the user's lock (`Staged`), and that what the
precheck saw still holds (`Checked`): others' rows for that user cannot appear,
since they need the lock, and what is committed meanwhile is visible.

*Locks* (`SignalExecutionLimits`). The users of an event are visited in increasing
order, so the locks a transaction holds are of smaller users than those still to
be visited (`LocksInOrder`). Of any workers that wait for each other, the one that
asks for the largest user waits for a holder that asks for a larger one
(`NoCircle`).

*Refinement* (`SignalExecutionLimits`). `acked`, `settled`, `book` are the
acknowledged records, the committed marks and the committed trades. `Commit` maps
to `Settle` with the transaction's rows as the batch, `TradeCloses` to `Close`,
`Ack` and the dropped record to `Acknowledge`, everything else to a stutter.

*Lifecycle* (`TradeLifecycleProofs`). `StopStays` is not a matter of one step: the
old stop is cancelled on evidence gathered two awaits before, and the last stop
is cancelled because all legs are recorded as filled. `IInv` therefore says that
a position with the rest of its entry is never more than the legs not executed
(`Amounts`), that every message under way tells of an execution (`Reported`),
that committed and uncommitted rows record executions only (`Recorded`), and
that a stream about to cancel the old stop has the new one live, unless the
market ended the trade (`StreamControl`). Every step is then shown to be a
`RowStep` and an `ExchangeStep`, which say once what any step may do to rows and
to the exchange.

*Demo engine* (`DemoEngineProofs`). A row exists in up to three copies: committed,
inserted by the opener's session, and read and perhaps updated by the ticker's. `DInv`
says of each what it shares with the others: `IngestInv` (a record's signal row is
committed), `BookInv` (committed rows are sound, announced, one open per user and
signal), `OpenerInv` (inserted rows are new, of the record in hand, one per user),
`TickerInv` (what was read is what is committed, unless its user reset the demo)
and `AccountsInv` (`Bookings`: what the ticker's session adds to a balance is what its
updated rows say). A reset deletes committed rows below the ticker, which is why the
invariant cannot say that the rows read still exist. `BalancesAgree` then follows
because a commit moves the results of one session's rows from `Bookings` into the sum,
each row once. `LossesAreCapped` needs that the legs together are at most the
position (`Sized`), and its second half, which speaks of trades whose stop moves
to the entry (`MoveToEntry`), that the first target is filled before the moved stop
is looked at.

*Refinement of the demo* (`DemoEngineProofs`). `Entries` forgets of a row all but its
user, signal, margin, status and result, and `Book` has the entries of the committed
rows. `CommitOpened` maps to `Enter`: `InsertedRow` says that its rows are new,
announced and of users with no open trade for the signal. `CommitTick` maps to
`Settle`: its rows are open and on record (`TickRows`), and the balances move by the
difference of the results because `BalanceIsStartPlusClosed` holds before and after
(`TickPays`). A tick that only fills legs changes no entry and is a stutter, as are
rollbacks and crashes.

*Sums and loops* (`SummationProofs`). The library's induction takes a predicate as a
parameter, which the provers cannot be given. Instead a property of numbers is
taken as the set of the numbers that have it: a set that holds 0 and with k - 1
also k holds every number up to n (`Upto`), since otherwise a least one would be
missing (`LeastExists`). The same argument shows that a loop has the sequence of its
states (`LoopExists`), which is what lets anything be said about a recursive
function. `Total` of termwise equal, scaled, larger or extended terms follows.

*Sanitizer* (`SignalPlanningProofs`). `AsGood` is the order of `_prefer_path` on values: more of
them, or as many and nearer to the entry at the first difference. It is
transitive and survives appending a common last value, so by the rounds of the
dynamic programme each path is as good as any path to the same target
(`PathsAreBest`), and the last loop picks the best of them (`LongestPathIsBest`). The
search runs over the targets on the profitable side: `Keeps` says which places of
the signal these are, `WayIsPath` and `PathIsWay` that the ways to improve over all
repaired targets are the paths over the kept ones. That a sound signal passes needs
that the median is one of its values (`SmallestExists`, by counting) and
that the only path as long as the signal is the whole of it.

*Planner* (`SignalPlanningProofs`). The quantities are multiples of the step and sum to the
whole after the rest went to the first (`QuantitiesType`). One round of the merging
keeps `Gathered`: the legs so far can be placed, their targets rise, and what they
hold and what is pending make up the targets looked at (`GatherKeeps`). Rounding is
monotonic and leaves a multiple of the tick alone, hence it keeps the order of
stop, entry, target and exit (`RoundedIsMonotonic`).

*Delivery* (`NotifyDeliveryProofs`). That texts arrive in the order of the stream
follows from the order of acknowledgement: what is pending is the end of what was
given out (`SettledInOrder`), the records in hand are the oldest pending ones
(`OldestInHand`), and the one text in doubt is the oldest of all
(`DoubtIsOldest`). A failure then repeats that text or none.

*Subscriptions* (`SubscriptionsProofs`). Marks and texts agree because a job only
works on rows that are started and that it has not marked (`JobsOnRows`), whatever
the other job and the admins do between its steps; texts are about started rows
(`TextsAboutStarted`), and a row that is still to be done was told at most once
per failure (`ToldByFaults`). Payments and subscriptions stay paired although no
reference joins them: of a submitted payment the count says that something of
its user and plan is pending, so every decision moves one row of each
(`DecidePairs`).

| theorem | property |
|---|---|
| `TypeCorrect` | `TypeOK` |
| `ExecutedOnce` | `EventExecutedOnce` |
| `NothingLeftPending` | `NoTradeLeftPending` |
| `AckedSettled` | `AckedIsSettled` |
| `TargetsProtected` | `TargetsBehindStop` |
| `CapHolds` | `CapRespected` |
| `OneTradeHolds` | `OneActiveTradePerSignal` |
| `Refinement` | `ImplementsTradeBook` |
| `LifecycleTypes` | `TypeOK` |
| `ClosesAreTrue` | `CloseIsTrue` |
| `StopsStay` | `StopStays` |
| `OpenTradesCovered` | `OpenTradeIsCovered` |
| `NobodyWaitsInACircle` | `NoLockCycle` |
| `Types` (demo engine) | `TypeOK` |
| `BalancesAgree` | `BalanceIsStartPlusClosed` |
| `OneTradePerSignal` | `OneOpenTradePerSignal` |
| `LossesAreCapped` | `LossIsCapped` |
| `LeverageIsOwn` | `LeverageIsTheUsers` |
| `CommitsAreTold` | (`CommittedIsTold`, a part of `ImplementsDemoBook`) |
| `RowsPrecedeEvents` | `EventHasItsRow` |
| `ResultsStand` | `ResultStands` |
| `Refinement` (demo engine) | `ImplementsDemoBook` |
| `TargetsStayBest` | `TargetsAreBest` |
| `SoundSignalsPass` | `SoundSignalPasses` |
| `PricesStayConservative` | `PricesAreConservative` |
| `PlansStayExecutable` | `PlanIsExecutable` |
| `DeliveryTypes` | `TypeOK` |
| `AcknowledgedWasHandled` | `AckedWasHandled` |
| `OneTextInDoubt` | `OneInDoubt` |
| `OrderIsKept` | `NothingOvertakes` |
| `SubscriptionTypes` | `TypeOK` |
| `TextsFollow` | `TextsFollowRows` |
| `DecisionsStand` | `DecisionIsFinal` |
| `PaymentsMatch` | `PaymentsMatchSubscriptions` |

Only model-checked: `RecordSettles`, `MissingTradeCloses`, `StopIsRepaired`,
`RecordIsAcknowledged`, `TextArrives`, `EndedExpires`. They are liveness properties,
which need fairness and ENABLED and are out of the prover's reach.

## 5. Not modelled

* Text: the regular expressions of the parser (its possible results are initial
  states of `SignalPlanning`), menus, wording, log lines, JSON.
* I/O: request signing, websocket sessions, HTTP calls to block explorers, the
  Telegram client of the ingestor.
* The precheck of a payment: its verdict is shown to the admin and decides
  nothing.
* Logins and sessions of the panel, hashing and encryption: short sequential code
  around cryptography.
* Settings and credentials in the bot, registration and language: single
  assignments, which the other modules read as they are at the moment.
* Results in USDT of real trades, statistics: sums that nothing depends on.
* Migrations, health endpoints, scripts run by hand. `shared/retry.py` and
  `shared/rate_limit.py` are used by no service.

## 6. Plan

Done: all modules of section 2 with their runs, and theorems for every safety
property the runs check. Left, in this order:

1. An abstract specification of a subscription (requested, running, ended) that
   `Subscriptions` implements, with the refinement proved.
2. The composition of the two halves of a trade: that every state in which
   `SignalExecution` commits an open trade is one of the initial states of
   `TradeLifecycle`, as a theorem rather than by the choice of constants.
