----------------------------- MODULE DemoEngine -----------------------------
(***************************************************************************)
(* The demo engine (services/demo_engine) behind the signal ingestor: it   *)
(* opens a virtual trade of every demo account for every signal, and       *)
(* follows the mark prices until the trade closes.  Customers open and     *)
(* reset their demo in the telegram bot, another process.                  *)
(*                                                                         *)
(* The process runs two tasks in one event loop, each with a session per   *)
(* record or per price: the opener, which consumes the signals stream, and *)
(* the ticker.  A session is open across the awaits of the handler, so the *)
(* ticker works with the rows and accounts it read when its price came.    *)
(* What a session wrote is not seen by others before its commit; the rows  *)
(* it updated are locked until then.  Messages on the bus are not taken    *)
(* back when a session rolls back.                                         *)
(***************************************************************************)
EXTENDS SignalIngest, DemoTrading

CONSTANTS
  Users,           \* user ids, in the order of the accounts
  SignalOf,        \* [Messages -> [symbol, side, entry, stop, leverage, targets]]:
                   \* what the row of an accepted signal holds
  InitialAccounts, \* users who have a demo account from the start
  RiskModels,      \* the models a user may choose
  InitialModels,   \* user_settings.risk_model to begin with
  LeverageCap,     \* user_settings.leverage_cap, 0 for none
  Margin, StartBalance, Model2Weights, Model3Roi, Maintenance, MoveToEntry,
  Prices,          \* mark prices that are reported
  MaxTrades,       \* bound: ids given to demo trades
  MaxResets,       \* bound: resets and changes of the risk model in the bot
  MaxFaults        \* bound: failing publishings and deaths of the engine

ASSUME DemoConstants ==
  /\ Users \subseteq Nat /\ InitialAccounts \subseteq Users
  /\ RiskModels \subseteq 1 .. 3 /\ InitialModels \in [Users -> RiskModels]
  /\ LeverageCap \in [Users -> Nat]
  /\ Margin \in Nat \ {0} /\ StartBalance \in Nat
  /\ Model2Weights \in Seq(Nat \ {0}) /\ Model3Roi \in Nat \ {0}
  /\ Maintenance \in Nat
  /\ MoveToEntry \in BOOLEAN /\ Prices \subseteq Nat
  /\ MaxTrades \in Nat /\ MaxResets \in Nat /\ MaxFaults \in Nat

\* sanitize_signal lets no other signal through: the stop is on the losing side
\* of the entry, the targets are on the winning side.
ASSUME SignalsAreSanitized ==
  \A m \in Messages :
    LET sig == SignalOf[m] IN
      /\ sig.side \in {"LONG", "SHORT"}
      /\ sig.entry \in Nat /\ sig.stop \in Nat /\ sig.leverage \in Nat
      /\ sig.targets \in Seq(Nat)
      /\ SignedMove(sig.side, sig.entry, sig.stop) < 0
      /\ \A i \in 1 .. Len(sig.targets) :
           SignedMove(sig.side, sig.entry, sig.targets[i]) > 0

Symbols == {SignalOf[m].symbol : m \in Messages}
Ids == 1 .. MaxTrades

\* A row of demo_trades with its legs: the quantities of the legs, those that
\* are filled; the others are open, or cancelled once the trade is closed.
\* The margin and the liquidation price are those of the opening.
Rows ==
  [user : Users, signal : Messages, leverage : Nat, margin : Nat, qty : Nat,
   liq : Int, legs : Seq(Nat), filled : SUBSET Nat,
   status : {"open", "closed"}, reason : {"none", "liquidation", "model3_exit",
   "all_tp", "be", "sl"}, pnl : Int]

VARIABLES
  accounts, balance, \* demo_accounts: users who have one, its balance
  model,             \* user_settings.risk_model
  trades,            \* demo_trades: a function from ids to rows
  nextId,            \* the sequence of their ids
  delivered, pending,\* the consumer group: last record given out, unacknowledged
  fresh, batch,      \* consumer: reads new records next; records in hand
  oPc, oTodo, oLev, oNew,
                     \* opener: step, accounts left, leverage of the signal
                     \* object, rows it inserted
  subscribed,        \* symbols of the mark-price stream
  tPc, tTodo, tPrice, tRow, tBalance, tWrote, tPaid,
                     \* ticker: step, ids left, price, rows and balances as
                     \* read, rows and accounts it updated
  told,              \* demo.opened / demo.closed on the bus with the user's message
  resets, faults

botVars == <<accounts, balance, model, trades, resets>>
groupVars == <<delivered, pending, fresh, batch>>
openerVars == <<oPc, oTodo, oLev, oNew, nextId>>
tickerVars == <<subscribed, tPc, tTodo, tPrice, tRow, tBalance, tWrote, tPaid>>
vars == <<ingestVars, botVars, groupVars, openerVars, tickerVars, told, faults>>

NoRows == [i \in {} |-> i]
NoBalance == [u \in Users |-> StartBalance]

\* Records, accounts and trades are taken in increasing order.
Least(S) == CHOOSE x \in S : \A y \in S : x <= y

\* The rows of f over those of g.
Over(f, g) ==
  [i \in DOMAIN f \cup DOMAIN g |-> IF i \in DOMAIN f THEN f[i] ELSE g[i]]
Put(i, row, g) == Over([j \in {i} |-> row], g)
OpenIds(sym) == {i \in DOMAIN trades :
                   trades[i].status = "open" /\ SignalOf[trades[i].signal].symbol = sym}

TypeOK ==
  /\ IngestTypeOK
  /\ accounts \subseteq Users
  /\ balance \in [Users -> Int]
  /\ model \in [Users -> RiskModels]
  /\ DOMAIN trades \subseteq Ids /\ \A i \in DOMAIN trades : trades[i] \in Rows
  /\ nextId \in 1 .. MaxTrades + 1
  /\ delivered \in 0 .. Len(stream) /\ pending \subseteq 1 .. delivered
  /\ fresh \in BOOLEAN /\ batch \subseteq pending
  /\ oPc \in {"read", "next", "user", "announce", "ack"}
  /\ oTodo \subseteq Users
  /\ DOMAIN oNew \subseteq Ids /\ \A i \in DOMAIN oNew : oNew[i] \in Rows
  /\ subscribed \subseteq Symbols
  /\ tPc \in {"idle", "trade", "announce"}
  /\ tTodo \subseteq Ids /\ DOMAIN tWrote \subseteq DOMAIN tRow
  /\ told \subseteq {"opened", "closed"} \X Ids
  /\ faults \in 0 .. MaxFaults

Init ==
  /\ IngestInit
  /\ accounts = InitialAccounts
  /\ balance = [u \in Users |-> StartBalance]
  /\ model = InitialModels
  /\ trades = NoRows /\ nextId = 1
  /\ delivered = 0 /\ pending = {} /\ fresh = FALSE /\ batch = {}
  /\ oPc = "read" /\ oTodo = {} /\ oLev = 0 /\ oNew = NoRows
  /\ subscribed = {}
  /\ tPc = "idle" /\ tTodo = {} /\ tPrice = 0 /\ tRow = NoRows
  /\ tBalance = NoBalance /\ tWrote = NoRows /\ tPaid = {}
  /\ told = {}
  /\ resets = 0 /\ faults = 0

\* The loop is in neither task's synchronous code.
OpenerMaySwitch == oPc # "user"
TickerMaySwitch == tPc # "trade"

-----------------------------------------------------------------------------
(* The opener.                                                              *)

\* _read_signal_records: pending and new records in turn.
ReadPending ==
  /\ oPc = "read" /\ ~ fresh /\ TickerMaySwitch
  /\ batch' = pending
  /\ fresh' = TRUE
  /\ oPc' = "next"
  /\ UNCHANGED <<delivered, pending, oTodo, oLev, oNew, nextId>>

\* Mutant: pending records are read at the start only.
FreshForEver ==
  /\ oPc = "read" /\ fresh /\ TickerMaySwitch
  /\ batch' = delivered + 1 .. Len(stream)
  /\ pending' = pending \cup (delivered + 1 .. Len(stream))
  /\ delivered' = Len(stream)
  /\ fresh' = TRUE
  /\ oPc' = "next"
  /\ UNCHANGED <<oTodo, oLev, oNew, nextId>>

ReadFresh ==
  /\ oPc = "read" /\ fresh /\ TickerMaySwitch
  /\ batch' = delivered + 1 .. Len(stream)
  /\ pending' = pending \cup (delivered + 1 .. Len(stream))
  /\ delivered' = Len(stream)
  /\ fresh' = FALSE
  /\ oPc' = "next"
  /\ UNCHANGED <<oTodo, oLev, oNew, nextId>>

BatchDone ==
  /\ oPc = "next" /\ batch = {} /\ TickerMaySwitch
  /\ oPc' = "read"
  /\ UNCHANGED <<groupVars, oTodo, oLev, oNew, nextId>>

Record == stream[Least(batch)]
SignalInHand == Record.signal

\* Acknowledged without a session: a record of another type.
SkipRecord ==
  /\ oPc = "next" /\ batch # {} /\ TickerMaySwitch
  /\ Record.type # "signal.created"
  /\ oPc' = "ack"
  /\ UNCHANGED <<groupVars, oTodo, oLev, oNew, nextId>>

\* handle_signal_created up to the accounts.  Without the signal's row the
\* record stays pending; without accounts there is nothing to open.
StartRecord ==
  /\ oPc = "next" /\ batch # {} /\ TickerMaySwitch
  /\ Record.type = "signal.created"
  /\ IF signalRow[SignalInHand] = "none"
     THEN /\ batch' = batch \ {Least(batch)} /\ oPc' = "next"
          /\ UNCHANGED <<oTodo, oLev>>
     ELSE /\ oTodo' = IF signalRow[SignalInHand] = "accepted" THEN accounts ELSE {}
          /\ oLev' = SignalOf[SignalInHand].leverage
          /\ oPc' = "user"
          /\ UNCHANGED batch
  /\ oNew' = NoRows
  /\ UNCHANGED <<delivered, pending, fresh, nextId>>

\* Mutant: the guard is dropped.
NeverOpen(u, s) == FALSE

\* Only an open trade counts as a duplicate, of the session or committed.
HasOpenTrade(u, s) ==
  \E i \in DOMAIN trades :
    trades[i].user = u /\ trades[i].signal = s /\ trades[i].status = "open"

EffectiveLeverage(lev, u) ==
  IF LeverageCap[u] = 0 \/ lev <= LeverageCap[u] THEN lev ELSE LeverageCap[u]

\* The scale of the amounts, see DemoTrading: no quantity is rounded.
ASSUME ScaleIsExact ==
  \A m \in Messages, u \in Users, r \in RiskModels :
    LET sig == SignalOf[m]
        lev == EffectiveLeverage(sig.leverage, u)
        plan == DemoPlan(sig, lev, Margin, r, Model2Weights, Maintenance)
        weights == Weights(r, Len(sig.targets), Model2Weights)
    IN ~ PlanIsRejected(sig, lev, Margin, r, Model2Weights) =>
         /\ plan.qty * sig.entry = Margin * lev
         /\ \A i \in 1 .. Len(plan.legs) :
              plan.legs[i] * Total(Len(weights), weights) = plan.qty * weights[i]

PlanFails(u) ==
  PlanIsRejected(SignalOf[SignalInHand], EffectiveLeverage(oLev, u), Margin, model[u],
                 Model2Weights)

\* Mutant: the object keeps the leverage of the last user.
LeverageKept(lev, u) == EffectiveLeverage(lev, u)

\* The session's signal object carries the user's leverage while the row is
\* written, and the signal's own again afterwards.
LeverageAfterCreate(lev, u) == lev

NewRow(u) ==
  LET sig == SignalOf[SignalInHand]
      lev == EffectiveLeverage(oLev, u)
      plan == DemoPlan(sig, lev, Margin, model[u], Model2Weights, Maintenance)
  IN [user |-> u, signal |-> SignalInHand, leverage |-> lev, margin |-> Margin,
      qty |-> plan.qty, liq |-> plan.liq, legs |-> plan.legs, filled |-> {},
      status |-> "open", reason |-> "none", pnl |-> 0]

SkipUser ==
  /\ oPc = "user" /\ oTodo # {} /\ TickerMaySwitch
  /\ HasOpenTrade(Least(oTodo), SignalInHand) \/ PlanFails(Least(oTodo))
  /\ oTodo' = oTodo \ {Least(oTodo)}
  /\ UNCHANGED <<groupVars, oPc, oLev, oNew, nextId>>

OpenForUser ==
  /\ oPc = "user" /\ oTodo # {} /\ TickerMaySwitch
  /\ LET u == Least(oTodo) IN
       /\ ~ HasOpenTrade(u, SignalInHand)
       /\ ~ PlanFails(u)
       /\ nextId <= MaxTrades
       /\ oNew' = Put(nextId, NewRow(u), oNew)
       /\ oLev' = LeverageAfterCreate(oLev, u)
  /\ nextId' = nextId + 1
  /\ oPc' = "announce"
  /\ UNCHANGED <<groupVars, oTodo>>

\* demo.opened and notify.user are on the bus.
AnnounceOpened ==
  /\ oPc = "announce" /\ TickerMaySwitch
  /\ told' = told \cup {<<"opened", nextId - 1>>}
  /\ oTodo' = oTodo \ {Least(oTodo)}
  /\ oPc' = "user"
  /\ UNCHANGED <<groupVars, oLev, oNew, nextId>>

\* A failing XADD: the session rolls back and the record stays pending.
OpenFails ==
  /\ oPc = "announce" /\ TickerMaySwitch
  /\ faults < MaxFaults /\ faults' = faults + 1
  /\ batch' = batch \ {Least(batch)}
  /\ oPc' = "next"
  /\ oTodo' = {} /\ oNew' = NoRows /\ oLev' = 0
  /\ UNCHANGED <<delivered, pending, fresh, nextId>>

CommitOpened ==
  /\ oPc = "user" /\ oTodo = {} /\ TickerMaySwitch
  /\ trades' = Over(oNew, trades)
  /\ oNew' = NoRows /\ oLev' = 0
  /\ oPc' = "ack"
  /\ UNCHANGED <<groupVars, oTodo, nextId>>

Acknowledge ==
  /\ oPc = "ack" /\ TickerMaySwitch
  /\ pending' = pending \ {Least(batch)}
  /\ batch' = batch \ {Least(batch)}
  /\ oPc' = "next"
  /\ UNCHANGED <<delivered, fresh, oTodo, oLev, oNew, nextId>>

OpenerNext ==
  \/ /\ \/ ReadPending \/ ReadFresh \/ BatchDone \/ SkipRecord \/ StartRecord
        \/ SkipUser \/ OpenForUser \/ Acknowledge
     /\ UNCHANGED <<ingestVars, botVars, tickerVars, told, faults>>
  \/ AnnounceOpened /\ UNCHANGED <<ingestVars, botVars, tickerVars, faults>>
  \/ OpenFails /\ UNCHANGED <<ingestVars, botVars, tickerVars, told>>
  \/ CommitOpened
     /\ UNCHANGED <<ingestVars, accounts, balance, model, resets, tickerVars,
                    told, faults>>

-----------------------------------------------------------------------------
(* The ticker.                                                              *)

OpenSymbols == {s \in Symbols : OpenIds(s) # {}}

\* _track_prices subscribes to the symbols that have an open trade, and again
\* when they have changed.
Subscribe ==
  /\ tPc = "idle" /\ OpenerMaySwitch
  /\ subscribed # OpenSymbols
  /\ subscribed' = OpenSymbols
  /\ UNCHANGED <<tPc, tTodo, tPrice, tRow, tBalance, tWrote, tPaid>>

\* A mark price comes in: read the open trades of the symbol and the accounts.
ReceivePrice(sym, price) ==
  /\ tPc = "idle" /\ OpenerMaySwitch
  /\ sym \in subscribed /\ OpenIds(sym) # {}
  /\ tTodo' = OpenIds(sym)
  /\ tRow' = [i \in OpenIds(sym) |-> trades[i]]
  /\ tBalance' = balance
  /\ tPrice' = price
  /\ tPc' = "trade"
  /\ UNCHANGED <<subscribed, tWrote, tPaid>>

Decision(row) ==
  EvaluatePriceTick(SignalOf[row.signal], row, tPrice, Model3Roi, MoveToEntry)

AfterTick(row) ==
  LET d == Decision(row) IN
    [row EXCEPT !.filled = d.filled, !.reason = d.reason, !.pnl = d.pnl,
                !.status = IF d.close THEN "closed" ELSE "open"]

Finished ==
  /\ tTodo' = {} /\ tRow' = NoRows /\ tWrote' = NoRows /\ tPaid' = {}
  /\ tPrice' = 0 /\ tBalance' = NoBalance /\ tPc' = "idle"
  /\ UNCHANGED subscribed

\* Mutant: the row is written again.
RowComesBack(i) == FALSE

\* An UPDATE that finds no row raises: somebody deleted it.
RowIsGone(i) == i \notin DOMAIN trades

LeaveTrade ==
  /\ tPc = "trade" /\ tTodo # {}
  /\ AfterTick(tRow[Least(tTodo)]) = tRow[Least(tTodo)]
  /\ tTodo' = tTodo \ {Least(tTodo)}
  /\ UNCHANGED <<subscribed, tPc, tPrice, tRow, tBalance, tWrote, tPaid>>

\* mark_demo_legs_filled and close_demo_trade: the account gets the result.
ApplyDecision ==
  /\ tPc = "trade" /\ tTodo # {}
  /\ LET i == Least(tTodo)
         row == AfterTick(tRow[i])
         closed == row.status = "closed"
     IN /\ row # tRow[i]
        /\ ~ RowIsGone(i)
        /\ tWrote' = Put(i, row, tWrote)
        /\ tBalance' = IF closed THEN [tBalance EXCEPT ![row.user] = @ + row.pnl] ELSE tBalance
        /\ tPaid' = IF closed THEN tPaid \cup {row.user} ELSE tPaid
        /\ tPc' = IF closed THEN "announce" ELSE "trade"
        /\ tTodo' = IF closed THEN tTodo ELSE tTodo \ {Least(tTodo)}
  /\ UNCHANGED <<subscribed, tPrice, tRow>>

StaleTick ==
  /\ tPc = "trade" /\ tTodo # {}
  /\ AfterTick(tRow[Least(tTodo)]) # tRow[Least(tTodo)]
  /\ RowIsGone(Least(tTodo))
  /\ Finished
  /\ UNCHANGED balance

\* Mutant: a close goes out as an opening.
AnnounceAgain ==
  /\ tPc = "announce" /\ OpenerMaySwitch
  /\ told' = told \cup {<<"opened", Least(tTodo)>>}
  /\ tTodo' = tTodo \ {Least(tTodo)}
  /\ tPc' = "trade"
  /\ UNCHANGED <<subscribed, tPrice, tRow, tBalance, tWrote, tPaid>>

\* demo.closed and notify.user are on the bus.
AnnounceClosed ==
  /\ tPc = "announce" /\ OpenerMaySwitch
  /\ told' = told \cup {<<"closed", Least(tTodo)>>}
  /\ tTodo' = tTodo \ {Least(tTodo)}
  /\ tPc' = "trade"
  /\ UNCHANGED <<subscribed, tPrice, tRow, tBalance, tWrote, tPaid>>

\* A failing XADD rolls the whole price back, the trades closed before it too.
CloseFails ==
  /\ tPc = "announce" /\ OpenerMaySwitch
  /\ faults < MaxFaults /\ faults' = faults + 1
  /\ Finished
  /\ UNCHANGED balance

CommitTick ==
  /\ tPc = "trade" /\ tTodo = {}
  /\ trades' = Over(tWrote, trades)
  /\ balance' = [u \in Users |-> IF u \in tPaid THEN tBalance[u] ELSE balance[u]]
  /\ Finished

TickerNext ==
  \/ /\ \/ Subscribe \/ LeaveTrade \/ ApplyDecision
        \/ \E sym \in Symbols, price \in Prices : ReceivePrice(sym, price)
     /\ UNCHANGED <<ingestVars, botVars, groupVars, openerVars, told, faults>>
  \/ StaleTick
     /\ UNCHANGED <<ingestVars, accounts, model, trades, resets, groupVars,
                    openerVars, told, faults>>
  \/ AnnounceClosed /\ UNCHANGED <<ingestVars, botVars, groupVars, openerVars, faults>>
  \/ CloseFails
     /\ UNCHANGED <<ingestVars, accounts, model, trades, resets, groupVars,
                    openerVars, told>>
  \/ CommitTick
     /\ UNCHANGED <<ingestVars, accounts, model, resets, groupVars,
                    openerVars, told, faults>>

-----------------------------------------------------------------------------
(* The bot, and the death of the engine's process.                          *)

\* handle_demo: the first look at the demo creates the account.
OpenDemo(u) ==
  /\ u \notin accounts
  /\ accounts' = accounts \cup {u}
  /\ balance' = [balance EXCEPT ![u] = StartBalance]
  /\ UNCHANGED <<model, trades, resets>>

\* reset_demo_for_user deletes the trades of a user and sets the balance back.
\* It waits for the rows the ticker has locked.
ResetDemo(u) ==
  /\ resets < MaxResets /\ resets' = resets + 1
  /\ u \in accounts
  /\ \A i \in DOMAIN tWrote : tWrote[i].user # u
  /\ trades' = [i \in {j \in DOMAIN trades : trades[j].user # u} |-> trades[i]]
  /\ balance' = [balance EXCEPT ![u] = StartBalance]
  /\ UNCHANGED <<accounts, model>>

ChangeRiskModel(u, m) ==
  /\ resets < MaxResets /\ resets' = resets + 1
  /\ m # model[u]
  /\ model' = [model EXCEPT ![u] = m]
  /\ UNCHANGED <<accounts, balance, trades>>

Crash ==
  /\ faults < MaxFaults /\ faults' = faults + 1
  /\ oPc' = "read" /\ fresh' = FALSE /\ batch' = {}
  /\ oTodo' = {} /\ oNew' = NoRows /\ oLev' = 0
  /\ Finished
  /\ UNCHANGED <<ingestVars, botVars, delivered, pending, nextId, told>>

OutsideNext ==
  \/ /\ IngestNext
     /\ UNCHANGED <<botVars, groupVars, openerVars, tickerVars, told, faults>>
  \/ /\ \E u \in Users : OpenDemo(u) \/ ResetDemo(u) \/ \E m \in RiskModels : ChangeRiskModel(u, m)
     /\ UNCHANGED <<ingestVars, groupVars, openerVars, tickerVars, told, faults>>
  \/ Crash

Next == OpenerNext \/ TickerNext \/ OutsideNext
Spec == Init /\ [][Next]_vars

\* The event loop takes its ready tasks in turn, so neither keeps the other
\* from running for ever.
FairSpec == Spec /\ SF_vars(OpenerNext) /\ WF_vars(TickerNext)

-----------------------------------------------------------------------------
(* Properties.                                                              *)

Closed == {i \in DOMAIN trades : trades[i].status = "closed"}
ClosedOf(u) == {i \in Closed : trades[i].user = u}
ResultsOf(u) ==
  Total(MaxTrades, [i \in Ids |-> IF i \in ClosedOf(u) THEN trades[i].pnl ELSE 0])

\* The balance of an account is its start plus the results of the closed
\* trades that are still on record, whatever the ticker, a rollback, a crash
\* and a reset in the bot do to each other: no result is booked twice, lost,
\* or left behind by a reset.
BalanceIsStartPlusClosed ==
  \A u \in accounts : balance[u] = StartBalance + ResultsOf(u)

\* has_open_demo_trade: one open demo trade per user per signal, also when the
\* record is delivered again while its first trades are open.
OneOpenTradePerSignal ==
  \A i, j \in DOMAIN trades :
    /\ trades[i].status = "open" /\ trades[j].status = "open"
    /\ trades[i].user = trades[j].user /\ trades[i].signal = trades[j].signal
    => i = j

\* A demo trade never loses more than its margin, and where the stop moves to
\* the entry one that took its first target never loses at all unless it is
\* liquidated: the liquidation price is looked at before the stop, and the stop
\* is moved before it is looked at.
LossIsCapped ==
  \A i \in Closed :
    LET t == trades[i] IN
      /\ t.pnl >= -t.margin
      /\ MoveToEntry /\ 1 \in t.filled /\ t.reason # "liquidation" => t.pnl > 0

\* The position of every trade is as large as the leverage of its signal, or
\* the user's cap, allows: the cap of one user does not leak into the trade of
\* the next through the signal object they share.
LeverageIsTheUsers ==
  \A i \in DOMAIN trades :
    LET t == trades[i] IN
      /\ t.leverage = EffectiveLeverage(SignalOf[t.signal].leverage, t.user)
      /\ t.qty * SignalOf[t.signal].entry = t.margin * t.leverage

\* No trade is opened or closed silently: what is committed was put on the bus
\* with the user's message.
CommittedIsTold ==
  /\ \A i \in DOMAIN trades : <<"opened", i>> \in told
  /\ \A i \in Closed : <<"closed", i>> \in told

\* A result stands until the user resets the demo, and a target once touched
\* stays touched.
ResultStands ==
  [][\A i \in DOMAIN trades \cap DOMAIN trades' :
       /\ trades[i].status = "closed" => trades'[i] = trades[i]
       /\ trades[i].filled \subseteq trades'[i].filled]_vars

\* The entries of the abstract book that rows stand for: an open trade has no
\* result yet, whatever its legs have come to.
Entries(rows) ==
  [i \in DOMAIN rows |->
     [user |-> rows[i].user, signal |-> rows[i].signal,
      margin |-> rows[i].margin, status |-> rows[i].status,
      pnl |-> IF rows[i].status = "closed" THEN rows[i].pnl ELSE 0]]

Book == INSTANCE DemoBook WITH book <- Entries(trades)

\* The engine and the bot together keep the promises of DemoBook: the trades of
\* a signal appear together, the results of a price with their payment, a reset
\* takes trades and results at once, and each was announced before.
ImplementsDemoBook == Book!Spec

\* Every record of the stream is acknowledged in the end: failing publishings
\* and crashes leave it pending, and pending records are read again.
RecordIsAcknowledged ==
  \A i \in 1 .. Cardinality(Messages) :
    i \in DOMAIN stream ~> i \in 1 .. delivered /\ i \notin pending
=============================================================================
