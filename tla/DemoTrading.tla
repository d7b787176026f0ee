---------------------------- MODULE DemoTrading ----------------------------
(***************************************************************************)
(* The arithmetic of a demo trade: its plan, what one mark price does to   *)
(* it, and its result (services/demo_engine/trade_logic.py and             *)
(* shared/signal/pnl.py).                                                  *)
(*                                                                         *)
(* Prices and amounts are integers and rates are per mille, scaled by the  *)
(* instance so that every division it meets is exact.  The code multiplies *)
(* margin, fraction of the position, relative move and leverage; here the  *)
(* quantity margin * leverage / entry is computed first, which gives the   *)
(* same amount.                                                            *)
(***************************************************************************)
EXTENDS Integers, Sequences, Summation

\* A price at or past a level, on the winning or on the losing side.
CrossesTakeProfit(side, price, target) ==
  IF side = "LONG" THEN price >= target ELSE price <= target
CrossesStopLoss(side, price, stop) ==
  IF side = "LONG" THEN price <= stop ELSE price >= stop
CrossesLiquidation(side, price, liq) ==
  IF side = "LONG" THEN price <= liq ELSE price >= liq

SignedMove(side, entry, price) ==
  IF side = "LONG" THEN price - entry ELSE entry - price

\* A level so many per mille of the entry away on the winning side.
Level(side, entry, perMille) ==
  LET move == (entry * perMille) \div 1000
  IN IF side = "LONG" THEN entry + move ELSE entry - move

\* Isolated margin is used up 1/leverage from the entry, and the exchange
\* closes the position the maintenance rate before that.
LiquidationPrice(side, entry, leverage, maintenance) ==
  LET move == entry \div leverage - (entry * maintenance) \div 1000
  IN IF side = "LONG" THEN entry - move ELSE entry + move

LossOnLiquidation(margin) == -margin

\* Model 3 leaves at a return on margin given in per cent.
Model3ExitPrice(side, entry, leverage, roiPct) ==
  Level(side, entry, (roiPct * 10) \div leverage)

\* The stop is at the entry once the first target was touched.
CurrentStopLoss(sig, touched, moveToEntry) ==
  IF moveToEntry /\ 1 \in touched THEN sig.entry ELSE sig.stop

-----------------------------------------------------------------------------
(* The plan.  The shares of the legs are those of the position quantity.    *)

\* The shares of n legs: alike in model 1, the first n weights in model 2.
Weights(model, n, weights) ==
  IF model = 1 THEN [i \in 1 .. n |-> 1] ELSE SubSeq(weights, 1, n)

\* The fractions are renormalised to the targets there are.
LegQuantities(qty, ws) ==
  LET total == Total(Len(ws), ws) IN [i \in 1 .. Len(ws) |-> (qty * ws[i]) \div total]

\* build_demo_open_plan raises: nothing is opened.
PlanIsRejected(sig, leverage, margin, model, weights) ==
  \/ sig.entry <= 0 \/ sig.stop <= 0 \/ leverage <= 0 \/ margin <= 0
  \/ model \notin {1, 2, 3}
  \/ model \in {1, 2} /\ sig.targets = <<>>
  \/ model = 2 /\ Len(sig.targets) > Len(weights)

DemoPlan(sig, leverage, margin, model, weights, maintenance) ==
  LET qty == (margin * leverage) \div sig.entry IN
    [qty |-> qty,
     legs |-> IF model = 3 THEN <<>>
              ELSE LegQuantities(qty, Weights(model, Len(sig.targets), weights)),
     liq |-> LiquidationPrice(sig.side, sig.entry, leverage, maintenance)]

-----------------------------------------------------------------------------
(* One mark price.  A decision says whether the trade closes, why and with  *)
(* what result, and which legs are filled afterwards.                       *)

StaysOpen(filled) == [close |-> FALSE, reason |-> "none", pnl |-> 0, filled |-> filled]
Closes(reason, pnl, filled) ==
  [close |-> TRUE, reason |-> reason, pnl |-> pnl, filled |-> filled]

\* The result of the whole position closed at one price.
WholePnl(sig, qty, price) == qty * SignedMove(sig.side, sig.entry, price)

\* The filled legs leave at their targets, the others at the exit price.
BlendedPnl(sig, legs, filled, exit) ==
  Total(Len(legs),
        [i \in 1 .. Len(legs) |->
           WholePnl(sig, legs[i], IF i \in filled THEN sig.targets[i] ELSE exit)])

\* Mutant: a reason the rows do not know.
StopReasonInWords(sig, stop) == IF stop = sig.entry THEN "break_even" ELSE "sl"

StopReason(sig, stop) == IF stop = sig.entry THEN "be" ELSE "sl"

\* Model 3: out at the return asked for, or at the stop.
EvaluateWhole(sig, t, price, roiPct, moveToEntry) ==
  LET exit == Model3ExitPrice(sig.side, sig.entry, t.leverage, roiPct)
      stop == CurrentStopLoss(sig, t.filled, moveToEntry)
  IN IF CrossesTakeProfit(sig.side, price, exit)
     THEN Closes("model3_exit", WholePnl(sig, t.qty, exit), t.filled)
     ELSE IF CrossesStopLoss(sig.side, price, stop)
     THEN Closes(StopReason(sig, stop), WholePnl(sig, t.qty, stop), t.filled)
     ELSE StaysOpen(t.filled)

\* Mutant: only what this price reaches counts.
ReachedNow(t, reached) == reached

\* A target once touched stays touched.
FilledAfter(t, reached) == t.filled \cup reached

\* Models 1 and 2: fill the legs the price has reached, then look at the stop
\* that holds after those fills.
EvaluateLegs(sig, t, price, moveToEntry) ==
  LET reached == {i \in 1 .. Len(t.legs) :
                    CrossesTakeProfit(sig.side, price, sig.targets[i])}
      filled == FilledAfter(t, reached)
      stop == CurrentStopLoss(sig, filled, moveToEntry)
  IN IF 1 .. Len(t.legs) \subseteq filled
     THEN Closes("all_tp", BlendedPnl(sig, t.legs, filled, stop), filled)
     ELSE IF CrossesStopLoss(sig.side, price, stop)
     THEN Closes(StopReason(sig, stop), BlendedPnl(sig, t.legs, filled, stop), filled)
     ELSE StaysOpen(filled)

\* Mutant: the stop and the legs are looked at first.
EvaluateStopFirst(sig, t, price, roiPct, moveToEntry) ==
  LET d == IF t.legs = <<>>
           THEN EvaluateWhole(sig, t, price, roiPct, moveToEntry)
           ELSE EvaluateLegs(sig, t, price, moveToEntry)
  IN IF ~ d.close /\ CrossesLiquidation(sig.side, price, t.liq)
     THEN Closes("liquidation", LossOnLiquidation(t.margin), t.filled)
     ELSE d

\* Liquidation comes first, whatever the stop and the legs say.
EvaluatePriceTick(sig, t, price, roiPct, moveToEntry) ==
  IF CrossesLiquidation(sig.side, price, t.liq)
  THEN Closes("liquidation", LossOnLiquidation(t.margin), t.filled)
  ELSE IF t.legs = <<>>
       THEN EvaluateWhole(sig, t, price, roiPct, moveToEntry)
       ELSE EvaluateLegs(sig, t, price, moveToEntry)
=============================================================================
