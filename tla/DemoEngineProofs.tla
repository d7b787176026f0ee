-------------------------- MODULE DemoEngineProofs --------------------------
(***************************************************************************)
(* Proofs about DemoEngine, for every number of messages, users, prices,   *)
(* trades, resets and faults, and about the arithmetic of DemoTrading and  *)
(* the ingestor of SignalIngest that it extends.                           *)
(***************************************************************************)
EXTENDS DemoEngine, SummationProofs

-----------------------------------------------------------------------------
(* The rows.                                                                *)

\* A row has the size of its leverage, and the liquidation price and the legs
\* that go with it.
Sized(row) ==
  LET sig == SignalOf[row.signal] IN
    /\ sig.entry > 0 /\ row.leverage > 0 /\ row.margin = Margin
    /\ row.leverage = EffectiveLeverage(sig.leverage, row.user)
    /\ row.qty * sig.entry = row.margin * row.leverage
    /\ row.liq = LiquidationPrice(sig.side, sig.entry, row.leverage, Maintenance)
    /\ Len(row.legs) \in {0, Len(sig.targets)}
    /\ \A i \in 1 .. Len(row.legs) : row.legs[i] > 0
    /\ Total(Len(row.legs), row.legs) <= row.qty
    /\ row.filled \subseteq 1 .. Len(row.legs)

\* The result of a closed row is within its bounds.
Bounded(row) ==
  row.status = "closed" =>
    /\ row.pnl >= - row.margin
    /\ MoveToEntry /\ 1 \in row.filled /\ row.reason # "liquidation" => row.pnl > 0

Sound(row) == row \in Rows /\ Sized(row) /\ Bounded(row)

LEMMA SignalType ==
  ASSUME NEW m \in Messages
  PROVE  /\ SignalOf[m].side \in {"LONG", "SHORT"}
         /\ SignalOf[m].entry \in Nat /\ SignalOf[m].stop \in Nat
         /\ SignalOf[m].leverage \in Nat
         /\ SignalOf[m].targets \in Seq(Nat)
         /\ SignedMove(SignalOf[m].side, SignalOf[m].entry, SignalOf[m].stop) < 0
         /\ \A i \in 1 .. Len(SignalOf[m].targets) :
              SignedMove(SignalOf[m].side, SignalOf[m].entry, SignalOf[m].targets[i]) > 0
BY SignalsAreSanitized

LEMMA CancelFactor ==
  ASSUME NEW a \in Int, NEW b \in Int, NEW c \in Int, c > 0, a * c <= b * c
  PROVE  a <= b
OBVIOUS

LEMMA QuotientIsNat ==
  ASSUME NEW a \in Nat, NEW b \in Int, b > 0
  PROVE  a \div b \in Nat
OBVIOUS

LEMMA WeightsType ==
  ASSUME NEW r \in {1, 2}, NEW n \in Nat \ {0}, r = 2 => n <= Len(Model2Weights)
  PROVE  /\ Weights(r, n, Model2Weights) \in Seq(Nat \ {0})
         /\ Len(Weights(r, n, Model2Weights)) = n
<1>1. CASE r = 1
  <2> DEFINE ones == [i \in 1 .. n |-> 1]
  <2>1. ones \in [1 .. n -> Nat \ {0}]
    OBVIOUS
  <2>2. ones \in Seq(Nat \ {0}) /\ Len(ones) = n
    BY <2>1
  <2> QED
    BY <1>1, <2>2 DEF Weights
<1>2. CASE r = 2
  <2>1. Model2Weights \in Seq(Nat \ {0}) /\ n <= Len(Model2Weights)
    BY <1>2, DemoConstants
  <2>2. /\ SubSeq(Model2Weights, 1, n) \in Seq(Nat \ {0})
        /\ Len(SubSeq(Model2Weights, 1, n)) = n
    BY <2>1
  <2> QED
    BY <1>2, <2>2 DEF Weights
<1> QED
  BY <1>1, <1>2

\* The legs of a plan are positive and their quantities add up to the position.
LEMMA LegsAddUp ==
  ASSUME NEW ws \in Seq(Nat \ {0}), Len(ws) > 0, NEW qty \in Nat, qty > 0,
         NEW legs, legs = LegQuantities(qty, ws),
         \A i \in 1 .. Len(legs) : legs[i] * Total(Len(ws), ws) = qty * ws[i]
  PROVE  /\ legs \in Seq(Nat) /\ Len(legs) = Len(ws)
         /\ \A i \in 1 .. Len(legs) : legs[i] > 0
         /\ Total(Len(legs), legs) = qty
<1> DEFINE n == Len(ws)
           T == Total(n, ws)
<1>1. n \in Nat \ {0} /\ \A i \in 1 .. n : ws[i] \in Nat \ {0}
  OBVIOUS
<1>2. T \in Int /\ T > 0
  <2>1. \A k \in 1 .. n : ws[k] \in Int /\ ws[k] >= 0
    BY <1>1
  <2>2. 1 \in 1 .. n /\ ws[1] > 0
    BY <1>1
  <2> HIDE DEF n
  <2> QED
    BY <1>1, <2>1, <2>2, TotalType, TotalPositive
<1>3. legs = [i \in 1 .. n |-> (qty * ws[i]) \div T]
  BY DEF LegQuantities
<1>4. qty \in Int /\ n \in Nat /\ \A i \in 1 .. n : qty * ws[i] \in Nat
  BY <1>1
<1> HIDE DEF T, n
<1>5. \A i \in 1 .. n : (qty * ws[i]) \div T \in Nat
  BY <1>2, <1>4, QuotientIsNat, Zenon
<1>6. legs \in Seq(Nat) /\ Len(legs) = n
  BY <1>3, <1>4, <1>5
<1>7. ASSUME NEW i \in 1 .. n
      PROVE  legs[i] \in Nat /\ legs[i] * T = qty * ws[i] /\ legs[i] > 0
  <2>1. legs[i] \in Nat /\ legs[i] * T = qty * ws[i]
    BY <1>6 DEF T, n
  <2>2. qty * ws[i] > 0
    BY <1>1
  <2>3. legs[i] # 0
    BY <1>2, <2>1, <2>2
  <2> QED
    BY <2>1, <2>3
<1> DEFINE scaled == [i \in 1 .. n |-> qty * ws[i]]
<1>8. Total(n, scaled) = qty * T
  <2>1. \A k \in 1 .. n : ws[k] \in Int /\ scaled[k] = qty * ws[k]
    BY <1>1
  <2> HIDE DEF scaled
  <2> QED
    BY <1>4, <2>1, TotalScale, Zenon DEF T
<1>9. Total(n, scaled) = T * Total(n, legs)
  <2>1. \A k \in 1 .. n : legs[k] \in Int /\ scaled[k] = T * legs[k]
    BY <1>2, <1>7
  <2> HIDE DEF scaled
  <2> QED
    BY <1>2, <1>4, <2>1, TotalScale
<1>10. Total(n, legs) \in Int
  BY <1>4, <1>7, TotalType
<1>11. Total(n, legs) = qty
  <2>1. Total(n, legs) * T = qty * T
    BY <1>2, <1>8, <1>9, <1>10
  <2> QED
    BY <1>2, <1>10, <2>1, CancelFactor
<1> QED
  BY <1>6, <1>7, <1>11 DEF n

LEMMA EffectiveType ==
  ASSUME NEW m \in Messages, NEW u \in Users
  PROVE  EffectiveLeverage(SignalOf[m].leverage, u) \in Nat
BY SignalType, DemoConstants DEF EffectiveLeverage

LEMMA PerMilleType ==
  ASSUME NEW a \in Nat, NEW b \in Nat
  PROVE  (a * b) \div 1000 \in Nat
<1> DEFINE c == a * b
<1>1. c \in Nat
  OBVIOUS
<1> HIDE DEF c
<1>2. c \div 1000 \in Nat
  BY <1>1
<1> QED
  BY <1>2 DEF c

LEMMA LiquidationType ==
  ASSUME NEW side, NEW entry \in Nat, NEW lev \in Nat, lev > 0
  PROVE  LiquidationPrice(side, entry, lev, Maintenance) \in Int
<1>1. Maintenance \in Nat /\ lev \in Int
  BY DemoConstants
<1>2. entry \div lev \in Nat
  BY <1>1, QuotientIsNat, Zenon
<1>3. (entry * Maintenance) \div 1000 \in Nat
  BY <1>1, PerMilleType
<1> QED
  BY <1>2, <1>3 DEF LiquidationPrice

\* The row a plan that is not rejected leads to.
LEMMA PlanIsSound ==
  ASSUME NEW m \in Messages, NEW u \in Users, NEW r \in RiskModels,
         NEW lev, lev = EffectiveLeverage(SignalOf[m].leverage, u),
         ~ PlanIsRejected(SignalOf[m], lev, Margin, r, Model2Weights),
         NEW plan, plan = DemoPlan(SignalOf[m], lev, Margin, r, Model2Weights, Maintenance),
         NEW row,
         row = [user |-> u, signal |-> m, leverage |-> lev, margin |-> Margin,
                qty |-> plan.qty, liq |-> plan.liq, legs |-> plan.legs, filled |-> {},
                status |-> "open", reason |-> "none", pnl |-> 0]
  PROVE  Sound(row)
<1> DEFINE sig == SignalOf[m]
           n == Len(sig.targets)
           ws == Weights(r, n, Model2Weights)
<1>1. /\ sig.entry \in Nat /\ sig.stop \in Nat /\ sig.targets \in Seq(Nat)
      /\ lev \in Nat /\ Margin \in Nat /\ r \in {1, 2, 3}
  BY SignalType, EffectiveType, DemoConstants
<1>2. /\ sig.entry > 0 /\ lev > 0 /\ Margin > 0
      /\ r \in {1, 2} => sig.targets # <<>>
      /\ r = 2 => n <= Len(Model2Weights)
  <2>1. Model2Weights \in Seq(Nat \ {0})
    BY DemoConstants
  <2> QED
    BY <1>1, <2>1 DEF PlanIsRejected
<1>3. /\ plan.qty = (Margin * lev) \div sig.entry
      /\ plan.legs = IF r = 3 THEN <<>> ELSE LegQuantities(plan.qty, ws)
      /\ plan.liq = LiquidationPrice(sig.side, sig.entry, lev, Maintenance)
  BY DEF DemoPlan
<1>4. /\ plan.qty * sig.entry = Margin * lev
      /\ \A i \in 1 .. Len(plan.legs) :
           plan.legs[i] * Total(Len(ws), ws) = plan.qty * ws[i]
  BY ScaleIsExact
<1>5. plan.qty \in Nat /\ plan.qty > 0
  <2>1. Margin * lev \in Nat /\ Margin * lev > 0 /\ sig.entry \in Int
    BY <1>1, <1>2
  <2>2. plan.qty \in Nat
    BY <1>2, <1>3, <2>1, QuotientIsNat, Zenon
  <2>3. plan.qty # 0
    BY <1>1, <1>4, <2>1, <2>2
  <2> QED
    BY <2>2, <2>3
<1>6. plan.liq \in Int
  BY <1>1, <1>2, <1>3, LiquidationType
<1>7. /\ plan.legs \in Seq(Nat) /\ Len(plan.legs) \in {0, n}
      /\ \A i \in 1 .. Len(plan.legs) : plan.legs[i] > 0
      /\ Total(Len(plan.legs), plan.legs) <= plan.qty
  <2>1. CASE r = 3
    <3>1. plan.legs = <<>>
      BY <1>3, <2>1
    <3>2. Total(0, plan.legs) = 0
      BY TotalZero
    <3> QED
      BY <1>5, <3>1, <3>2
  <2>2. CASE r \in {1, 2}
    <3>1. n \in Nat \ {0}
      BY <1>1, <1>2, <2>2
    <3>2. ws \in Seq(Nat \ {0}) /\ Len(ws) = n
      BY <1>2, <2>2, <3>1, WeightsType
    <3>3. plan.legs = LegQuantities(plan.qty, ws)
      BY <1>3, <2>2
    <3> HIDE DEF ws
    <3>4. Len(ws) > 0
      BY <3>1, <3>2
    <3>5. /\ plan.legs \in Seq(Nat) /\ Len(plan.legs) = Len(ws)
          /\ \A i \in 1 .. Len(plan.legs) : plan.legs[i] > 0
          /\ Total(Len(plan.legs), plan.legs) = plan.qty
      BY <1>4, <1>5, <3>2, <3>3, <3>4, LegsAddUp, Zenon
    <3> QED
      BY <1>5, <3>2, <3>5
  <2> QED
    BY <1>1, <2>1, <2>2
<1> HIDE DEF ws
<1>8. row \in Rows
  BY <1>1, <1>5, <1>6, <1>7 DEF Rows
<1>9. Sized(row)
  BY <1>2, <1>3, <1>4, <1>7 DEF Sized
<1> QED
  BY <1>8, <1>9 DEF Sound, Bounded

-----------------------------------------------------------------------------
(* One price.                                                               *)

LEMMA QuotientTimes ==
  ASSUME NEW a \in Nat, NEW b \in Int, b > 0
  PROVE  (a \div b) * b <= a
OBVIOUS

LEMMA TimesMonotonic ==
  ASSUME NEW a \in Int, NEW b \in Int, NEW c \in Int, c >= 0, a <= b
  PROVE  a * c <= b * c
OBVIOUS

LEMMA TimesNegative ==
  ASSUME NEW a \in Int, NEW b \in Nat, a <= 0
  PROVE  a * b \in Int /\ a * b <= 0
OBVIOUS

\* A position of the leverage the margin pays for does not lose more than the
\* margin on a move of less than 1/leverage.
LEMMA MarginCoversMove ==
  ASSUME NEW q \in Nat, NEW x \in Int, NEW l \in Nat, l > 0,
         NEW e \in Nat, NEW m \in Nat, x * l <= e, q * e = m * l
  PROVE  q * x <= m
<1>1. (x * l) * q <= e * q
  BY TimesMonotonic
<1>2. (x * l) * q = (q * x) * l /\ e * q = m * l
  OBVIOUS
<1>3. (q * x) * l <= m * l /\ q * x \in Int
  BY <1>1, <1>2
<1> QED
  BY <1>3, CancelFactor

\* A stop that is reached before the liquidation price is less than 1/leverage
\* away from the entry.
LEMMA StopBeforeLiquidation ==
  ASSUME NEW side \in {"LONG", "SHORT"}, NEW entry \in Nat, NEW lev \in Nat, lev > 0,
         NEW stop \in Nat, NEW price \in Nat,
         ~ CrossesLiquidation(side, price, LiquidationPrice(side, entry, lev, Maintenance)),
         CrossesStopLoss(side, price, stop)
  PROVE  (- SignedMove(side, entry, stop)) * lev <= entry
<1> DEFINE q == entry \div lev
           k == (entry * Maintenance) \div 1000
<1>1. Maintenance \in Nat /\ lev \in Int
  BY DemoConstants
<1>2. q \in Nat
  BY <1>1, QuotientIsNat, Zenon
<1>3. k \in Nat
  BY <1>1, PerMilleType
<1>4. q * lev <= entry
  BY <1>1, QuotientTimes, Zenon
<1>5. LiquidationPrice(side, entry, lev, Maintenance) =
        IF side = "LONG" THEN entry - (q - k) ELSE entry + (q - k)
  BY DEF LiquidationPrice
<1> HIDE DEF q, k
<1>6. - SignedMove(side, entry, stop) \in Int /\ - SignedMove(side, entry, stop) <= q
  BY <1>2, <1>3, <1>5 DEF CrossesLiquidation, CrossesStopLoss, SignedMove
<1>7. (- SignedMove(side, entry, stop)) * lev <= q * lev
  BY <1>1, <1>2, <1>6, TimesMonotonic
<1> HIDE DEF SignedMove
<1>8. (- SignedMove(side, entry, stop)) * lev \in Int /\ q * lev \in Int
  BY <1>1, <1>2, <1>6
<1> QED
  BY <1>4, <1>7, <1>8

LEMMA MoveType ==
  ASSUME NEW side, NEW entry \in Nat, NEW price \in Int
  PROVE  SignedMove(side, entry, price) \in Int
BY DEF SignedMove

LEMMA RowType ==
  ASSUME NEW row, Sound(row), NEW sig, sig = SignalOf[row.signal]
  PROVE  /\ row.signal \in Messages /\ row.user \in Users
         /\ row.leverage \in Nat /\ row.leverage > 0
         /\ row.margin \in Nat /\ row.qty \in Nat /\ row.liq \in Int
         /\ row.legs \in Seq(Nat) /\ row.filled \subseteq 1 .. Len(row.legs)
         /\ Len(row.legs) \in Nat
         /\ sig.side \in {"LONG", "SHORT"} /\ sig.entry \in Nat /\ sig.stop \in Nat
         /\ sig.targets \in Seq(Nat)
         /\ SignedMove(sig.side, sig.entry, sig.stop) < 0
         /\ \A i \in 1 .. Len(row.legs) :
              /\ row.legs[i] \in Nat /\ row.legs[i] > 0
              /\ sig.targets[i] \in Nat
              /\ SignedMove(sig.side, sig.entry, sig.targets[i]) \in Int
              /\ SignedMove(sig.side, sig.entry, sig.targets[i]) > 0
<1>1. row.signal \in Messages /\ row \in Rows
  BY DEF Sound, Rows
<1>2. /\ row.user \in Users /\ row.leverage \in Nat
      /\ row.margin \in Nat /\ row.qty \in Nat /\ row.liq \in Int
      /\ row.legs \in Seq(Nat) /\ Len(row.legs) \in Nat
  BY <1>1 DEF Rows
<1>3. /\ row.leverage > 0 /\ row.filled \subseteq 1 .. Len(row.legs)
      /\ Len(row.legs) \in {0, Len(sig.targets)}
      /\ \A i \in 1 .. Len(row.legs) : row.legs[i] > 0
  BY DEF Sound, Sized
<1>4. /\ sig.side \in {"LONG", "SHORT"} /\ sig.entry \in Nat /\ sig.stop \in Nat
      /\ sig.targets \in Seq(Nat)
      /\ SignedMove(sig.side, sig.entry, sig.stop) < 0
      /\ \A i \in 1 .. Len(sig.targets) :
           SignedMove(sig.side, sig.entry, sig.targets[i]) > 0
  BY <1>1, SignalType
<1>5. ASSUME NEW i \in 1 .. Len(row.legs)
      PROVE  /\ row.legs[i] \in Nat /\ row.legs[i] > 0
             /\ sig.targets[i] \in Nat
             /\ SignedMove(sig.side, sig.entry, sig.targets[i]) \in Int
             /\ SignedMove(sig.side, sig.entry, sig.targets[i]) > 0
  <2>1. row.legs[i] \in Nat /\ row.legs[i] > 0
    BY <1>2, <1>3
  <2>2. i \in 1 .. Len(sig.targets)
    BY <1>2, <1>3
  <2>3. sig.targets[i] \in Nat
    BY <1>4, <2>2
  <2>4. SignedMove(sig.side, sig.entry, sig.targets[i]) \in Int
    BY <1>4, <2>3, MoveType
  <2>5. SignedMove(sig.side, sig.entry, sig.targets[i]) > 0
    BY <1>4, <2>2
  <2> QED
    BY <2>1, <2>3, <2>4, <2>5
<1> QED
  BY <1>1, <1>2, <1>3, <1>4, <1>5

\* The result at one exit price is no worse than that of the whole position.
LEMMA BlendedLoss ==
  ASSUME NEW row, Sound(row), NEW sig, sig = SignalOf[row.signal],
         NEW filled, NEW exit \in Nat,
         SignedMove(sig.side, sig.entry, exit) <= 0,
         row.qty * (- SignedMove(sig.side, sig.entry, exit)) <= row.margin
  PROVE  /\ BlendedPnl(sig, row.legs, filled, exit) \in Int
         /\ BlendedPnl(sig, row.legs, filled, exit) >= - row.margin
<1> DEFINE n == Len(row.legs)
           x == SignedMove(sig.side, sig.entry, exit)
           least == [i \in 1 .. n |-> x * row.legs[i]]
           leg == [i \in 1 .. n |->
                     WholePnl(sig, row.legs[i], IF i \in filled THEN sig.targets[i] ELSE exit)]
<1>1. n \in Nat /\ x \in Int /\ row.qty \in Nat /\ row.margin \in Nat
  BY RowType, MoveType
<1>2. ASSUME NEW i \in 1 .. n
      PROVE  row.legs[i] \in Int /\ least[i] \in Int /\ leg[i] \in Int /\ least[i] <= leg[i]
  <2>1. row.legs[i] \in Nat /\ least[i] = x * row.legs[i] /\ least[i] \in Int /\ least[i] <= 0
    <3>1. row.legs[i] \in Nat
      BY RowType
    <3>2. least[i] = x * row.legs[i] /\ x <= 0
      OBVIOUS
    <3> HIDE DEF least, x
    <3>3. x * row.legs[i] \in Int /\ x * row.legs[i] <= 0
      BY <1>1, <3>1, <3>2, TimesNegative
    <3> QED
      BY <3>1, <3>2, <3>3
  <2>2. CASE i \in filled
    <3> DEFINE y == SignedMove(sig.side, sig.entry, sig.targets[i])
    <3>1. y \in Int /\ y > 0
      BY RowType
    <3>2. leg[i] = row.legs[i] * y
      BY <2>2 DEF WholePnl
    <3> HIDE DEF y, leg, least
    <3>3. leg[i] \in Int /\ leg[i] >= 0
      BY <2>1, <3>1, <3>2
    <3> QED
      BY <2>1, <3>3
  <2>3. CASE i \notin filled
    <3>1. leg[i] = row.legs[i] * x
      BY <2>3 DEF WholePnl
    <3> HIDE DEF x, leg, least
    <3> QED
      BY <1>1, <2>1, <3>1
  <2> QED
    BY <2>2, <2>3
<1>3. \A i \in 1 .. n : row.legs[i] \in Int /\ least[i] = x * row.legs[i]
  BY <1>2
<1>4. BlendedPnl(sig, row.legs, filled, exit) = Total(n, leg)
  BY DEF BlendedPnl
<1>5. Total(n, row.legs) <= row.qty /\ x <= 0 /\ row.qty * (- x) <= row.margin
  BY DEF Sound, Sized
<1> HIDE DEF least, leg, n, x
<1>6. Total(n, least) = x * Total(n, row.legs)
  BY <1>1, <1>3, TotalScale, Zenon
<1>7. /\ Total(n, least) \in Int /\ Total(n, leg) \in Int /\ Total(n, row.legs) \in Int
      /\ Total(n, least) <= Total(n, leg)
  BY <1>1, <1>2, TotalType, TotalMonotonic
<1>8. Total(n, row.legs) * (- x) <= row.qty * (- x)
  BY <1>1, <1>5, <1>7, TimesMonotonic
<1>9. Total(n, row.legs) * (- x) = - (x * Total(n, row.legs)) /\ row.qty * (- x) \in Int
  BY <1>1, <1>7
<1>10. x * Total(n, row.legs) >= - row.margin
  BY <1>1, <1>5, <1>7, <1>8, <1>9
<1> QED
  BY <1>1, <1>4, <1>6, <1>7, <1>10

\* With the first target taken, the result is a gain when what is left of the
\* position, if anything, leaves at no loss.
LEMMA BlendedGain ==
  ASSUME NEW row, Sound(row), NEW sig, sig = SignalOf[row.signal],
         NEW filled, 1 \in filled, 1 \in 1 .. Len(row.legs), NEW exit \in Nat,
         \A i \in 1 .. Len(row.legs) :
           i \in filled \/ SignedMove(sig.side, sig.entry, exit) >= 0
  PROVE  /\ BlendedPnl(sig, row.legs, filled, exit) \in Int
         /\ BlendedPnl(sig, row.legs, filled, exit) > 0
<1> DEFINE n == Len(row.legs)
           x == SignedMove(sig.side, sig.entry, exit)
           leg == [i \in 1 .. n |->
                     WholePnl(sig, row.legs[i], IF i \in filled THEN sig.targets[i] ELSE exit)]
<1>1. n \in Nat /\ x \in Int
  BY RowType, MoveType
<1>2. ASSUME NEW i \in 1 .. n
      PROVE  leg[i] \in Int /\ leg[i] >= 0 /\ (i \in filled => leg[i] > 0)
  <2>1. row.legs[i] \in Nat /\ row.legs[i] > 0
    BY RowType
  <2>2. CASE i \in filled
    <3> DEFINE y == SignedMove(sig.side, sig.entry, sig.targets[i])
    <3>1. y \in Int /\ y > 0
      BY RowType
    <3>2. leg[i] = row.legs[i] * y
      BY <2>2 DEF WholePnl
    <3> HIDE DEF y, leg
    <3> QED
      BY <2>1, <3>1, <3>2
  <2>3. CASE i \notin filled
    <3>1. leg[i] = row.legs[i] * x /\ x >= 0
      BY <2>3 DEF WholePnl
    <3> HIDE DEF x, leg
    <3> QED
      BY <1>1, <2>1, <2>3, <3>1
  <2> QED
    BY <2>2, <2>3
<1>3. BlendedPnl(sig, row.legs, filled, exit) = Total(n, leg)
  BY DEF BlendedPnl
<1>4. 1 \in 1 .. n
  OBVIOUS
<1> HIDE DEF leg, n, x
<1> QED
  BY <1>1, <1>2, <1>3, <1>4, TotalType, TotalPositive

\* What one price decides about an open trade.
LEMMA StopIsCapped ==
  ASSUME NEW row, Sound(row), NEW sig, sig = SignalOf[row.signal], NEW price \in Nat,
         ~ CrossesLiquidation(sig.side, price, row.liq),
         CrossesStopLoss(sig.side, price, sig.stop)
  PROVE  row.qty * (- SignedMove(sig.side, sig.entry, sig.stop)) <= row.margin
<1> DEFINE x == - SignedMove(sig.side, sig.entry, sig.stop)
<1>1. /\ row.qty \in Nat /\ row.margin \in Nat /\ row.leverage \in Nat /\ row.leverage > 0
      /\ sig.side \in {"LONG", "SHORT"} /\ sig.entry \in Nat /\ sig.stop \in Nat
  BY RowType
<1>2. x \in Int
  BY <1>1, MoveType
<1>3. /\ row.qty * sig.entry = row.margin * row.leverage
      /\ row.liq = LiquidationPrice(sig.side, sig.entry, row.leverage, Maintenance)
  BY DEF Sound, Sized
<1>4. x * row.leverage <= sig.entry
  BY <1>1, <1>3, StopBeforeLiquidation
<1> HIDE DEF x
<1>5. row.qty * x <= row.margin
  BY <1>1, <1>2, <1>3, <1>4, MarginCoversMove
<1> QED
  BY <1>5 DEF x

Within(row, d) ==
  /\ d.close \in BOOLEAN /\ d.reason \in {"none", "liquidation", "model3_exit", "all_tp", "be", "sl"}
  /\ d.pnl \in Int
  /\ row.filled \subseteq d.filled /\ d.filled \subseteq 1 .. Len(row.legs)
  /\ d.close =>
       /\ d.pnl >= - row.margin
       /\ MoveToEntry /\ 1 \in d.filled /\ d.reason # "liquidation" => d.pnl > 0

LEMMA WholeIsWithin ==
  ASSUME NEW row, Sound(row), NEW sig, sig = SignalOf[row.signal], NEW price \in Nat,
         ~ CrossesLiquidation(sig.side, price, row.liq), row.legs = <<>>
  PROVE  Within(row, EvaluateWhole(sig, row, price, Model3Roi, MoveToEntry))
<1> DEFINE exit == Model3ExitPrice(sig.side, sig.entry, row.leverage, Model3Roi)
           stop == CurrentStopLoss(sig, row.filled, MoveToEntry)
           d == EvaluateWhole(sig, row, price, Model3Roi, MoveToEntry)
<1>1. /\ row.qty \in Nat /\ row.margin \in Nat /\ row.leverage \in Int /\ row.leverage > 0
      /\ sig.side \in {"LONG", "SHORT"} /\ sig.entry \in Nat /\ sig.stop \in Nat
      /\ row.filled = {}
  BY RowType
<1>2. stop = sig.stop
  BY <1>1 DEF CurrentStopLoss
<1>3. CASE CrossesTakeProfit(sig.side, price, exit)
  <2> DEFINE perMille == (Model3Roi * 10) \div row.leverage
             move == (sig.entry * perMille) \div 1000
             gain == SignedMove(sig.side, sig.entry, exit)
  <2>1. Model3Roi * 10 \in Nat
    BY DemoConstants
  <2>2. perMille \in Nat
    BY <1>1, <2>1, QuotientIsNat, Zenon
  <2>3. exit = IF sig.side = "LONG" THEN sig.entry + move ELSE sig.entry - move
    BY DEF Model3ExitPrice, Level
  <2> HIDE DEF perMille
  <2>4. move \in Nat
    <3> DEFINE c == sig.entry * perMille
    <3>1. c \in Nat
      BY <1>1, <2>2
    <3> HIDE DEF c
    <3>2. c \div 1000 \in Nat
      BY <3>1
    <3> QED
      BY <3>2 DEF c
  <2> HIDE DEF move, exit
  <2>5. gain = move
    BY <1>1, <2>3, <2>4 DEF SignedMove
  <2>6. d = Closes("model3_exit", row.qty * gain, row.filled)
    BY <1>3 DEF EvaluateWhole, WholePnl, exit
  <2> HIDE DEF gain, d
  <2>7. row.qty * gain \in Nat
    BY <1>1, <2>4, <2>5
  <2> QED
    BY <1>1, <2>6, <2>7 DEF Within, Closes, d
<1>4. CASE ~ CrossesTakeProfit(sig.side, price, exit) /\ CrossesStopLoss(sig.side, price, stop)
  <2> DEFINE x == SignedMove(sig.side, sig.entry, sig.stop)
  <2>1. d = Closes(StopReason(sig, stop), row.qty * x, row.filled)
    BY <1>2, <1>4 DEF EvaluateWhole, WholePnl
  <2>2. row.qty * (- x) <= row.margin
    BY <1>2, <1>4, StopIsCapped
  <2>3. x \in Int
    BY <1>1, MoveType
  <2> HIDE DEF x, d
  <2>4. row.qty * x \in Int /\ row.qty * x >= - row.margin
    BY <1>1, <2>2, <2>3
  <2> QED
    BY <1>1, <2>1, <2>4 DEF Within, Closes, StopReason, d
<1>5. CASE ~ CrossesTakeProfit(sig.side, price, exit) /\ ~ CrossesStopLoss(sig.side, price, stop)
  <2>1. d = StaysOpen(row.filled)
    BY <1>5 DEF EvaluateWhole
  <2> QED
    BY <1>1, <2>1 DEF Within, StaysOpen
<1> QED
  BY <1>3, <1>4, <1>5

LEMMA LegsAreWithin ==
  ASSUME NEW row, Sound(row), NEW sig, sig = SignalOf[row.signal], NEW price \in Nat,
         ~ CrossesLiquidation(sig.side, price, row.liq), row.legs # <<>>
  PROVE  Within(row, EvaluateLegs(sig, row, price, MoveToEntry))
<1> DEFINE n == Len(row.legs)
           filled == FilledAfter(row, {i \in 1 .. n :
                       CrossesTakeProfit(sig.side, price, sig.targets[i])})
           stop == CurrentStopLoss(sig, filled, MoveToEntry)
           pnl == BlendedPnl(sig, row.legs, filled, stop)
           d == EvaluateLegs(sig, row, price, MoveToEntry)
<1>1. /\ row.margin \in Nat /\ n \in Nat /\ sig.entry \in Nat /\ sig.stop \in Nat
      /\ SignedMove(sig.side, sig.entry, sig.stop) \in Int
      /\ SignedMove(sig.side, sig.entry, sig.stop) < 0
  BY RowType, MoveType
<1>2. 1 \in 1 .. n
  <2>1. row.legs \in Seq(Nat)
    BY RowType
  <2> QED
    BY <2>1
<1>3. row.filled \subseteq filled /\ filled \subseteq 1 .. n
  BY RowType DEF FilledAfter
<1>4. stop \in Nat /\ (stop = sig.stop \/ (MoveToEntry /\ 1 \in filled /\ stop = sig.entry))
  BY <1>1 DEF CurrentStopLoss
<1>5. MoveToEntry /\ 1 \in filled => stop = sig.entry
  BY DEF CurrentStopLoss
<1>6. SignedMove(sig.side, sig.entry, sig.entry) = 0
  BY <1>1 DEF SignedMove
<1>7. d = IF 1 .. n \subseteq filled THEN Closes("all_tp", pnl, filled)
          ELSE IF CrossesStopLoss(sig.side, price, stop)
          THEN Closes(StopReason(sig, stop), pnl, filled)
          ELSE StaysOpen(filled)
  BY DEF EvaluateLegs
<1>8. ASSUME 1 \in filled, 1 .. n \subseteq filled \/ stop = sig.entry
      PROVE  pnl \in Int /\ pnl > 0
  <2>1. \A i \in 1 .. n : i \in filled \/ SignedMove(sig.side, sig.entry, stop) >= 0
    BY <1>6, <1>8
  <2> HIDE DEF filled, stop
  <2> QED
    BY <1>2, <1>4, <1>8, <2>1, BlendedGain
<1>9. ASSUME CrossesStopLoss(sig.side, price, stop), stop = sig.stop
      PROVE  pnl \in Int /\ pnl >= - row.margin
  <2>1. row.qty * (- SignedMove(sig.side, sig.entry, stop)) <= row.margin
    BY <1>9, StopIsCapped
  <2>2. SignedMove(sig.side, sig.entry, stop) <= 0
    BY <1>1, <1>9
  <2> HIDE DEF filled, stop
  <2> QED
    BY <1>4, <2>1, <2>2, BlendedLoss
<1> HIDE DEF d, pnl, stop, filled
<1>10. CASE 1 .. n \subseteq filled
  <2>1. 1 \in filled /\ pnl \in Int /\ pnl > 0
    BY <1>2, <1>8, <1>10
  <2> QED
    BY <1>1, <1>3, <1>7, <1>10, <2>1 DEF Within, Closes, d, n
<1>11. CASE ~ (1 .. n \subseteq filled) /\ CrossesStopLoss(sig.side, price, stop)
  <2>1. d = Closes(StopReason(sig, stop), pnl, filled)
    BY <1>7, <1>11
  <2>2. StopReason(sig, stop) \in {"be", "sl"}
    BY DEF StopReason
  <2>3. MoveToEntry /\ 1 \in filled => pnl \in Int /\ pnl > 0
    BY <1>5, <1>8
  <2>4. pnl \in Int /\ pnl >= - row.margin
    BY <1>1, <1>4, <1>9, <1>11, <2>3
  <2> HIDE DEF n
  <2> QED
    BY <1>1, <1>3, <2>1, <2>2, <2>3, <2>4 DEF Within, Closes, d, n
<1>12. CASE ~ (1 .. n \subseteq filled) /\ ~ CrossesStopLoss(sig.side, price, stop)
  <2>1. d = StaysOpen(filled)
    BY <1>7, <1>12
  <2> QED
    BY <1>3, <2>1 DEF Within, StaysOpen, d, n
<1> QED
  BY <1>10, <1>11, <1>12

LEMMA PriceIsWithin ==
  ASSUME NEW row, Sound(row), NEW price \in Nat
  PROVE  Within(row, EvaluatePriceTick(SignalOf[row.signal], row, price, Model3Roi, MoveToEntry))
<1> DEFINE sig == SignalOf[row.signal]
<1>1. CASE CrossesLiquidation(sig.side, price, row.liq)
  <2>1. EvaluatePriceTick(sig, row, price, Model3Roi, MoveToEntry) =
          Closes("liquidation", - row.margin, row.filled)
    BY <1>1 DEF EvaluatePriceTick, LossOnLiquidation
  <2>2. row.margin \in Nat /\ row.filled \subseteq 1 .. Len(row.legs)
    BY RowType
  <2>3. - row.margin \in Int /\ - row.margin >= - row.margin
    BY <2>2
  <2> QED
    BY <2>1, <2>2, <2>3 DEF Within, Closes
<1>2. CASE ~ CrossesLiquidation(sig.side, price, row.liq) /\ row.legs = <<>>
  BY <1>2, WholeIsWithin DEF EvaluatePriceTick
<1>3. CASE ~ CrossesLiquidation(sig.side, price, row.liq) /\ row.legs # <<>>
  BY <1>3, LegsAreWithin DEF EvaluatePriceTick
<1> QED
  BY <1>1, <1>2, <1>3

-----------------------------------------------------------------------------
(* Sets of numbers and functions with rows.                                 *)

LEMMA LeastIsIn ==
  ASSUME NEW S, S \subseteq Nat, S # {}
  PROVE  Least(S) \in S
<1>1. \E x \in S : \A y \in S : x <= y
  BY LeastExists
<1> QED
  BY <1>1 DEF Least

LEMMA OverIs ==
  ASSUME NEW f, NEW g
  PROVE  /\ DOMAIN Over(f, g) = DOMAIN f \cup DOMAIN g
         /\ \A i \in DOMAIN f : Over(f, g)[i] = f[i]
         /\ \A i \in DOMAIN g : i \notin DOMAIN f => Over(f, g)[i] = g[i]
BY DEF Over

LEMMA PutIs ==
  ASSUME NEW i, NEW row, NEW g
  PROVE  /\ DOMAIN Put(i, row, g) = {i} \cup DOMAIN g
         /\ Put(i, row, g)[i] = row
         /\ \A j \in DOMAIN g : j # i => Put(i, row, g)[j] = g[j]
<1>1. DOMAIN Put(i, row, g) = {i} \cup DOMAIN g
  BY DEF Put, Over
<1>2. Put(i, row, g)[i] = row
  BY DEF Put, Over
<1>3. \A j \in DOMAIN g : j # i => Put(i, row, g)[j] = g[j]
  BY DEF Put, Over
<1> QED
  BY <1>1, <1>2, <1>3

LEMMA NoRowsIs == DOMAIN NoRows = {}
BY DEF NoRows

\* One term more, the sum more by that term.
LEMMA TotalPlusOne ==
  ASSUME NEW n \in Nat, NEW f, NEW h, NEW j \in 1 .. n, NEW d \in Int,
         \A k \in 1 .. n : f[k] \in Int,
         h[j] = f[j] + d, \A k \in 1 .. n : k # j => h[k] = f[k]
  PROVE  Total(n, h) = Total(n, f) + d
<1>1. PICK s : Sums(n, f, s) /\ Total(n, f) = s[n]
  BY TotalIsLast
<1>2. \A k \in 1 .. n : h[k] \in Int
  OBVIOUS
<1>3. PICK u : Sums(n, h, u) /\ Total(n, h) = u[n]
  BY <1>2, TotalIsLast
<1> DEFINE Good == {k \in 0 .. n : u[k] = IF k >= j THEN s[k] + d ELSE s[k]}
<1>4. 0 \in Good
  BY <1>1, <1>3 DEF Sums
<1>5. ASSUME NEW k \in 1 .. n, k - 1 \in Good
      PROVE  k \in Good
  <2>1. s[k - 1] \in Int /\ u[k - 1] = IF k - 1 >= j THEN s[k - 1] + d ELSE s[k - 1]
    BY <1>1, <1>5 DEF Sums
  <2>2. /\ s[k] = s[k - 1] + f[k] /\ u[k] = u[k - 1] + h[k]
        /\ f[k] \in Int /\ h[k] = IF k = j THEN f[k] + d ELSE f[k]
    BY <1>1, <1>3 DEF Sums
  <2>3. CASE k < j
    BY <2>1, <2>2, <2>3
  <2>4. CASE k = j
    BY <2>1, <2>2, <2>4
  <2>5. CASE k > j
    BY <2>1, <2>2, <2>5
  <2> QED
    BY <2>3, <2>4, <2>5
<1> HIDE DEF Good
<1>6. \A k \in 0 .. n : k \in Good
  BY <1>4, <1>5, Upto
<1> QED
  BY <1>1, <1>3, <1>6 DEF Good

-----------------------------------------------------------------------------
(* The inductive invariant.  The rows the opener inserted and those the     *)
(* ticker read and updated belong to sessions that are open, so each has to *)
(* fit the committed rows at every step of the other task and of the bot.   *)

\* The event of an entry has the row behind it.
IngestInv ==
  /\ \A m \in Messages : handler[m] = "publishing" => signalRow[m] = RowOf(kind[m])
  /\ \A i \in 1 .. Len(stream) :
       stream[i].type = "signal.created" =>
         /\ kind[stream[i].signal] = "entry"
         /\ signalRow[stream[i].signal] = "accepted"

CommittedRow(i) ==
  /\ Sound(trades[i])
  /\ i < nextId
  /\ trades[i].user \in accounts
  /\ <<"opened", i>> \in told
  /\ trades[i].status = "closed" => <<"closed", i>> \in told

BookInv == (\A i \in DOMAIN trades : CommittedRow(i)) /\ OneOpenTradePerSignal

\* Of the user the opener is at, if it is about to announce a row.
IsAnnounced(i) == oPc = "announce" /\ i = nextId - 1

InsertedRow(i) ==
  /\ Sound(oNew[i]) /\ oNew[i].status = "open"
  /\ i < nextId /\ i \notin DOMAIN trades /\ i \notin DOMAIN tRow
  /\ oNew[i].user \in accounts
  /\ oNew[i].signal = SignalInHand
  /\ ~ HasOpenTrade(oNew[i].user, SignalInHand)
  /\ <<"opened", i>> \in told \/ IsAnnounced(i)
  /\ oNew[i].user \in oTodo => IsAnnounced(i)

OpenerInv ==
  /\ oTodo \subseteq accounts
  /\ oPc \in {"user", "announce", "ack"} => batch # {}
  /\ oPc \in {"user", "announce"} => oLev = SignalOf[SignalInHand].leverage
  /\ oPc \notin {"user", "announce"} => DOMAIN oNew = {}
  /\ oPc = "announce" =>
       /\ nextId - 1 \in DOMAIN oNew
       /\ oTodo # {} /\ oNew[nextId - 1].user = Least(oTodo)
  /\ \A i \in DOMAIN oNew : InsertedRow(i)
  /\ \A i, j \in DOMAIN oNew : i # j => oNew[i].user # oNew[j].user

ReadRow(i) ==
  /\ Sound(tRow[i]) /\ tRow[i].status = "open"
  /\ i \in Ids /\ i < nextId
  /\ i \in DOMAIN trades => trades[i] = tRow[i]

\* Of the trade whose close the ticker is about to announce.
IsClosing(i) == tPc = "announce" /\ i = Least(tTodo)

UpdatedRow(i) ==
  /\ i \in DOMAIN trades
  /\ Sound(tWrote[i])
  /\ tWrote[i].user = tRow[i].user /\ tWrote[i].signal = tRow[i].signal
  /\ tRow[i].filled \subseteq tWrote[i].filled
  /\ tWrote[i].status = "open" \/ <<"closed", i>> \in told \/ IsClosing(i)
  /\ i \in tTodo => IsClosing(i)

TickerInv ==
  /\ tPrice \in Nat /\ tBalance \in [Users -> Int]
  /\ tPc = "idle" => DOMAIN tRow = {} /\ tPaid = {}
  /\ tTodo \subseteq DOMAIN tRow /\ DOMAIN tWrote \subseteq DOMAIN tRow
  /\ tPc = "announce" => tTodo # {}
  /\ tPaid = {tWrote[i].user : i \in {j \in DOMAIN tWrote : tWrote[j].status = "closed"}}
  /\ \A i \in DOMAIN tRow : ReadRow(i)
  /\ \A i \in DOMAIN tWrote : UpdatedRow(i)

\* What the ticker's session has added to the account of a user it may pay.
Booking(u) ==
  [i \in Ids |->
     IF i \in DOMAIN tWrote
     THEN IF tWrote[i].status = "closed" /\ tWrote[i].user = u THEN tWrote[i].pnl ELSE 0
     ELSE 0]
Booked(u) == Total(MaxTrades, Booking(u))

\* The balance it read, with that added, is the committed one with that added.
Bookings ==
  \A u \in Users, i \in DOMAIN tRow \cap DOMAIN trades :
    tRow[i].user = u => tBalance[u] = balance[u] + Booked(u)

AccountsInv == BalanceIsStartPlusClosed /\ Bookings

DInv == TypeOK /\ IngestInv /\ BookInv /\ OpenerInv /\ TickerInv /\ AccountsInv

-----------------------------------------------------------------------------
(* The initial state, and what the parts rest on.                           *)

LEMMA NoResults ==
  ASSUME NEW u, ClosedOf(u) = {}
  PROVE  ResultsOf(u) = 0
<1> DEFINE f == [i \in Ids |-> IF i \in ClosedOf(u) THEN trades[i].pnl ELSE 0]
<1>1. MaxTrades \in Nat /\ \A k \in 1 .. MaxTrades : f[k] = 0
  BY DemoConstants DEF Ids
<1> HIDE DEF f
<1>2. Total(MaxTrades, f) = 0
  BY <1>1, TotalZero
<1> QED
  BY <1>2 DEF ResultsOf, f

LEMMA InitialState == Init => DInv
<1> SUFFICES ASSUME Init PROVE DInv
  OBVIOUS
<1> USE NoRowsIs
<1>1. TypeOK
  <2>1. IngestTypeOK
    BY IngestConstants DEF Init, IngestInit, IngestTypeOK
  <2>2. Len(stream) = 0
    BY DEF Init, IngestInit
  <2>3. balance \in [Users -> Int] /\ StartBalance \in Int
    BY DemoConstants DEF Init
  <2>4. /\ nextId \in 1 .. MaxTrades + 1 /\ delivered \in 0 .. Len(stream)
        /\ faults \in 0 .. MaxFaults
    BY <2>2, DemoConstants DEF Init
  <2>5. /\ accounts \subseteq Users /\ model \in [Users -> RiskModels]
        /\ pending \subseteq 1 .. delivered /\ batch \subseteq pending
        /\ oTodo \subseteq Users /\ subscribed \subseteq Symbols /\ tTodo \subseteq Ids
        /\ told \subseteq {"opened", "closed"} \X Ids
    BY DemoConstants DEF Init
  <2>6. DOMAIN trades = {} /\ DOMAIN oNew = {} /\ DOMAIN tWrote = {} /\ DOMAIN tRow = {}
    BY DEF Init
  <2>7. oPc = "read" /\ tPc = "idle" /\ fresh = FALSE
    BY DEF Init
  <2> QED
    BY <2>1, <2>3, <2>4, <2>5, <2>6, <2>7 DEF Init, TypeOK
<1>2. IngestInv
  BY DEF Init, IngestInit, IngestInv
<1>3. BookInv
  BY DEF Init, BookInv, OneOpenTradePerSignal
<1>4. OpenerInv
  BY DEF Init, OpenerInv
<1>5. TickerInv
  <2>1. NoBalance \in [Users -> Int]
    BY DemoConstants DEF NoBalance
  <2> QED
    BY <2>1 DEF Init, TickerInv
<1>6. AccountsInv
  <2>1. ASSUME NEW u \in accounts
        PROVE  balance[u] = StartBalance + ResultsOf(u)
    <3>1. ClosedOf(u) = {}
      BY DEF Init, ClosedOf, Closed
    <3>2. ResultsOf(u) = 0
      BY <3>1, NoResults
    <3> QED
      BY <3>2, DemoConstants DEF Init
  <2> QED
    BY <2>1 DEF Init, AccountsInv, BalanceIsStartPlusClosed, Bookings
<1> QED
  BY <1>1, <1>2, <1>3, <1>4, <1>5, <1>6 DEF DInv

LEMMA IdsAreNat == Ids \subseteq Nat /\ Users \subseteq Nat /\ MaxTrades \in Nat
BY DemoConstants DEF Ids

Records == [type : {"signal.created", "signal.rejected"}, signal : Messages]

LEMMA ElementIs ==
  ASSUME NEW R, NEW s \in Seq(R), NEW i \in 1 .. Len(s)
  PROVE  s[i] \in R
OBVIOUS

LEMMA AppendIs ==
  ASSUME NEW R, NEW s \in Seq(R), NEW e \in R
  PROVE  /\ Append(s, e) \in Seq(R) /\ Len(s) <= Len(Append(s, e))
         /\ \A k \in 1 .. Len(s) : Append(s, e)[k] = s[k]
OBVIOUS

\* The record in hand.
LEMMA RecordType ==
  ASSUME TypeOK, batch # {}
  PROVE  /\ Least(batch) \in batch /\ Least(batch) \in 1 .. Len(stream)
         /\ SignalInHand \in Messages
<1>1. batch \subseteq Nat /\ batch \subseteq 1 .. Len(stream)
  BY DEF TypeOK, IngestTypeOK
<1>2. Least(batch) \in batch
  BY <1>1, LeastIsIn
<1>3. stream \in Seq(Records)
  BY DEF TypeOK, IngestTypeOK, Records
<1>4. stream[Least(batch)] \in Records
  BY <1>1, <1>2, <1>3, ElementIs
<1> QED
  BY <1>1, <1>2, <1>4 DEF SignalInHand, Record, Records

\* The ingestor only appends to the stream.
LEMMA Appends ==
  ASSUME TypeOK, IngestNext
  PROVE  /\ IngestTypeOK'
         /\ Len(stream) <= Len(stream)'
         /\ \A k \in 1 .. Len(stream) : stream'[k] = stream[k]
<1> USE DEF TypeOK, IngestTypeOK
<1>1. PICK m \in Messages : HandleMessage(m) \/ PublishSignal(m) \/ PublishFails(m)
  BY DEF IngestNext
<1>2. RowOf(kind[m]) \in {"none", "accepted", "rejected"}
  BY DEF RowOf
<1>3. EventOf(m) \in Records /\ stream \in Seq(Records)
  BY DEF EventOf, Records
<1>4. stream' = stream \/ stream' = Append(stream, EventOf(m))
  BY <1>1 DEF HandleMessage, PublishSignal, PublishFails
<1>5. /\ stream' \in Seq(Records)
      /\ Len(stream) <= Len(stream)'
      /\ \A k \in 1 .. Len(stream) : stream'[k] = stream[k]
  <2>1. CASE stream' = stream
    BY <1>3, <2>1
  <2>2. CASE stream' = Append(stream, EventOf(m))
    BY <1>3, <2>2, AppendIs
  <2> QED
    BY <1>4, <2>1, <2>2
<1>6. lost' \in 0 .. MaxLost
  BY <1>1, IngestConstants DEF HandleMessage, PublishSignal, PublishFails
<1>7. /\ kind' \in [Messages -> Kinds]
      /\ signalRow' \in [Messages -> {"none", "accepted", "rejected"}]
      /\ handler' \in [Messages -> {"waiting", "publishing", "done", "failed"}]
  BY <1>1, <1>2 DEF HandleMessage, PublishSignal, PublishFails, RowWhenPublishing
<1> QED
  BY <1>5, <1>6, <1>7 DEF Records

LEMMA IngestKept ==
  ASSUME TypeOK, IngestInv, IngestNext
  PROVE  IngestInv'
<1> USE DEF TypeOK, IngestTypeOK
<1>1. PICK m \in Messages : HandleMessage(m) \/ PublishSignal(m) \/ PublishFails(m)
  BY DEF IngestNext
<1>2. kind' = kind /\ (stream' = stream \/ (stream' = Append(stream, EventOf(m)) /\ handler[m] = "publishing"))
  BY <1>1 DEF HandleMessage, PublishSignal, PublishFails
<1>3. \A n \in Messages : signalRow'[n] = signalRow[n] \/ signalRow'[n] = RowOf(kind[n])
  BY <1>1 DEF HandleMessage, PublishSignal, PublishFails, RowWhenPublishing
<1>4. \A n \in Messages : kind[n] = "entry" => RowOf(kind[n]) = "accepted"
  BY DEF RowOf
<1>5. ASSUME NEW n \in Messages, handler'[n] = "publishing"
      PROVE  signalRow'[n] = RowOf(kind'[n])
  BY <1>1, <1>2, <1>3, <1>5 DEF IngestInv, HandleMessage, PublishSignal, PublishFails, RowWhenPublishing
<1>6. ASSUME NEW i \in 1 .. Len(stream)', stream'[i].type = "signal.created"
      PROVE  /\ kind'[stream'[i].signal] = "entry"
             /\ signalRow'[stream'[i].signal] = "accepted"
  <2>1. CASE i \in 1 .. Len(stream)
    <3>1. stream'[i] = stream[i]
      BY <2>1, Appends
    <3>2. stream[i].signal \in Messages
      <4>1. stream \in Seq(Records)
        BY DEF Records
      <4>2. stream[i] \in Records
        BY <2>1, <4>1, ElementIs
      <4> QED
        BY <4>2 DEF Records
    <3>3. kind[stream[i].signal] = "entry" /\ signalRow[stream[i].signal] = "accepted"
      BY <1>6, <2>1, <3>1 DEF IngestInv
    <3> QED
      BY <1>2, <1>3, <1>4, <3>1, <3>2, <3>3
  <2>2. CASE i \notin 1 .. Len(stream)
    <3>1. stream' = Append(stream, EventOf(m)) /\ handler[m] = "publishing"
      BY <1>2, <1>6, <2>2
    <3>2. stream'[i] = EventOf(m)
      BY <1>6, <2>2, <3>1
    <3>3. kind[m] = "entry" /\ stream'[i].signal = m
      BY <1>6, <3>2 DEF EventOf
    <3>4. signalRow[m] = "accepted"
      BY <1>4, <3>1, <3>3 DEF IngestInv
    <3> QED
      BY <1>2, <1>3, <1>4, <3>3, <3>4
  <2> QED
    BY <2>1, <2>2
<1> QED
  BY <1>5, <1>6 DEF IngestInv

-----------------------------------------------------------------------------
(* Types.                                                                   *)

BotType ==
  /\ accounts \subseteq Users
  /\ balance \in [Users -> Int]
  /\ model \in [Users -> RiskModels]
  /\ DOMAIN trades \subseteq Ids /\ \A i \in DOMAIN trades : trades[i] \in Rows

GroupType ==
  /\ delivered \in 0 .. Len(stream) /\ pending \subseteq 1 .. delivered
  /\ fresh \in BOOLEAN /\ batch \subseteq pending

OpenerType ==
  /\ nextId \in 1 .. MaxTrades + 1
  /\ oPc \in {"read", "next", "user", "announce", "ack"}
  /\ oTodo \subseteq Users
  /\ DOMAIN oNew \subseteq Ids /\ \A i \in DOMAIN oNew : oNew[i] \in Rows

TickerType ==
  /\ subscribed \subseteq Symbols
  /\ tPc \in {"idle", "trade", "announce"}
  /\ tTodo \subseteq Ids /\ DOMAIN tWrote \subseteq DOMAIN tRow

ToldType == told \subseteq {"opened", "closed"} \X Ids /\ faults \in 0 .. MaxFaults

LEMMA TypeParts ==
  TypeOK <=> IngestTypeOK /\ BotType /\ GroupType /\ OpenerType /\ TickerType /\ ToldType
BY DEF TypeOK, BotType, GroupType, OpenerType, TickerType, ToldType

LEMMA TypePartsNext ==
  ASSUME IngestTypeOK', BotType', GroupType', OpenerType', TickerType', ToldType'
  PROVE  TypeOK'
BY DEF TypeOK, BotType, GroupType, OpenerType, TickerType, ToldType

\* The rows that a session commits over the others.
LEMMA OverInRows ==
  ASSUME NEW f, NEW g, DOMAIN f \subseteq Ids, DOMAIN g \subseteq Ids,
         \A i \in DOMAIN f : f[i] \in Rows, \A i \in DOMAIN g : g[i] \in Rows
  PROVE  /\ DOMAIN Over(f, g) \subseteq Ids
         /\ \A i \in DOMAIN Over(f, g) : Over(f, g)[i] \in Rows
BY DEF Over

LEMMA NewRowIsSound ==
  ASSUME DInv, OpenForUser
  PROVE  /\ Least(oTodo) \in oTodo /\ Least(oTodo) \in Users
         /\ Sound(NewRow(Least(oTodo)))
         /\ NewRow(Least(oTodo)).status = "open"
         /\ NewRow(Least(oTodo)).user = Least(oTodo)
         /\ NewRow(Least(oTodo)).signal = SignalInHand
<1> DEFINE u == Least(oTodo)
           m == SignalInHand
           r == model[u]
           lev == EffectiveLeverage(oLev, u)
           plan == DemoPlan(SignalOf[m], lev, Margin, r, Model2Weights, Maintenance)
           row == [user |-> u, signal |-> m, leverage |-> lev, margin |-> Margin,
                   qty |-> plan.qty, liq |-> plan.liq, legs |-> plan.legs, filled |-> {},
                   status |-> "open", reason |-> "none", pnl |-> 0]
<1>1. oTodo # {} /\ oTodo \subseteq Users /\ oPc = "user" /\ batch # {}
  BY DEF OpenForUser, DInv, TypeOK, OpenerInv
<1>2. u \in oTodo /\ u \in Users
  BY <1>1, IdsAreNat, LeastIsIn
<1>3. m \in Messages
  BY <1>1, RecordType DEF DInv
<1>4. r \in RiskModels
  BY <1>2 DEF DInv, TypeOK
<1>5. oLev = SignalOf[m].leverage
  BY <1>1 DEF DInv, OpenerInv
<1>6. ~ PlanIsRejected(SignalOf[m], lev, Margin, r, Model2Weights)
  BY DEF OpenForUser, PlanFails
<1>7. NewRow(u) = row
  BY DEF NewRow
<1>8. lev = EffectiveLeverage(SignalOf[m].leverage, u)
  BY <1>5
<1>9. row.status = "open" /\ row.user = u /\ row.signal = m
  OBVIOUS
<1> HIDE DEF u, m, r, lev
<1>10. Sound(row)
  BY <1>2, <1>3, <1>4, <1>6, <1>8, PlanIsSound
<1> HIDE DEF row, plan
<1> QED
  BY <1>2, <1>7, <1>9, <1>10 DEF u, m

LEMMA BotTypeKept ==
  ASSUME DInv, [Next]_vars
  PROVE  BotType'
<1>1. BotType
  BY TypeParts DEF DInv
<1>2. CASE UNCHANGED <<accounts, balance, model, trades>>
  BY <1>1, <1>2 DEF BotType
<1>3. CASE CommitOpened /\ UNCHANGED <<accounts, balance, model>>
  <2>1. trades' = Over(oNew, trades)
    BY <1>3 DEF CommitOpened
  <2>2. DOMAIN oNew \subseteq Ids /\ \A i \in DOMAIN oNew : oNew[i] \in Rows
    BY DEF DInv, TypeOK
  <2>3. DOMAIN trades' \subseteq Ids /\ \A i \in DOMAIN trades' : trades'[i] \in Rows
    BY <1>1, <2>1, <2>2, OverInRows DEF BotType
  <2> QED
    BY <1>1, <1>3, <2>3 DEF BotType
<1>4. CASE CommitTick /\ UNCHANGED <<accounts, model>>
  <2>1. trades' = Over(tWrote, trades)
    BY <1>4 DEF CommitTick
  <2>2. DOMAIN tWrote \subseteq Ids /\ \A i \in DOMAIN tWrote : tWrote[i] \in Rows
    BY DEF DInv, TypeOK, TickerInv, ReadRow, UpdatedRow, Sound
  <2>3. DOMAIN trades' \subseteq Ids /\ \A i \in DOMAIN trades' : trades'[i] \in Rows
    BY <1>1, <2>1, <2>2, OverInRows DEF BotType
  <2>4. balance' \in [Users -> Int]
    BY <1>1, <1>4 DEF CommitTick, BotType, DInv, TickerInv
  <2> QED
    BY <1>1, <1>4, <2>3, <2>4 DEF BotType
<1>5. ASSUME NEW u \in Users, OpenDemo(u)
      PROVE  BotType'
  BY <1>1, <1>5, DemoConstants DEF BotType, OpenDemo
<1>6. ASSUME NEW u \in Users, ResetDemo(u)
      PROVE  BotType'
  BY <1>1, <1>6, DemoConstants DEF BotType, ResetDemo
<1>7. ASSUME NEW u \in Users, NEW m \in RiskModels, ChangeRiskModel(u, m)
      PROVE  BotType'
  BY <1>1, <1>7 DEF BotType, ChangeRiskModel
<1> QED
  BY <1>2, <1>3, <1>4, <1>5, <1>6, <1>7
  DEF Next, OpenerNext, TickerNext, OutsideNext, Crash, StaleTick, CloseFails, vars, botVars

LEMMA GroupTypeKept ==
  ASSUME DInv, [Next]_vars
  PROVE  GroupType'
<1>1. GroupType /\ TypeOK
  BY TypeParts DEF DInv
<1>2. Len(stream) \in Nat
  BY <1>1 DEF TypeOK, IngestTypeOK
<1>3. CASE IngestNext /\ UNCHANGED groupVars
  <2>1. Len(stream) <= Len(stream)' /\ Len(stream)' \in Nat
    BY <1>1, <1>3, Appends DEF IngestTypeOK
  <2> QED
    BY <1>1, <1>2, <1>3, <2>1 DEF GroupType, groupVars
<1>4. ASSUME UNCHANGED stream, ReadFresh PROVE GroupType'
  <2>1. delivered' = Len(stream) /\ fresh' \in BOOLEAN /\ Len(stream)' = Len(stream)
    BY <1>4 DEF ReadFresh
  <2>2. delivered \in 0 .. Len(stream) /\ pending \subseteq 1 .. delivered
    BY <1>1 DEF GroupType
  <2>3. pending' = pending \cup (delivered + 1 .. Len(stream)) /\ batch' \subseteq pending'
    BY <1>4 DEF ReadFresh
  <2>4. pending' \subseteq 1 .. delivered'
    <3>1. ASSUME NEW k \in pending'
          PROVE  k \in 1 .. delivered'
      <4>1. k \in 1 .. delivered \/ k \in delivered + 1 .. Len(stream)
        BY <2>2, <2>3
      <4> QED
        BY <1>2, <2>1, <2>2, <4>1
    <3> QED
      BY <3>1
  <2> QED
    BY <1>2, <2>1, <2>3, <2>4 DEF GroupType
<1>5. ASSUME UNCHANGED stream,
             ReadPending \/ BatchDone \/ SkipRecord \/ StartRecord \/ SkipUser \/ OpenForUser
             \/ Acknowledge \/ AnnounceOpened \/ OpenFails \/ CommitOpened
      PROVE  GroupType'
  BY <1>1, <1>5 DEF GroupType, groupVars, ReadPending, BatchDone, SkipRecord, StartRecord,
     SkipUser, OpenForUser, Acknowledge, AnnounceOpened, OpenFails, CommitOpened
<1>6. CASE UNCHANGED <<stream, groupVars>>
  BY <1>1, <1>6 DEF GroupType, groupVars
<1>7. CASE Crash
  BY <1>1, <1>7 DEF GroupType, Crash, ingestVars
<1> QED
  BY <1>3, <1>4, <1>5, <1>6, <1>7
  DEF Next, OpenerNext, TickerNext, OutsideNext, vars, ingestVars

LEMMA OpenerTypeKept ==
  ASSUME DInv, [Next]_vars
  PROVE  OpenerType'
<1>1. OpenerType /\ accounts \subseteq Users
  BY TypeParts DEF DInv, TypeOK
<1>2. CASE UNCHANGED openerVars
  BY <1>1, <1>2 DEF OpenerType, openerVars
<1>3. CASE OpenForUser
  <2> DEFINE row == NewRow(Least(oTodo))
  <2>1. row \in Rows
    BY <1>3, NewRowIsSound DEF Sound
  <2>2. nextId \in Ids /\ nextId' \in 1 .. MaxTrades + 1
    BY <1>1, <1>3, IdsAreNat DEF OpenForUser, OpenerType, Ids
  <2>3. oNew' = Put(nextId, row, oNew)
    BY <1>3 DEF OpenForUser
  <2> HIDE DEF row
  <2>4. DOMAIN oNew' \subseteq Ids /\ \A i \in DOMAIN oNew' : oNew'[i] \in Rows
    BY <1>1, <2>1, <2>2, <2>3 DEF OpenerType, Put, Over
  <2> QED
    BY <1>1, <1>3, <2>2, <2>4 DEF OpenerType, OpenForUser
<1>4. CASE StartRecord
  BY <1>1, <1>4, NoRowsIs DEF OpenerType, StartRecord
<1>5. CASE \/ ReadPending \/ ReadFresh \/ BatchDone \/ SkipRecord \/ SkipUser
           \/ Acknowledge \/ AnnounceOpened
  BY <1>1, <1>5 DEF OpenerType, ReadPending, ReadFresh, BatchDone, SkipRecord, SkipUser,
     Acknowledge, AnnounceOpened
<1>6. CASE OpenFails \/ CommitOpened \/ Crash
  BY <1>1, <1>6, NoRowsIs DEF OpenerType, OpenFails, CommitOpened, Crash
<1> QED
  BY <1>2, <1>3, <1>4, <1>5, <1>6 DEF Next, OpenerNext, TickerNext, OutsideNext, vars

LEMMA TickerTypeKept ==
  ASSUME DInv, [Next]_vars
  PROVE  TickerType'
<1>1. TickerType
  BY TypeParts DEF DInv
<1>2. CASE UNCHANGED tickerVars
  BY <1>1, <1>2 DEF TickerType, tickerVars
<1>3. CASE Subscribe
  BY <1>1, <1>3 DEF TickerType, Subscribe, OpenSymbols
<1>4. ASSUME NEW sym \in Symbols, NEW price \in Prices, ReceivePrice(sym, price)
      PROVE  TickerType'
  <2>1. OpenIds(sym) \subseteq Ids
    BY DEF OpenIds, DInv, TypeOK
  <2>2. DOMAIN tWrote = {}
    BY <1>4 DEF ReceivePrice, DInv, TickerInv
  <2> QED
    BY <1>1, <1>4, <2>1, <2>2 DEF TickerType, ReceivePrice
<1>5. CASE LeaveTrade \/ AnnounceClosed
  BY <1>1, <1>5 DEF TickerType, LeaveTrade, AnnounceClosed
<1>6. CASE ApplyDecision
  <2> DEFINE i == Least(tTodo)
             row == AfterTick(tRow[i])
  <2>1. i \in tTodo /\ i \in DOMAIN tRow
    BY <1>1, <1>6, IdsAreNat, LeastIsIn DEF TickerType, ApplyDecision, DInv, TickerInv
  <2>2. tWrote' = Put(i, row, tWrote) /\ tRow' = tRow
    BY <1>6 DEF ApplyDecision
  <2>3. tPc' \in {"idle", "trade", "announce"} /\ tTodo' \subseteq tTodo /\ subscribed' = subscribed
    BY <1>6 DEF ApplyDecision
  <2> HIDE DEF i, row
  <2>4. DOMAIN tWrote' \subseteq DOMAIN tRow'
    BY <1>1, <2>1, <2>2 DEF TickerType, Put, Over
  <2> QED
    BY <1>1, <2>3, <2>4 DEF TickerType
<1>7. CASE StaleTick \/ CloseFails \/ CommitTick \/ Crash
  <2>1. Finished
    BY <1>7 DEF StaleTick, CloseFails, CommitTick, Crash
  <2> QED
    BY <1>1, <2>1, NoRowsIs DEF TickerType, Finished
<1> QED
  BY <1>2, <1>3, <1>4, <1>5, <1>6, <1>7 DEF Next, OpenerNext, TickerNext, OutsideNext, vars

LEMMA ToldTypeKept ==
  ASSUME DInv, [Next]_vars
  PROVE  ToldType'
<1>1. ToldType /\ faults \in Nat /\ MaxFaults \in Nat
  BY TypeParts, DemoConstants DEF DInv, ToldType
<1>2. CASE UNCHANGED <<told, faults>>
  BY <1>1, <1>2 DEF ToldType
<1>3. CASE AnnounceOpened /\ UNCHANGED faults
  <2>1. nextId - 1 \in Ids
    BY <1>3 DEF AnnounceOpened, DInv, OpenerInv, TypeOK
  <2> QED
    BY <1>1, <1>3, <2>1 DEF ToldType, AnnounceOpened
<1>4. CASE AnnounceClosed /\ UNCHANGED faults
  <2>1. tTodo # {} /\ tTodo \subseteq Ids
    BY <1>4 DEF AnnounceClosed, DInv, TypeOK, TickerInv
  <2>2. Least(tTodo) \in Ids
    BY <2>1, IdsAreNat, LeastIsIn
  <2> QED
    BY <1>1, <1>4, <2>2 DEF ToldType, AnnounceClosed
<1>5. CASE (OpenFails \/ CloseFails \/ Crash) /\ UNCHANGED told
  BY <1>1, <1>5 DEF ToldType, OpenFails, CloseFails, Crash
<1> QED
  BY <1>2, <1>3, <1>4, <1>5
  DEF Next, OpenerNext, TickerNext, OutsideNext, vars, Crash

LEMMA TypeKept ==
  ASSUME DInv, [Next]_vars
  PROVE  TypeOK'
<1>1. IngestTypeOK'
  <2>1. CASE IngestNext
    BY <2>1, Appends DEF DInv
  <2>2. CASE UNCHANGED ingestVars
    BY <2>2 DEF DInv, TypeOK, IngestTypeOK, ingestVars
  <2> QED
    BY <2>1, <2>2 DEF Next, OpenerNext, TickerNext, OutsideNext, vars, Crash
<1> QED
  BY <1>1, BotTypeKept, GroupTypeKept, OpenerTypeKept, TickerTypeKept, ToldTypeKept, TypePartsNext

-----------------------------------------------------------------------------
(* The committed rows.                                                      *)

\* Ids are given out once, accounts are not closed, messages are not taken back.
LEMMA NothingShrinks ==
  ASSUME DInv, [Next]_vars
  PROVE  /\ nextId \in Nat /\ nextId' \in Nat /\ nextId <= nextId'
         /\ accounts \subseteq accounts' /\ told \subseteq told'
<1>1. nextId \in Nat
  BY DEF DInv, TypeOK
<1>2. CASE UNCHANGED <<nextId, accounts, told>>
  BY <1>1, <1>2
<1>3. CASE OpenForUser /\ UNCHANGED <<accounts, told>>
  BY <1>1, <1>3 DEF OpenForUser
<1>4. CASE UNCHANGED <<nextId, accounts>> /\ told \subseteq told'
  BY <1>1, <1>4
<1>5. CASE UNCHANGED <<nextId, told>> /\ accounts \subseteq accounts'
  BY <1>1, <1>5
<1>6. CASE OpenerNext
  BY <1>2, <1>3, <1>4, <1>6
  DEF OpenerNext, ReadPending, ReadFresh, BatchDone, SkipRecord, StartRecord, SkipUser,
      Acknowledge, AnnounceOpened, OpenFails, CommitOpened, botVars
<1>7. CASE TickerNext
  BY <1>2, <1>4, <1>7
  DEF TickerNext, AnnounceClosed, openerVars, botVars
<1>8. CASE OutsideNext
  BY <1>2, <1>5, <1>8
  DEF OutsideNext, OpenDemo, ResetDemo, ChangeRiskModel, Crash, openerVars, botVars
<1> QED
  BY <1>2, <1>6, <1>7, <1>8 DEF Next, vars, openerVars, botVars

\* Who writes the committed rows.
LEMMA BookWriters ==
  ASSUME [Next]_vars
  PROVE  \/ UNCHANGED trades
         \/ CommitOpened /\ UNCHANGED <<accounts, balance, tickerVars, told>>
         \/ CommitTick /\ UNCHANGED <<accounts, openerVars, told>>
         \/ \E u \in Users : ResetDemo(u) /\ UNCHANGED <<openerVars, tickerVars, told>>
BY DEF Next, OpenerNext, TickerNext, OutsideNext, OpenDemo, ChangeRiskModel, StaleTick,
       CloseFails, Crash, vars, botVars

\* What the ticker commits: results and fills of open trades that are still on
\* record.
LEMMA TickRows ==
  ASSUME DInv, CommitTick
  PROVE  /\ DOMAIN trades' = DOMAIN trades /\ DOMAIN tWrote \subseteq DOMAIN trades
         /\ \A i \in DOMAIN tWrote :
              /\ trades'[i] = tWrote[i] /\ trades[i] = tRow[i] /\ trades[i].status = "open"
              /\ tWrote[i].user = trades[i].user /\ tWrote[i].signal = trades[i].signal
              /\ trades[i].filled \subseteq tWrote[i].filled
              /\ Sound(tWrote[i])
              /\ tWrote[i].status = "open" \/ <<"closed", i>> \in told
         /\ \A i \in DOMAIN trades : i \notin DOMAIN tWrote => trades'[i] = trades[i]
<1>1. trades' = Over(tWrote, trades) /\ tPc = "trade"
  BY DEF CommitTick
<1>2. DOMAIN tWrote \subseteq DOMAIN trades
  BY DEF DInv, TickerInv, UpdatedRow
<1>3. /\ DOMAIN trades' = DOMAIN trades
      /\ \A i \in DOMAIN tWrote : trades'[i] = tWrote[i]
      /\ \A i \in DOMAIN trades : i \notin DOMAIN tWrote => trades'[i] = trades[i]
  BY <1>1, <1>2 DEF Over
<1>4. ASSUME NEW i \in DOMAIN tWrote
      PROVE  /\ trades[i] = tRow[i] /\ trades[i].status = "open"
             /\ tWrote[i].user = trades[i].user /\ tWrote[i].signal = trades[i].signal
             /\ trades[i].filled \subseteq tWrote[i].filled
             /\ Sound(tWrote[i])
             /\ tWrote[i].status = "open" \/ <<"closed", i>> \in told
  <2>1. UpdatedRow(i) /\ ReadRow(i)
    BY DEF DInv, TickerInv
  <2>2. trades[i] = tRow[i] /\ trades[i].status = "open"
    BY <1>2, <2>1 DEF ReadRow
  <2> QED
    BY <1>1, <2>1, <2>2 DEF UpdatedRow, IsClosing
<1> QED
  BY <1>2, <1>3, <1>4

LEMMA BookKept ==
  ASSUME DInv, [Next]_vars
  PROVE  BookInv'
<1>1. /\ nextId \in Nat /\ nextId' \in Nat /\ nextId <= nextId'
      /\ accounts \subseteq accounts' /\ told \subseteq told'
  BY NothingShrinks
<1>2. DOMAIN trades \subseteq Ids /\ \A i \in DOMAIN trades : CommittedRow(i)
  BY DEF DInv, TypeOK, BookInv
<1>3. OneOpenTradePerSignal
  BY DEF DInv, BookInv
<1>4. ASSUME NEW i \in DOMAIN trades, trades'[i] = trades[i]
      PROVE  CommittedRow(i)'
  <2>1. i \in Int
    BY <1>2 DEF Ids
  <2> QED
    BY <1>1, <1>2, <1>4, <2>1 DEF CommittedRow
<1>5. CASE UNCHANGED trades
  BY <1>3, <1>4, <1>5 DEF BookInv, OneOpenTradePerSignal
<1>6. CASE CommitOpened /\ UNCHANGED <<accounts, told>>
  <2>1. /\ trades' = Over(oNew, trades) /\ oPc = "user" /\ nextId' = nextId
    BY <1>6 DEF CommitOpened
  <2>2. /\ DOMAIN trades' = DOMAIN oNew \cup DOMAIN trades
        /\ \A i \in DOMAIN oNew : trades'[i] = oNew[i] /\ i \notin DOMAIN trades
        /\ \A i \in DOMAIN trades : trades'[i] = trades[i]
    BY <2>1 DEF Over, DInv, OpenerInv, InsertedRow
  <2>3. ASSUME NEW i \in DOMAIN oNew
        PROVE  CommittedRow(i)'
    BY <1>6, <2>1, <2>2, <2>3 DEF CommittedRow, DInv, OpenerInv, InsertedRow, IsAnnounced
  <2>4. \A i \in DOMAIN trades' : CommittedRow(i)'
    BY <1>4, <2>2, <2>3
  <2>5. OneOpenTradePerSignal'
    <3> SUFFICES ASSUME NEW i \in DOMAIN trades', NEW j \in DOMAIN trades',
                        trades'[i].status = "open", trades'[j].status = "open",
                        trades'[i].user = trades'[j].user,
                        trades'[i].signal = trades'[j].signal
                 PROVE  i = j
      BY DEF OneOpenTradePerSignal
    <3>1. CASE i \in DOMAIN trades /\ j \in DOMAIN trades
      BY <1>3, <2>2, <3>1 DEF OneOpenTradePerSignal
    <3>2. CASE i \in DOMAIN oNew /\ j \in DOMAIN oNew
      BY <2>2, <3>2 DEF DInv, OpenerInv
    <3>3. ASSUME NEW k \in DOMAIN trades, NEW l \in DOMAIN oNew,
                 trades'[k].status = "open", trades'[k].user = trades'[l].user,
                 trades'[k].signal = trades'[l].signal
          PROVE  FALSE
      <4>1. InsertedRow(l)
        BY DEF DInv, OpenerInv
      <4>2. /\ trades[k].status = "open" /\ trades[k].user = oNew[l].user
            /\ trades[k].signal = oNew[l].signal
        BY <2>2, <3>3
      <4> QED
        BY <4>1, <4>2 DEF InsertedRow, HasOpenTrade
    <3> QED
      BY <2>2, <3>1, <3>2, <3>3
  <2> QED
    BY <2>4, <2>5 DEF BookInv
<1>7. CASE CommitTick /\ UNCHANGED <<accounts, told, openerVars>>
  <2>1. ASSUME NEW i \in DOMAIN tWrote
        PROVE  CommittedRow(i)'
    <3>1. /\ i \in DOMAIN trades /\ trades'[i] = tWrote[i] /\ tWrote[i].user = trades[i].user
          /\ Sound(tWrote[i]) /\ (tWrote[i].status = "open" \/ <<"closed", i>> \in told)
      BY <1>7, TickRows
    <3>2. CommittedRow(i)
      BY <1>2, <3>1
    <3> QED
      BY <1>7, <3>1, <3>2 DEF CommittedRow, openerVars
  <2>2. \A i \in DOMAIN trades' : CommittedRow(i)'
    BY <1>4, <1>7, <2>1, TickRows
  <2>3. \A i \in DOMAIN trades' :
          /\ i \in DOMAIN trades
          /\ trades'[i].user = trades[i].user /\ trades'[i].signal = trades[i].signal
          /\ trades'[i].status = "open" => trades[i].status = "open"
    BY <1>7, TickRows
  <2> QED
    BY <1>3, <2>2, <2>3 DEF BookInv, OneOpenTradePerSignal
<1>8. ASSUME NEW u \in Users, ResetDemo(u)
      PROVE  BookInv'
  <2>1. \A i \in DOMAIN trades' : i \in DOMAIN trades /\ trades'[i] = trades[i]
    BY <1>8 DEF ResetDemo
  <2> QED
    BY <1>3, <1>4, <2>1 DEF BookInv, OneOpenTradePerSignal
<1> QED
  BY <1>5, <1>6, <1>7, <1>8, BookWriters

-----------------------------------------------------------------------------
(* The rows of the ticker.                                                  *)

\* The decision on a row that is open leads to a row.
LEMMA AfterTickIsSound ==
  ASSUME NEW row, Sound(row), row.status = "open", tPrice \in Nat
  PROVE  /\ Sound(AfterTick(row))
         /\ AfterTick(row).user = row.user /\ AfterTick(row).signal = row.signal
         /\ row.filled \subseteq AfterTick(row).filled
         /\ AfterTick(row).status \in {"open", "closed"}
<1> DEFINE d == Decision(row)
           after == [row EXCEPT !.filled = d.filled, !.reason = d.reason, !.pnl = d.pnl,
                                !.status = IF d.close THEN "closed" ELSE "open"]
<1>1. Within(row, d)
  BY PriceIsWithin DEF Decision
<1>2. AfterTick(row) = after
  BY DEF AfterTick
<1> HIDE DEF d
<1>3. row \in Rows /\ d.filled \subseteq Nat
  BY <1>1 DEF Sound, Within
<1>4. /\ after \in Rows
      /\ after.user = row.user /\ after.signal = row.signal /\ after.leverage = row.leverage
      /\ after.margin = row.margin /\ after.qty = row.qty /\ after.liq = row.liq
      /\ after.legs = row.legs /\ after.filled = d.filled /\ after.reason = d.reason
      /\ after.pnl = d.pnl /\ after.status = IF d.close THEN "closed" ELSE "open"
  BY <1>1, <1>3 DEF Rows, Within
<1> HIDE DEF after
<1>5. Sized(after)
  BY <1>1, <1>4 DEF Sound, Sized, Within
<1>6. Bounded(after)
  BY <1>1, <1>4 DEF Bounded, Within
<1> QED
  BY <1>1, <1>2, <1>4, <1>5, <1>6 DEF Sound, Within

\* What the steps of others leave of the ticker's rows.
LEMMA TickerUntouched ==
  ASSUME DInv, [Next]_vars, UNCHANGED tickerVars,
         \A i \in DOMAIN tRow : i \in DOMAIN trades' => i \in DOMAIN trades /\ trades'[i] = trades[i],
         \A i \in DOMAIN tWrote : i \in DOMAIN trades'
  PROVE  TickerInv'
<1>1. /\ nextId \in Nat /\ nextId' \in Nat /\ nextId <= nextId' /\ told \subseteq told'
  BY NothingShrinks
<1>2. ASSUME NEW i \in DOMAIN tRow
      PROVE  ReadRow(i)'
  <2>1. ReadRow(i) /\ i \in Int
    BY DEF DInv, TickerInv, ReadRow, Ids
  <2> QED
    BY <1>1, <2>1 DEF ReadRow, tickerVars
<1>3. ASSUME NEW i \in DOMAIN tWrote
      PROVE  UpdatedRow(i)'
  <2>1. UpdatedRow(i)
    BY DEF DInv, TickerInv
  <2> QED
    BY <1>1, <2>1 DEF UpdatedRow, IsClosing, tickerVars
<1> QED
  BY <1>2, <1>3 DEF DInv, TickerInv, tickerVars

LEMMA TickerCleared ==
  ASSUME Finished
  PROVE  TickerInv'
<1>1. NoBalance \in [Users -> Int]
  BY DemoConstants DEF NoBalance
<1> QED
  BY <1>1, NoRowsIs DEF Finished, TickerInv

LEMMA TickerKept ==
  ASSUME DInv, [Next]_vars
  PROVE  TickerInv'
<1>1. /\ nextId \in Nat /\ nextId' \in Nat /\ nextId <= nextId' /\ told \subseteq told'
  BY NothingShrinks
<1>2. TickerInv /\ tTodo \subseteq Ids
  BY DEF DInv, TypeOK
<1>3. CASE UNCHANGED <<trades, tickerVars>>
  BY <1>2, <1>3, TickerUntouched DEF TickerInv, UpdatedRow
<1>4. CASE CommitOpened /\ UNCHANGED tickerVars
  <2>1. \A i \in DOMAIN tRow : i \notin DOMAIN oNew
    BY DEF DInv, OpenerInv, InsertedRow
  <2>2. trades' = Over(oNew, trades)
    BY <1>4 DEF CommitOpened
  <2>3. \A i \in DOMAIN tRow : i \in DOMAIN trades' => i \in DOMAIN trades /\ trades'[i] = trades[i]
    BY <2>1, <2>2 DEF Over
  <2>4. \A i \in DOMAIN tWrote : i \in DOMAIN trades'
    BY <1>2, <2>2 DEF Over, TickerInv, UpdatedRow
  <2> QED
    BY <1>4, <2>3, <2>4, TickerUntouched
<1>5. ASSUME NEW u \in Users, ResetDemo(u), UNCHANGED tickerVars
      PROVE  TickerInv'
  <2>1. /\ DOMAIN trades' = {j \in DOMAIN trades : trades[j].user # u}
        /\ \A i \in DOMAIN trades' : trades'[i] = trades[i]
    BY <1>5 DEF ResetDemo
  <2>2. ASSUME NEW i \in DOMAIN tWrote
        PROVE  i \in DOMAIN trades'
    <3>1. UpdatedRow(i) /\ ReadRow(i)
      BY <1>2 DEF TickerInv
    <3>2. tWrote[i].user # u
      BY <1>5 DEF ResetDemo
    <3> QED
      BY <2>1, <3>1, <3>2 DEF UpdatedRow, ReadRow
  <2> QED
    BY <1>5, <2>1, <2>2, TickerUntouched
<1>6. CASE Subscribe /\ UNCHANGED <<trades, told, nextId>>
  BY <1>2, <1>6 DEF Subscribe, TickerInv, ReadRow, UpdatedRow, IsClosing
<1>7. ASSUME NEW sym \in Symbols, NEW price \in Prices, ReceivePrice(sym, price),
             UNCHANGED <<trades, told, nextId>>
      PROVE  TickerInv'
  <2>1. /\ tPrice' \in Nat /\ tBalance' \in [Users -> Int]
    BY <1>7, DemoConstants DEF ReceivePrice, DInv, TypeOK
  <2>2. tPc' = "trade" /\ tPaid' = {} /\ tTodo' = OpenIds(sym) /\ DOMAIN tRow' = OpenIds(sym)
    BY <1>2, <1>7 DEF ReceivePrice, TickerInv
  <2>3. DOMAIN tWrote' = {}
    BY <1>2, <1>7 DEF ReceivePrice, TickerInv
  <2>4. ASSUME NEW i \in OpenIds(sym)
        PROVE  ReadRow(i)'
    <3>1. /\ tRow'[i] = trades[i] /\ i \in DOMAIN trades /\ trades[i].status = "open"
      BY <1>7 DEF ReceivePrice, OpenIds
    <3>2. CommittedRow(i) /\ i \in Ids
      BY <3>1 DEF DInv, BookInv, TypeOK
    <3> QED
      BY <1>7, <3>1, <3>2 DEF ReadRow, CommittedRow
  <2> QED
    BY <2>1, <2>2, <2>3, <2>4 DEF TickerInv
<1>8. CASE LeaveTrade /\ UNCHANGED <<trades, told, nextId>>
  <2>1. /\ tPc = "trade" /\ tPc' = tPc /\ tTodo' \subseteq tTodo
        /\ UNCHANGED <<tPrice, tRow, tBalance, tWrote, tPaid>>
    BY <1>8 DEF LeaveTrade
  <2>2. \A i \in DOMAIN tRow : ReadRow(i)'
    BY <1>2, <1>8, <2>1 DEF TickerInv, ReadRow
  <2>3. ASSUME NEW i \in DOMAIN tWrote
        PROVE  UpdatedRow(i)'
    BY <1>2, <1>8, <2>1 DEF TickerInv, UpdatedRow, IsClosing
  <2> QED
    BY <1>2, <2>1, <2>2, <2>3 DEF TickerInv
<1>9. CASE AnnounceClosed /\ UNCHANGED <<trades, nextId>>
  <2> DEFINE c == Least(tTodo)
  <2>1. /\ tPc = "announce" /\ tPc' = "trade" /\ tTodo' = tTodo \ {c}
        /\ told' = told \cup {<<"closed", c>>}
        /\ UNCHANGED <<tPrice, tRow, tBalance, tWrote, tPaid>>
    BY <1>9 DEF AnnounceClosed
  <2>2. \A i \in DOMAIN tRow : ReadRow(i)'
    BY <1>2, <1>9, <2>1 DEF TickerInv, ReadRow
  <2>3. ASSUME NEW i \in DOMAIN tWrote
        PROVE  UpdatedRow(i)'
    <3>1. UpdatedRow(i)
      BY <1>2 DEF TickerInv
    <3>2. i \in tTodo => i = c
      BY <3>1 DEF UpdatedRow, IsClosing
    <3>3. tWrote[i].status = "open" \/ <<"closed", i>> \in told'
      BY <2>1, <3>1 DEF UpdatedRow, IsClosing
    <3> QED
      BY <1>9, <2>1, <3>1, <3>2, <3>3 DEF UpdatedRow
  <2> QED
    BY <1>2, <2>1, <2>2, <2>3 DEF TickerInv
<1>10. CASE ApplyDecision /\ UNCHANGED <<trades, told, nextId>>
  <2>0. PICK c : c = Least(tTodo)
    OBVIOUS
  <2> DEFINE row == AfterTick(tRow[c])
  <2>1. /\ c \in tTodo /\ c \in DOMAIN tRow /\ tTodo # {} /\ tPc = "trade"
    BY <1>2, <1>10, <2>0, IdsAreNat, LeastIsIn DEF ApplyDecision, TickerInv
  <2>2. ReadRow(c)
    BY <1>2, <2>1 DEF TickerInv
  <2>3. /\ Sound(row) /\ row.user = tRow[c].user /\ row.signal = tRow[c].signal
        /\ tRow[c].filled \subseteq row.filled /\ row.status \in {"open", "closed"}
        /\ row.user \in Users /\ row.pnl \in Int
    <3>1. Sound(tRow[c]) /\ tRow[c].status = "open" /\ tPrice \in Nat
      BY <1>2, <2>2 DEF TickerInv, ReadRow
    <3>2. /\ Sound(row) /\ row.user = tRow[c].user /\ row.signal = tRow[c].signal
          /\ tRow[c].filled \subseteq row.filled /\ row.status \in {"open", "closed"}
      BY <3>1, AfterTickIsSound
    <3> HIDE DEF row
    <3>3. row.user \in Users /\ row.pnl \in Int
      BY <3>2 DEF Sound, Rows
    <3> QED
      BY <3>2, <3>3
  <2>4. c \notin DOMAIN tWrote
    BY <1>2, <2>1 DEF TickerInv, UpdatedRow, IsClosing
  <2>5. /\ c \in DOMAIN trades /\ tWrote' = Put(c, row, tWrote)
        /\ tRow' = tRow /\ tPrice' = tPrice
        /\ IF row.status = "closed"
           THEN /\ tBalance' = [tBalance EXCEPT ![row.user] = @ + row.pnl]
                /\ tPaid' = tPaid \cup {row.user} /\ tPc' = "announce" /\ tTodo' = tTodo
           ELSE /\ tBalance' = tBalance /\ tPaid' = tPaid
                /\ tPc' = "trade" /\ tTodo' = tTodo \ {c}
    BY <1>10, <2>0 DEF ApplyDecision, RowIsGone
  <2> HIDE DEF row
  <2>6. /\ DOMAIN tWrote' = {c} \cup DOMAIN tWrote /\ tWrote'[c] = row
        /\ \A i \in DOMAIN tWrote : tWrote'[i] = tWrote[i]
    BY <2>4, <2>5 DEF Put, Over
  <2>7. tBalance' \in [Users -> Int]
    BY <1>2, <2>3, <2>5 DEF TickerInv
  <2>8. \A i \in DOMAIN tRow' : ReadRow(i)'
    BY <1>2, <1>10, <2>5 DEF TickerInv, ReadRow
  <2>9. UpdatedRow(c)'
    BY <1>10, <2>0, <2>1, <2>3, <2>5, <2>6 DEF UpdatedRow, IsClosing
  <2>10. ASSUME NEW i \in DOMAIN tWrote
         PROVE  UpdatedRow(i)'
    <3>1. UpdatedRow(i)
      BY <1>2 DEF TickerInv
    <3> QED
      BY <1>10, <2>1, <2>5, <2>6, <3>1 DEF UpdatedRow, IsClosing
  <2>11. tPaid' = {tWrote'[i].user : i \in {j \in DOMAIN tWrote' : tWrote'[j].status = "closed"}}
    BY <1>2, <2>5, <2>6 DEF TickerInv
  <2>12. tTodo' \subseteq DOMAIN tRow' /\ DOMAIN tWrote' \subseteq DOMAIN tRow'
    BY <1>2, <2>1, <2>5, <2>6 DEF TickerInv
  <2>13. /\ tPc' # "idle" /\ (tPc' = "announce" => tTodo' # {}) /\ tPrice' \in Nat
    BY <1>2, <2>1, <2>5 DEF TickerInv
  <2>14. \A i \in DOMAIN tWrote' : UpdatedRow(i)'
    BY <2>6, <2>9, <2>10
  <2> QED
    BY <2>7, <2>8, <2>11, <2>12, <2>13, <2>14 DEF TickerInv
<1>11. CASE Finished
  BY <1>11, TickerCleared
<1> QED
  BY <1>3, <1>4, <1>5, <1>6, <1>7, <1>8, <1>9, <1>10, <1>11
  DEF Next, OpenerNext, TickerNext, OutsideNext, OpenDemo, ChangeRiskModel, StaleTick,
      CloseFails, CommitTick, Crash, vars, botVars, openerVars

-----------------------------------------------------------------------------
(* The rows of the opener.                                                  *)

LEMMA RecordStays ==
  ASSUME DInv, [Next]_vars, batch' = batch, batch # {}
  PROVE  SignalInHand' = SignalInHand
<1>1. Least(batch) \in 1 .. Len(stream)
  BY RecordType DEF DInv
<1>2. \A k \in 1 .. Len(stream) : stream'[k] = stream[k]
  <2>1. CASE IngestNext
    BY <2>1, Appends DEF DInv
  <2>2. CASE UNCHANGED stream
    BY <2>2
  <2> QED
    BY <2>1, <2>2 DEF Next, OpenerNext, TickerNext, OutsideNext, vars, Crash, ingestVars
<1> QED
  BY <1>1, <1>2 DEF SignalInHand, Record

OpenerRest == <<batch, oPc, oTodo, oLev, oNew, nextId>>

\* What the steps of others leave of the opener's rows.
LEMMA OpenerUntouched ==
  ASSUME DInv, [Next]_vars, UNCHANGED OpenerRest,
         \A i \in DOMAIN oNew : i \notin DOMAIN trades' /\ i \notin DOMAIN tRow',
         \A j \in DOMAIN trades' : trades'[j].status = "open" =>
           /\ j \in DOMAIN trades /\ trades[j].status = "open"
           /\ trades[j].user = trades'[j].user /\ trades[j].signal = trades'[j].signal
  PROVE  OpenerInv'
<1> USE DEF OpenerRest
<1>1. accounts \subseteq accounts' /\ told \subseteq told'
  BY NothingShrinks
<1>2. OpenerInv
  BY DEF DInv
<1>3. oPc \in {"user", "announce"} => SignalInHand' = SignalInHand
  BY <1>2, RecordStays DEF OpenerInv
<1>4. ASSUME NEW i \in DOMAIN oNew
      PROVE  InsertedRow(i)'
  <2>1. InsertedRow(i) /\ SignalInHand' = SignalInHand
    BY <1>2, <1>3 DEF OpenerInv
  <2>2. ~ HasOpenTrade(oNew[i].user, SignalInHand)'
    BY <2>1 DEF InsertedRow, HasOpenTrade
  <2> QED
    BY <1>1, <2>1, <2>2 DEF InsertedRow, IsAnnounced
<1> QED
  BY <1>1, <1>2, <1>3, <1>4 DEF OpenerInv

LEMMA OpenerCleared ==
  ASSUME oPc' \in {"read", "next"}, oTodo' = {}, oNew' = NoRows
  PROVE  OpenerInv'
BY NoRowsIs DEF OpenerInv

LEMMA OpenerKept ==
  ASSUME DInv, [Next]_vars
  PROVE  OpenerInv'
<1>1. /\ nextId \in Nat /\ nextId' \in Nat /\ nextId <= nextId'
      /\ accounts \subseteq accounts' /\ told \subseteq told'
  BY NothingShrinks
<1>2. OpenerInv /\ oTodo \subseteq Users /\ accounts \subseteq Users
  BY DEF DInv, TypeOK
<1>3. CASE UNCHANGED <<OpenerRest, trades>> /\ DOMAIN tRow' \subseteq DOMAIN trades \cup DOMAIN tRow
  BY <1>2, <1>3, OpenerUntouched DEF OpenerInv, InsertedRow
<1>4. CASE CommitTick /\ UNCHANGED OpenerRest
  <2>1. /\ DOMAIN trades' = DOMAIN trades
        /\ \A j \in DOMAIN trades' :
             /\ trades[j].user = trades'[j].user /\ trades[j].signal = trades'[j].signal
             /\ trades'[j].status = "open" => trades[j].status = "open"
    BY <1>4, TickRows
  <2>2. DOMAIN tRow' = {}
    BY <1>4, NoRowsIs DEF CommitTick, Finished
  <2> QED
    BY <1>2, <1>4, <2>1, <2>2, OpenerUntouched DEF OpenerInv, InsertedRow
<1>5. ASSUME NEW u \in Users, ResetDemo(u), UNCHANGED <<OpenerRest, tickerVars>>
      PROVE  OpenerInv'
  <2>1. /\ DOMAIN trades' \subseteq DOMAIN trades
        /\ \A j \in DOMAIN trades' : trades'[j] = trades[j]
    BY <1>5 DEF ResetDemo
  <2>2. \A i \in DOMAIN oNew : i \notin DOMAIN trades' /\ i \notin DOMAIN tRow'
    BY <1>2, <1>5, <2>1 DEF OpenerInv, InsertedRow, tickerVars
  <2> QED
    BY <1>5, <2>1, <2>2, OpenerUntouched
<1>6. CASE (ReadPending \/ ReadFresh \/ BatchDone) /\ UNCHANGED <<trades, tRow, told>>
  BY <1>1, <1>2, <1>6 DEF OpenerInv, ReadPending, ReadFresh, BatchDone
<1>7. CASE SkipRecord
  BY <1>1, <1>2, <1>7 DEF OpenerInv, SkipRecord, groupVars
<1>8. CASE Acknowledge
  BY <1>1, <1>2, <1>8 DEF OpenerInv, Acknowledge
<1>9. CASE StartRecord
  <2>1. oNew' = NoRows /\ batch # {} /\ oPc = "next"
    BY <1>9 DEF StartRecord
  <2>2. CASE signalRow[SignalInHand] = "none"
    <3>1. oPc' = "next" /\ oTodo' = oTodo
      BY <1>9, <2>2 DEF StartRecord
    <3> QED
      BY <1>1, <1>2, <2>1, <3>1, NoRowsIs DEF OpenerInv
  <2>3. CASE signalRow[SignalInHand] # "none"
    <3>1. /\ oPc' = "user" /\ oTodo' \subseteq accounts /\ batch' = batch
          /\ oLev' = SignalOf[SignalInHand].leverage
      BY <1>9, <2>3 DEF StartRecord
    <3>2. SignalInHand' = SignalInHand
      BY <2>1, <3>1, RecordStays
    <3>3. oLev' = SignalOf[SignalInHand'].leverage
      BY <3>1, <3>2
    <3> QED
      BY <1>1, <2>1, <3>1, <3>3, NoRowsIs DEF OpenerInv
  <2> QED
    BY <2>2, <2>3
<1>10. CASE SkipUser /\ UNCHANGED <<trades, tRow, told, accounts>>
  <2>1. /\ oPc = "user" /\ oPc' = oPc /\ oTodo' \subseteq oTodo
        /\ UNCHANGED <<batch, oLev, oNew, nextId>>
    BY <1>10 DEF SkipUser, groupVars
  <2>2. batch # {} /\ SignalInHand' = SignalInHand
    BY <1>2, <2>1, RecordStays DEF OpenerInv
  <2>3. ASSUME NEW i \in DOMAIN oNew
        PROVE  InsertedRow(i)'
    <3>1. InsertedRow(i)
      BY <1>2 DEF OpenerInv
    <3>2. ~ HasOpenTrade(oNew[i].user, SignalInHand)'
      BY <1>10, <2>1, <2>2, <3>1 DEF InsertedRow, HasOpenTrade
    <3> QED
      BY <1>10, <2>1, <2>2, <3>1, <3>2 DEF InsertedRow, IsAnnounced
  <2> QED
    BY <1>2, <1>10, <2>1, <2>2, <2>3 DEF OpenerInv
<1>11. CASE AnnounceOpened /\ UNCHANGED <<trades, tRow, accounts>>
  <2>0. PICK c : c = Least(oTodo)
    OBVIOUS
  <2>1. /\ oPc = "announce" /\ oPc' = "user" /\ oTodo' = oTodo \ {c}
        /\ told' = told \cup {<<"opened", nextId - 1>>}
        /\ UNCHANGED <<batch, oLev, oNew, nextId>>
    BY <1>11, <2>0 DEF AnnounceOpened, groupVars
  <2>2. batch # {} /\ SignalInHand' = SignalInHand
    BY <1>2, <2>1, RecordStays DEF OpenerInv
  <2>3. ASSUME NEW i \in DOMAIN oNew
        PROVE  InsertedRow(i)'
    <3>1. InsertedRow(i)
      BY <1>2 DEF OpenerInv
    <3>2. ~ HasOpenTrade(oNew[i].user, SignalInHand)'
      BY <1>11, <2>1, <2>2, <3>1 DEF InsertedRow, HasOpenTrade
    <3>3. <<"opened", i>> \in told'
      BY <2>1, <3>1 DEF InsertedRow, IsAnnounced
    <3>4. oNew[i].user \notin oTodo'
      BY <1>2, <2>0, <2>1, <3>1 DEF OpenerInv, InsertedRow, IsAnnounced
    <3> QED
      BY <1>11, <2>1, <2>2, <3>1, <3>2, <3>3, <3>4 DEF InsertedRow
  <2> QED
    BY <1>2, <1>11, <2>1, <2>2, <2>3 DEF OpenerInv
<1>12. CASE OpenForUser /\ UNCHANGED <<trades, tRow, told, accounts>>
  <2>0. PICK c : c = Least(oTodo)
    OBVIOUS
  <2>1. PICK row : row = NewRow(c)
    OBVIOUS
  <2>2. /\ c \in oTodo /\ Sound(row) /\ row.status = "open"
        /\ row.user = c /\ row.signal = SignalInHand
    BY <1>12, <2>0, <2>1, NewRowIsSound
  <2>3. /\ oPc = "user" /\ oPc' = "announce" /\ oTodo' = oTodo /\ oLev' = oLev
        /\ nextId' = nextId + 1 /\ oNew' = Put(nextId, row, oNew)
        /\ ~ HasOpenTrade(c, SignalInHand) /\ batch' = batch
    BY <1>12, <2>0, <2>1 DEF OpenForUser, LeverageAfterCreate, groupVars
  <2>4. batch # {} /\ SignalInHand' = SignalInHand
    BY <1>2, <2>3, RecordStays DEF OpenerInv
  <2>5. \A i \in DOMAIN oNew : InsertedRow(i) /\ i \in Nat /\ i # nextId
    <3>1. ASSUME NEW i \in DOMAIN oNew
          PROVE  InsertedRow(i) /\ i \in Nat /\ i # nextId
      <4>1. InsertedRow(i) /\ i < nextId
        BY <1>2 DEF OpenerInv, InsertedRow
      <4>2. i \in Nat
        BY IdsAreNat DEF DInv, TypeOK
      <4> QED
        BY <1>1, <4>1, <4>2
    <3> QED
      BY <3>1
  <2>6. /\ DOMAIN oNew' = {nextId} \cup DOMAIN oNew /\ oNew'[nextId] = row
        /\ \A i \in DOMAIN oNew : oNew'[i] = oNew[i]
    BY <2>3, <2>5 DEF Put, Over
  <2>7. PICK n \in Nat : n = nextId
    BY <1>1
  <2>8. InsertedRow(n)'
    <3>1. n \notin DOMAIN trades /\ n \notin DOMAIN tRow
      <4>1. n \in DOMAIN trades => n < nextId
        BY DEF DInv, BookInv, CommittedRow
      <4>2. n \in DOMAIN tRow => n < nextId
        BY DEF DInv, TickerInv, ReadRow
      <4> QED
        BY <2>7, <4>1, <4>2
    <3>2. ~ HasOpenTrade(oNew[n].user, SignalInHand)'
      BY <1>12, <2>2, <2>3, <2>4, <2>6, <2>7 DEF HasOpenTrade
    <3>3. IsAnnounced(n)' /\ n < nextId'
      BY <2>3, <2>7 DEF IsAnnounced
    <3> QED
      BY <1>2, <1>12, <2>2, <2>4, <2>6, <2>7, <3>1, <3>2, <3>3 DEF InsertedRow, OpenerInv
  <2>9. ASSUME NEW i \in DOMAIN oNew
        PROVE  InsertedRow(i)' /\ oNew[i].user # c
    <3>1. InsertedRow(i) /\ i \in Nat
      BY <2>5
    <3>2. ~ HasOpenTrade(oNew[i].user, SignalInHand)'
      BY <1>12, <2>4, <2>6, <3>1 DEF InsertedRow, HasOpenTrade
    <3>3. oNew[i].user \notin oTodo /\ <<"opened", i>> \in told
      BY <2>3, <3>1 DEF InsertedRow, IsAnnounced
    <3> QED
      BY <1>1, <1>12, <2>2, <2>3, <2>4, <2>6, <3>1, <3>2, <3>3 DEF InsertedRow
  <2>10. \A i \in DOMAIN oNew' : InsertedRow(i)'
    BY <2>6, <2>7, <2>8, <2>9
  <2>11. \A i, j \in DOMAIN oNew' : i # j => oNew'[i].user # oNew'[j].user
    BY <1>2, <2>2, <2>6, <2>9 DEF OpenerInv
  <2>12. /\ nextId' - 1 \in DOMAIN oNew' /\ oNew'[nextId' - 1].user = Least(oTodo')
         /\ oTodo' # {}
    BY <1>1, <2>0, <2>2, <2>3, <2>6
  <2>13. oLev' = SignalOf[SignalInHand'].leverage
    BY <1>2, <2>3, <2>4 DEF OpenerInv
  <2> QED
    BY <1>2, <1>12, <2>3, <2>4, <2>10, <2>11, <2>12, <2>13 DEF OpenerInv
<1>13. CASE OpenFails \/ Crash
  BY <1>13, OpenerCleared DEF OpenFails, Crash
<1>14. CASE CommitOpened /\ UNCHANGED accounts
  <2>1. /\ oPc = "user" /\ oPc' = "ack" /\ oTodo' = oTodo /\ oNew' = NoRows /\ batch' = batch
    BY <1>14 DEF CommitOpened, groupVars
  <2> QED
    BY <1>2, <1>14, <2>1, NoRowsIs DEF OpenerInv
<1>15. CASE OpenerNext
  BY <1>6, <1>7, <1>8, <1>9, <1>10, <1>11, <1>12, <1>13, <1>14, <1>15
  DEF OpenerNext, botVars, tickerVars
<1>16. CASE TickerNext
  <2>1. UNCHANGED OpenerRest
    BY <1>16 DEF TickerNext, groupVars, openerVars, OpenerRest
  <2>2. CASE CommitTick
    BY <1>4, <2>1, <2>2
  <2>3. ASSUME NEW sym \in Symbols, NEW price \in Prices, ReceivePrice(sym, price)
        PROVE  DOMAIN tRow' \subseteq DOMAIN trades
    BY <2>3 DEF ReceivePrice, OpenIds
  <2>4. CASE StaleTick \/ CloseFails
    <3>1. DOMAIN tRow' = {}
      BY <2>4, NoRowsIs DEF StaleTick, CloseFails, Finished
    <3> QED
      BY <1>3, <1>16, <2>1, <2>2, <2>4, <3>1 DEF TickerNext, botVars, StaleTick, CloseFails
  <2>5. CASE ~ CommitTick /\ ~ StaleTick /\ ~ CloseFails
    <3>1. UNCHANGED trades
      BY <1>16, <2>5 DEF TickerNext, botVars
    <3>2. DOMAIN tRow' \subseteq DOMAIN trades \cup DOMAIN tRow
      BY <1>16, <2>3, <2>5
      DEF TickerNext, Subscribe, LeaveTrade, ApplyDecision, AnnounceClosed
    <3> QED
      BY <1>3, <2>1, <3>1, <3>2
  <2> QED
    BY <2>2, <2>4, <2>5
<1>17. CASE OutsideNext
  BY <1>3, <1>5, <1>13, <1>17
  DEF OutsideNext, OpenDemo, ChangeRiskModel, botVars, groupVars, openerVars, tickerVars, OpenerRest
<1>18. CASE UNCHANGED vars
  BY <1>3, <1>18 DEF vars, botVars, groupVars, openerVars, tickerVars, OpenerRest
<1> QED
  BY <1>15, <1>16, <1>17, <1>18 DEF Next

-----------------------------------------------------------------------------
(* The balances.                                                            *)

Result(u) == [i \in Ids |-> IF i \in ClosedOf(u) THEN trades[i].pnl ELSE 0]

LEMMA ResultsAreTotals ==
  ASSUME TypeOK, NEW u
  PROVE  /\ ResultsOf(u) = Total(MaxTrades, Result(u)) /\ ResultsOf(u) \in Int
         /\ MaxTrades \in Nat
         /\ \A k \in 1 .. MaxTrades :
              /\ Result(u)[k] = IF k \in ClosedOf(u) THEN trades[k].pnl ELSE 0
              /\ Result(u)[k] \in Int
<1>1. ResultsOf(u) = Total(MaxTrades, Result(u)) /\ MaxTrades \in Nat
  BY IdsAreNat DEF ResultsOf, Result
<1>2. \A k \in 1 .. MaxTrades :
        /\ Result(u)[k] = IF k \in ClosedOf(u) THEN trades[k].pnl ELSE 0
        /\ Result(u)[k] \in Int
  BY DEF Result, Ids, ClosedOf, Closed, TypeOK, Rows
<1>3. ResultsOf(u) \in Int
  BY <1>1, <1>2, TotalType
<1> QED
  BY <1>1, <1>2, <1>3

LEMMA BookedIsTotal ==
  ASSUME DInv, NEW u
  PROVE  /\ Booked(u) \in Int /\ MaxTrades \in Nat
         /\ \A k \in 1 .. MaxTrades :
              /\ Booking(u)[k] =
                   IF k \in DOMAIN tWrote /\ tWrote[k].status = "closed" /\ tWrote[k].user = u
                   THEN tWrote[k].pnl ELSE 0
              /\ Booking(u)[k] \in Int
<1>1. MaxTrades \in Nat
  BY IdsAreNat
<1>2. \A k \in DOMAIN tWrote : tWrote[k].pnl \in Int
  BY DEF DInv, TickerInv, UpdatedRow, Sound, Rows
<1>3. \A k \in 1 .. MaxTrades :
        /\ Booking(u)[k] =
             IF k \in DOMAIN tWrote /\ tWrote[k].status = "closed" /\ tWrote[k].user = u
             THEN tWrote[k].pnl ELSE 0
        /\ Booking(u)[k] \in Int
  BY <1>2 DEF Booking, Ids
<1>4. Booked(u) \in Int
  BY <1>1, <1>3, TotalType DEF Booked
<1> QED
  BY <1>1, <1>3, <1>4

\* The results of a user stand as long as the closed rows do.
LEMMA ResultsStay ==
  ASSUME TypeOK, TypeOK', NEW u,
         ClosedOf(u)' = ClosedOf(u), \A i \in ClosedOf(u) : trades'[i] = trades[i]
  PROVE  ResultsOf(u)' = ResultsOf(u)
<1> DEFINE f == Result(u)
           g == Result(u)'
<1>1. ResultsOf(u) = Total(MaxTrades, f) /\ ResultsOf(u)' = Total(MaxTrades, g)
  BY ResultsAreTotals DEF Result, ResultsOf
<1>2. MaxTrades \in Nat /\ \A k \in 1 .. MaxTrades : f[k] \in Int /\ g[k] = f[k]
  <2>1. \A k \in 1 .. MaxTrades :
          f[k] = (IF k \in ClosedOf(u) THEN trades[k].pnl ELSE 0) /\ f[k] \in Int
    BY ResultsAreTotals
  <2>2. \A k \in 1 .. MaxTrades : g[k] = IF k \in ClosedOf(u)' THEN trades'[k].pnl ELSE 0
    BY DEF Result, Ids
  <2> HIDE DEF f, g
  <2> QED
    BY <2>1, <2>2, IdsAreNat
<1> HIDE DEF f, g
<1> QED
  BY <1>1, <1>2, TotalSame

\* A commit of the ticker adds what it booked to the results.
LEMMA ResultsGrow ==
  ASSUME DInv, TypeOK', CommitTick, NEW u
  PROVE  ResultsOf(u)' = ResultsOf(u) + Booked(u)
<1> DEFINE f == Result(u)
           g == Booking(u)
           h == Result(u)'
<1>1. TypeOK
  BY DEF DInv
<1>2. /\ ResultsOf(u) = Total(MaxTrades, f) /\ ResultsOf(u)' = Total(MaxTrades, h)
      /\ Booked(u) = Total(MaxTrades, g) /\ MaxTrades \in Nat
  BY <1>1, ResultsAreTotals DEF Result, ResultsOf, Booked
<1>3. ASSUME NEW k \in 1 .. MaxTrades
      PROVE  f[k] \in Int /\ g[k] \in Int /\ h[k] = f[k] + g[k]
  <2>1. f[k] \in Int /\ f[k] = IF k \in ClosedOf(u) THEN trades[k].pnl ELSE 0
    BY <1>1, ResultsAreTotals
  <2>2. /\ g[k] \in Int
        /\ g[k] = IF k \in DOMAIN tWrote /\ tWrote[k].status = "closed" /\ tWrote[k].user = u
                  THEN tWrote[k].pnl ELSE 0
    BY BookedIsTotal
  <2>3. h[k] = IF k \in ClosedOf(u)' THEN trades'[k].pnl ELSE 0
    BY DEF Result, Ids
  <2> HIDE DEF f, g, h
  <2>4. CASE k \in DOMAIN tWrote
    <3>1. /\ k \in DOMAIN trades /\ k \in DOMAIN trades' /\ trades'[k] = tWrote[k]
          /\ trades[k].status = "open"
      BY <2>4, TickRows
    <3> QED
      BY <2>1, <2>2, <2>3, <2>4, <3>1 DEF ClosedOf, Closed
  <2>5. CASE k \notin DOMAIN tWrote
    <3>1. DOMAIN trades' = DOMAIN trades /\ (k \in DOMAIN trades => trades'[k] = trades[k])
      BY <2>5, TickRows
    <3> QED
      BY <2>1, <2>2, <2>3, <2>5, <3>1 DEF ClosedOf, Closed
  <2> QED
    BY <2>4, <2>5
<1> HIDE DEF f, g, h
<1> QED
  BY <1>2, <1>3, TotalAdd

LEMMA NothingBooked ==
  ASSUME DInv, NEW u, u \notin tPaid
  PROVE  Booked(u) = 0
<1>1. \A k \in 1 .. MaxTrades : Booking(u)[k] = 0
  BY BookedIsTotal DEF DInv, TickerInv
<1> QED
  BY <1>1, IdsAreNat, TotalZero DEF Booked

\* Every balance agrees with the committed rows ...
LEMMA BalanceKept ==
  ASSUME DInv, [Next]_vars
  PROVE  BalanceIsStartPlusClosed'
<1>1. TypeOK /\ TypeOK'
  BY TypeKept DEF DInv
<1>2. \A u \in accounts : balance[u] = StartBalance + ResultsOf(u)
  BY DEF DInv, AccountsInv, BalanceIsStartPlusClosed
<1>3. balance \in [Users -> Int] /\ accounts \subseteq Users /\ StartBalance \in Int
  BY <1>1, DemoConstants DEF TypeOK
<1>4. \A i \in DOMAIN trades : trades[i].user \in accounts
  BY DEF DInv, BookInv, CommittedRow
<1>5. CASE UNCHANGED <<accounts, balance, trades>>
  <2>1. ASSUME NEW u \in accounts PROVE ResultsOf(u)' = ResultsOf(u)
    BY <1>1, <1>5, ResultsStay DEF ClosedOf, Closed
  <2> QED
    BY <1>2, <1>5, <2>1 DEF BalanceIsStartPlusClosed
<1>6. CASE CommitOpened /\ UNCHANGED <<accounts, balance>>
  <2>1. /\ DOMAIN trades' = DOMAIN oNew \cup DOMAIN trades
        /\ \A i \in DOMAIN oNew : trades'[i].status = "open" /\ i \notin DOMAIN trades
        /\ \A i \in DOMAIN trades : trades'[i] = trades[i]
    BY <1>6 DEF CommitOpened, Over, DInv, OpenerInv, InsertedRow
  <2>2. ASSUME NEW u \in accounts PROVE ResultsOf(u)' = ResultsOf(u)
    <3>1. ClosedOf(u)' = ClosedOf(u) /\ \A i \in ClosedOf(u) : trades'[i] = trades[i]
      BY <2>1 DEF ClosedOf, Closed
    <3> QED
      BY <1>1, <3>1, ResultsStay
  <2> QED
    BY <1>2, <1>6, <2>2 DEF BalanceIsStartPlusClosed
<1>7. CASE CommitTick /\ UNCHANGED accounts
  <2>1. ASSUME NEW u \in accounts
        PROVE  balance'[u] = StartBalance + ResultsOf(u)'
    <3>1. ResultsOf(u)' = ResultsOf(u) + Booked(u)
      BY <1>1, <1>7, ResultsGrow
    <3>2. ResultsOf(u) \in Int /\ Booked(u) \in Int
      BY <1>1, ResultsAreTotals, BookedIsTotal
    <3>3. balance'[u] = IF u \in tPaid THEN tBalance[u] ELSE balance[u]
      BY <1>3, <1>7 DEF CommitTick
    <3>4. CASE u \in tPaid
      <4>1. PICK i \in DOMAIN tWrote : tWrote[i].user = u
        BY <3>4 DEF DInv, TickerInv
      <4>2. i \in DOMAIN tRow /\ i \in DOMAIN trades /\ tRow[i].user = u
        BY <4>1 DEF DInv, TickerInv, UpdatedRow
      <4>3. tBalance[u] = balance[u] + Booked(u)
        BY <1>3, <4>2 DEF DInv, AccountsInv, Bookings
      <4> QED
        BY <1>2, <1>3, <3>1, <3>2, <3>3, <3>4, <4>3
    <3>5. CASE u \notin tPaid
      <4>1. Booked(u) = 0
        BY <3>5, NothingBooked
      <4> QED
        BY <1>2, <3>1, <3>2, <3>3, <3>5, <4>1
    <3> QED
      BY <3>4, <3>5
  <2> QED
    BY <1>7, <2>1 DEF BalanceIsStartPlusClosed
<1>8. ASSUME NEW v \in Users, OpenDemo(v)
      PROVE  BalanceIsStartPlusClosed'
  <2>1. /\ v \notin accounts /\ accounts' = accounts \cup {v} /\ trades' = trades
        /\ balance' = [balance EXCEPT ![v] = StartBalance]
    BY <1>8 DEF OpenDemo
  <2>2. ASSUME NEW u PROVE ResultsOf(u)' = ResultsOf(u)
    BY <1>1, <2>1, ResultsStay DEF ClosedOf, Closed
  <2>3. ResultsOf(v) = 0
    BY <1>4, <2>1, NoResults DEF ClosedOf, Closed
  <2> QED
    BY <1>2, <1>3, <2>1, <2>2, <2>3 DEF BalanceIsStartPlusClosed
<1>9. ASSUME NEW v \in Users, ResetDemo(v)
      PROVE  BalanceIsStartPlusClosed'
  <2>1. /\ v \in accounts /\ accounts' = accounts
        /\ DOMAIN trades' = {j \in DOMAIN trades : trades[j].user # v}
        /\ \A i \in DOMAIN trades' : trades'[i] = trades[i]
        /\ balance' = [balance EXCEPT ![v] = StartBalance]
    BY <1>9 DEF ResetDemo
  <2>2. ASSUME NEW u \in accounts, u # v PROVE ResultsOf(u)' = ResultsOf(u)
    <3>1. ClosedOf(u)' = ClosedOf(u) /\ \A i \in ClosedOf(u) : trades'[i] = trades[i]
      BY <2>1, <2>2 DEF ClosedOf, Closed
    <3> QED
      BY <1>1, <3>1, ResultsStay
  <2>3. ResultsOf(v)' = 0
    <3>1. ClosedOf(v)' = {}
      BY <2>1 DEF ClosedOf, Closed
    <3>2. \A k \in 1 .. MaxTrades : Result(v)'[k] = 0
      BY <3>1 DEF Result, Ids
    <3>3. Total(MaxTrades, Result(v)') = 0
      BY <3>2, IdsAreNat, TotalZero
    <3> QED
      BY <3>3 DEF ResultsOf, Result
  <2> QED
    BY <1>2, <1>3, <2>1, <2>2, <2>3 DEF BalanceIsStartPlusClosed
<1> QED
  BY <1>5, <1>6, <1>7, <1>8, <1>9
  DEF Next, OpenerNext, TickerNext, OutsideNext, ChangeRiskModel, StaleTick, CloseFails, Crash,
      vars, botVars

\* ... and every balance the ticker holds with what it booked since it read them.
LEMMA BookingsKept ==
  ASSUME DInv, [Next]_vars
  PROVE  Bookings'
<1>1. /\ \A i \in DOMAIN tRow : ReadRow(i) /\ tRow[i].user \in Users
      /\ balance \in [Users -> Int] /\ tBalance \in [Users -> Int]
      /\ DOMAIN tRow \subseteq Ids
  BY DEF DInv, TypeOK, TickerInv, ReadRow, Sound, Rows
<1>2. Bookings
  BY DEF DInv, AccountsInv
<1>3. \A i \in DOMAIN trades : trades[i].user \in accounts
  BY DEF DInv, BookInv, CommittedRow
<1>4. ASSUME UNCHANGED <<tRow, tBalance, tWrote>>,
             \A i \in DOMAIN tRow \cap DOMAIN trades' :
               i \in DOMAIN trades /\ balance'[tRow[i].user] = balance[tRow[i].user]
      PROVE  Bookings'
  <2>1. ASSUME NEW u PROVE Booked(u)' = Booked(u)
    BY <1>4 DEF Booked, Booking
  <2> QED
    BY <1>2, <1>4, <2>1 DEF Bookings
<1>5. CASE UNCHANGED <<balance, trades, tRow, tBalance, tWrote>>
  BY <1>4, <1>5
<1>6. CASE Finished
  BY <1>6, NoRowsIs DEF Finished, Bookings
<1>7. CASE CommitOpened /\ UNCHANGED <<balance, tickerVars>>
  <2>1. \A i \in DOMAIN tRow : i \in DOMAIN trades' => i \in DOMAIN trades
    BY <1>7 DEF CommitOpened, Over, DInv, OpenerInv, InsertedRow
  <2> QED
    BY <1>4, <1>7, <2>1 DEF tickerVars
<1>8. ASSUME NEW v \in Users, OpenDemo(v), UNCHANGED tickerVars
      PROVE  \A i \in DOMAIN tRow \cap DOMAIN trades' :
               i \in DOMAIN trades /\ balance'[tRow[i].user] = balance[tRow[i].user]
  BY <1>1, <1>3, <1>8 DEF OpenDemo, ReadRow
<1>9. ASSUME NEW v \in Users, ResetDemo(v), UNCHANGED tickerVars
      PROVE  \A i \in DOMAIN tRow \cap DOMAIN trades' :
               i \in DOMAIN trades /\ balance'[tRow[i].user] = balance[tRow[i].user]
  <2>1. /\ DOMAIN trades' = {j \in DOMAIN trades : trades[j].user # v}
        /\ balance' = [balance EXCEPT ![v] = StartBalance]
    BY <1>9 DEF ResetDemo
  <2> QED
    BY <1>1, <2>1 DEF ReadRow
<1>10. ASSUME NEW sym \in Symbols, NEW price \in Prices, ReceivePrice(sym, price),
              UNCHANGED <<balance, trades>>
       PROVE  Bookings'
  <2>1. /\ tBalance' = balance /\ tWrote' = tWrote /\ DOMAIN tWrote = {} /\ tPaid = {}
        /\ DOMAIN tRow' = OpenIds(sym) /\ \A i \in OpenIds(sym) : tRow'[i] = trades[i]
    BY <1>10 DEF ReceivePrice, DInv, TickerInv
  <2>2. ASSUME NEW u PROVE Booked(u)' = 0
    <3>1. Booked(u)' = Booked(u)
      BY <2>1 DEF Booked, Booking
    <3>2. Booked(u) = 0
      BY <2>1, NothingBooked
    <3> QED
      BY <3>1, <3>2
  <2>3. \A i \in OpenIds(sym) : trades[i].user \in Users
    BY DEF OpenIds, DInv, TypeOK, Rows
  <2> QED
    BY <1>1, <1>10, <2>1, <2>2, <2>3 DEF Bookings
<1>11. ASSUME ApplyDecision, UNCHANGED <<balance, trades>>
       PROVE  Bookings'
  <2>0. PICK c : c = Least(tTodo)
    OBVIOUS
  <2>1. PICK row : row = AfterTick(tRow[c])
    OBVIOUS
  <2>2. /\ c \in tTodo /\ c \in DOMAIN tRow /\ tPc = "trade"
    BY <1>11, <2>0, IdsAreNat, LeastIsIn DEF ApplyDecision, DInv, TypeOK, TickerInv
  <2>3. Sound(row) /\ row.user = tRow[c].user /\ row.user \in Users /\ row.pnl \in Int
    <3>1. Sound(tRow[c]) /\ tRow[c].status = "open" /\ tPrice \in Nat
      BY <1>1, <2>2 DEF ReadRow, DInv, TickerInv
    <3>2. Sound(row) /\ row.user = tRow[c].user
      BY <2>1, <3>1, AfterTickIsSound
    <3> QED
      BY <3>2 DEF Sound, Rows
  <2>4. c \notin DOMAIN tWrote /\ c \in 1 .. MaxTrades
    BY <1>1, <2>2 DEF DInv, TickerInv, UpdatedRow, IsClosing, Ids
  <2>5. /\ tWrote' = Put(c, row, tWrote) /\ tRow' = tRow
        /\ tBalance' = IF row.status = "closed"
                       THEN [tBalance EXCEPT ![row.user] = @ + row.pnl] ELSE tBalance
    BY <1>11, <2>0, <2>1 DEF ApplyDecision
  <2>6. /\ DOMAIN tWrote' = {c} \cup DOMAIN tWrote /\ tWrote'[c] = row
        /\ \A i \in DOMAIN tWrote : tWrote'[i] = tWrote[i]
    BY <2>4, <2>5 DEF Put, Over
  <2>7. ASSUME NEW u \in Users
        PROVE  tBalance[u] = balance[u] + Booked(u) => tBalance'[u] = balance[u] + Booked(u)'
    <3> DEFINE d == IF row.status = "closed" /\ row.user = u THEN row.pnl ELSE 0
               f == Booking(u)
               h == Booking(u)'
    <3>1. d \in Int
      BY <2>3
    <3>2. \A k \in 1 .. MaxTrades :
            /\ f[k] \in Int
            /\ f[k] = IF k \in DOMAIN tWrote /\ tWrote[k].status = "closed" /\ tWrote[k].user = u
                      THEN tWrote[k].pnl ELSE 0
      BY BookedIsTotal
    <3>3. \A k \in 1 .. MaxTrades :
            h[k] = IF k \in DOMAIN tWrote'
                   THEN IF tWrote'[k].status = "closed" /\ tWrote'[k].user = u
                        THEN tWrote'[k].pnl ELSE 0
                   ELSE 0
      BY DEF Booking, Ids
    <3>4. Booked(u) = Total(MaxTrades, f) /\ Booked(u)' = Total(MaxTrades, h)
      BY DEF Booked
    <3>5. Booked(u) \in Int
      BY BookedIsTotal
    <3> HIDE DEF f, h
    <3>6. h[c] = f[c] + d /\ \A k \in 1 .. MaxTrades : k # c => h[k] = f[k]
      BY <2>3, <2>4, <2>6, <3>2, <3>3
    <3>7. tBalance'[u] = tBalance[u] + d
      BY <1>1, <2>3, <2>5
    <3> HIDE DEF d
    <3>8. Total(MaxTrades, h) = Total(MaxTrades, f) + d
      <4>1. MaxTrades \in Nat /\ \A k \in 1 .. MaxTrades : f[k] \in Int
        BY <3>2, IdsAreNat
      <4> QED
        BY <2>4, <3>1, <3>6, <4>1, TotalPlusOne
    <3> QED
      BY <1>1, <3>1, <3>4, <3>5, <3>7, <3>8
  <2> QED
    BY <1>2, <1>11, <2>5, <2>7 DEF Bookings
<1> QED
  BY <1>4, <1>5, <1>6, <1>7, <1>8, <1>9, <1>10, <1>11
  DEF Next, OpenerNext, TickerNext, OutsideNext, ChangeRiskModel, StaleTick, CloseFails, Crash,
      CommitTick, Subscribe, LeaveTrade, AnnounceClosed, vars, botVars, tickerVars

-----------------------------------------------------------------------------
(* The theorems.                                                            *)

LEMMA DInvStep == DInv /\ [Next]_vars => DInv'
<1> SUFFICES ASSUME DInv, [Next]_vars PROVE DInv'
  OBVIOUS
<1>1. IngestInv'
  <2>1. CASE IngestNext
    BY <2>1, IngestKept DEF DInv
  <2>2. CASE UNCHANGED ingestVars
    BY <2>2 DEF DInv, IngestInv, ingestVars
  <2> QED
    BY <2>1, <2>2 DEF Next, OpenerNext, TickerNext, OutsideNext, vars, Crash
<1>2. TypeOK' /\ BookInv' /\ OpenerInv' /\ TickerInv'
  BY TypeKept, BookKept, OpenerKept, TickerKept
<1>3. AccountsInv'
  BY BalanceKept, BookingsKept DEF AccountsInv
<1> QED
  BY <1>1, <1>2, <1>3 DEF DInv

\* The inductive invariant holds in every reachable state of the demo engine.
THEOREM Invariance == Spec => []DInv
BY InitialState, DInvStep, PTL DEF Spec

\* The variables keep their types.
THEOREM Types == Spec => []TypeOK
<1>1. DInv => TypeOK
  BY DEF DInv
<1> QED
  BY <1>1, Invariance, PTL

\* The balance of an account is its start plus the results on record: no
\* result is booked twice, lost or left behind by a reset, whichever way the
\* ticker's open session, a rollback, a crash, a reset and a new account meet.
THEOREM BalancesAgree == Spec => []BalanceIsStartPlusClosed
<1>1. DInv => BalanceIsStartPlusClosed
  BY DEF DInv, AccountsInv
<1> QED
  BY <1>1, Invariance, PTL

\* One open demo trade per user per signal, also when a record is given out
\* again while the trades of its first time are open or being priced.
THEOREM OneTradePerSignal == Spec => []OneOpenTradePerSignal
<1>1. DInv => OneOpenTradePerSignal
  BY DEF DInv, BookInv
<1> QED
  BY <1>1, Invariance, PTL

\* No demo trade loses more than its margin at any price, and none that took
\* its first target loses where the stop moves to the entry, unless liquidated.
THEOREM LossesAreCapped == Spec => []LossIsCapped
<1>1. DInv => LossIsCapped
  BY DEF DInv, BookInv, CommittedRow, Sound, Bounded, LossIsCapped, Closed
<1> QED
  BY <1>1, Invariance, PTL

\* The position of every trade is that of its signal's leverage under its own
\* user's cap.
THEOREM LeverageIsOwn == Spec => []LeverageIsTheUsers
<1>1. DInv => LeverageIsTheUsers
  BY DEF DInv, BookInv, CommittedRow, Sound, Sized, LeverageIsTheUsers
<1> QED
  BY <1>1, Invariance, PTL

\* What is committed was put on the bus with the user's message.
THEOREM CommitsAreTold == Spec => []CommittedIsTold
<1>1. DInv => CommittedIsTold
  BY DEF DInv, BookInv, CommittedRow, CommittedIsTold, Closed
<1> QED
  BY <1>1, Invariance, PTL

\* The row of a signal is committed before its event can be read.
THEOREM RowsPrecedeEvents == Spec => []EventHasItsRow
<1>1. DInv => EventHasItsRow
  BY DEF DInv, TypeOK, IngestTypeOK, IngestInv, EventHasItsRow
<1> QED
  BY <1>1, Invariance, PTL

\* A result stands until the user resets the demo, and a target once touched
\* stays touched.
THEOREM ResultsStand == Spec => ResultStands
<1> DEFINE Stands == \A i \in DOMAIN trades \cap DOMAIN trades' :
                       /\ trades[i].status = "closed" => trades'[i] = trades[i]
                       /\ trades[i].filled \subseteq trades'[i].filled
<1>1. DInv /\ [Next]_vars => [Stands]_vars
  <2> SUFFICES ASSUME DInv, [Next]_vars PROVE Stands
    OBVIOUS
  <2>1. CASE UNCHANGED trades
    BY <2>1
  <2>2. CASE CommitOpened
    BY <2>2 DEF CommitOpened, Over, DInv, OpenerInv, InsertedRow
  <2>3. CASE CommitTick
    <3>1. ASSUME NEW i \in DOMAIN trades
          PROVE  /\ trades[i].status = "closed" => trades'[i] = trades[i]
                 /\ trades[i].filled \subseteq trades'[i].filled
      BY <2>3, TickRows
    <3> QED
      BY <3>1
  <2>4. ASSUME NEW u \in Users, ResetDemo(u) PROVE Stands
    BY <2>4 DEF ResetDemo
  <2> QED
    BY <2>1, <2>2, <2>3, <2>4, BookWriters
<1> HIDE DEF Stands
<1>2. Spec => [][Stands]_vars
  BY <1>1, Invariance, PTL DEF Spec
<1> QED
  BY <1>2 DEF ResultStands, Stands

-----------------------------------------------------------------------------
(* The abstract book.                                                       *)

LEMMA EntriesAre ==
  ASSUME NEW rows
  PROVE  /\ DOMAIN Entries(rows) = DOMAIN rows
         /\ \A i \in DOMAIN rows :
              /\ Entries(rows)[i].user = rows[i].user
              /\ Entries(rows)[i].signal = rows[i].signal
              /\ Entries(rows)[i].margin = rows[i].margin
              /\ Entries(rows)[i].status = rows[i].status
              /\ Entries(rows)[i].pnl = IF rows[i].status = "closed" THEN rows[i].pnl ELSE 0
BY DEF Entries

\* The rows two books share have the same entries.
LEMMA EntriesSame ==
  ASSUME NEW rows, NEW others, NEW i \in DOMAIN rows, i \in DOMAIN others, others[i] = rows[i]
  PROVE  Entries(others)[i] = Entries(rows)[i]
BY DEF Entries

\* An entry that is closed with a result.
LEMMA EntryCloses ==
  ASSUME NEW u, NEW m, NEW margin, NEW p, NEW a, NEW b,
         a = [user |-> u, signal |-> m, margin |-> margin, status |-> "open", pnl |-> 0],
         b = [user |-> u, signal |-> m, margin |-> margin, status |-> "closed", pnl |-> p]
  PROVE  /\ b = Book!WithResult(a, b.pnl)
         /\ a.margin = margin /\ a.status = "open" /\ b.pnl = p
<1>1. PICK c : c = [a EXCEPT !.status = "closed", !.pnl = p]
  OBVIOUS
<1>2. /\ DOMAIN a = {"user", "signal", "margin", "status", "pnl"}
      /\ DOMAIN b = DOMAIN a /\ DOMAIN c = DOMAIN a
  BY <1>1
<1>3. /\ c.user = u /\ c.signal = m /\ c.margin = margin /\ c.status = "closed"
      /\ c.pnl = p
  BY <1>1
<1>4. \A x \in DOMAIN a : b[x] = c[x]
  BY <1>2, <1>3
<1>5. b = c
  BY <1>1, <1>2, <1>4
<1>6. a.margin = margin /\ a.status = "open" /\ b.pnl = p
  OBVIOUS
<1>7. Book!WithResult(a, p) = c
  BY <1>1 DEF Book!WithResult
<1> QED
  BY <1>5, <1>6, <1>7

LEMMA BookTotal == \A n, f : Book!Total(n, f) = Total(n, f)
BY DEF Book!Total, Total

\* The book earns what the committed rows have come to, before a step and after.
LEMMA BookEarns ==
  ASSUME NEW u
  PROVE  /\ Book!Earned(u, Entries(trades)) = ResultsOf(u)
         /\ Book!Earned(u, Entries(trades')) = ResultsOf(u)'
<1>1. ASSUME NEW rows
      PROVE  Book!Earned(u, Entries(rows)) =
               Total(MaxTrades,
                     [i \in Ids |-> IF i \in DOMAIN rows /\ rows[i].status = "closed" /\ rows[i].user = u
                                    THEN rows[i].pnl ELSE 0])
  <2> DEFINE f == [i \in Ids |-> IF i \in DOMAIN rows /\ rows[i].status = "closed" /\ rows[i].user = u
                                 THEN rows[i].pnl ELSE 0]
             g == [i \in Ids |-> IF /\ i \in DOMAIN Entries(rows)
                                    /\ Entries(rows)[i].user = u
                                    /\ Entries(rows)[i].status = "closed"
                                 THEN Entries(rows)[i].pnl ELSE 0]
  <2>1. f = g
    BY EntriesAre
  <2>2. Book!Earned(u, Entries(rows)) = Total(MaxTrades, g)
    BY BookTotal DEF Book!Earned, Book!Ids, Ids
  <2> QED
    BY <2>1, <2>2
<1>2. /\ \A i : i \in ClosedOf(u) <=> /\ i \in DOMAIN trades
                                      /\ trades[i].status = "closed" /\ trades[i].user = u
      /\ \A i : i \in ClosedOf(u)' <=> /\ i \in DOMAIN trades'
                                       /\ trades'[i].status = "closed" /\ trades'[i].user = u
  BY DEF ClosedOf, Closed
<1>3. ResultsOf(u) =
        Total(MaxTrades,
              [i \in Ids |-> IF i \in DOMAIN trades /\ trades[i].status = "closed" /\ trades[i].user = u
                             THEN trades[i].pnl ELSE 0])
  BY <1>2 DEF ResultsOf
<1>4. ResultsOf(u)' =
        Total(MaxTrades,
              [i \in Ids |-> IF i \in DOMAIN trades' /\ trades'[i].status = "closed" /\ trades'[i].user = u
                             THEN trades'[i].pnl ELSE 0])
  BY <1>2 DEF ResultsOf
<1> QED
  BY <1>1, <1>3, <1>4

\* The commit of the opener enters its rows.
LEMMA CommitEnters ==
  ASSUME DInv, DInv', CommitOpened, UNCHANGED <<accounts, balance, told>>
  PROVE  \/ Entries(trades') = Entries(trades)
         \/ \E s \in Messages : Book!Enter(s)
<1> DEFINE s == SignalInHand
<1>1. /\ DOMAIN trades' = DOMAIN oNew \cup DOMAIN trades /\ oPc = "user"
      /\ \A i \in DOMAIN oNew : trades'[i] = oNew[i] /\ i \notin DOMAIN trades
      /\ \A i \in DOMAIN trades : trades'[i] = trades[i]
  BY DEF CommitOpened, Over, DInv, OpenerInv, InsertedRow
<1>2. s \in Messages
  BY <1>1, RecordType DEF DInv, OpenerInv
<1>3. DOMAIN Entries(trades) = DOMAIN trades /\ DOMAIN Entries(trades') = DOMAIN trades'
  BY EntriesAre
<1>4. \A i \in DOMAIN trades : Entries(trades')[i] = Entries(trades)[i]
  BY <1>1, EntriesSame
<1>5. CASE DOMAIN oNew = {}
  <2>1. trades' = Over(oNew, trades)
    BY DEF CommitOpened
  <2>2. DOMAIN trades' = DOMAIN trades
    BY <1>1, <1>5
  <2>3. Entries(trades') = Entries(trades)
    BY <1>1, <2>2 DEF Entries
  <2> QED
    BY <2>3
<1>6. CASE DOMAIN oNew # {}
  <2>1. ASSUME NEW i \in DOMAIN trades' \ DOMAIN trades
        PROVE  /\ i \in Book!Ids /\ <<"opened", i>> \in told
               /\ trades'[i].signal = s /\ trades'[i].user \in accounts
               /\ trades'[i].status = "open"
    <3>1. InsertedRow(i) /\ i \in DOMAIN oNew /\ trades'[i] = oNew[i]
      BY <1>1 DEF DInv, OpenerInv
    <3>2. i \in Book!Ids
      BY <3>1 DEF DInv, TypeOK, Ids, Book!Ids
    <3> QED
      BY <1>1, <3>1, <3>2 DEF InsertedRow, IsAnnounced
  <2>2. ASSUME NEW i \in DOMAIN trades' \ DOMAIN trades, NEW j \in DOMAIN trades' \ {i},
               trades'[j].signal = s, trades'[j].user = trades'[i].user
        PROVE  trades'[j].status = "closed"
    <3>1. OneOpenTradePerSignal' /\ trades'[j] \in Rows
      BY DEF DInv, BookInv, TypeOK
    <3>2. trades'[j].status \in {"open", "closed"}
      BY <3>1 DEF Rows
    <3> QED
      BY <2>1, <2>2, <3>1, <3>2 DEF OneOpenTradePerSignal
  <2>3. \A i \in DOMAIN trades' \ DOMAIN trades :
          /\ i \in Book!Ids /\ <<"opened", i>> \in told
          /\ Entries(trades')[i].signal = s /\ Entries(trades')[i].user \in accounts
          /\ Entries(trades')[i].status = "open" /\ Entries(trades')[i].pnl = 0
          /\ \A j \in DOMAIN trades' \ {i} :
               Entries(trades')[j].signal = s /\ Entries(trades')[j].user = Entries(trades')[i].user =>
                 Entries(trades')[j].status = "closed"
    <3>1. \A j \in DOMAIN trades' :
            /\ Entries(trades')[j].signal = trades'[j].signal
            /\ Entries(trades')[j].user = trades'[j].user
            /\ Entries(trades')[j].status = trades'[j].status
            /\ trades'[j].status = "open" => Entries(trades')[j].pnl = 0
      BY EntriesAre
    <3> HIDE DEF s
    <3>2. ASSUME NEW i \in DOMAIN trades' \ DOMAIN trades
          PROVE  /\ i \in Book!Ids /\ <<"opened", i>> \in told
                 /\ Entries(trades')[i].signal = s /\ Entries(trades')[i].user \in accounts
                 /\ Entries(trades')[i].status = "open" /\ Entries(trades')[i].pnl = 0
      BY <2>1, <3>1
    <3>3. ASSUME NEW i \in DOMAIN trades' \ DOMAIN trades, NEW j \in DOMAIN trades' \ {i},
                 Entries(trades')[j].signal = s, Entries(trades')[j].user = Entries(trades')[i].user
          PROVE  Entries(trades')[j].status = "closed"
      BY <2>2, <3>1, <3>3
    <3> QED
      BY <3>2, <3>3
  <2>4. DOMAIN trades # DOMAIN trades' /\ DOMAIN trades \subseteq DOMAIN trades'
    BY <1>1, <1>6
  <2> HIDE DEF s
  <2>5. Book!Enter(s)
    BY <1>3, <1>4, <2>3, <2>4 DEF Book!Enter
  <2> QED
    BY <1>2, <2>5
<1> QED
  BY <1>5, <1>6

\* The balances move with the results on record.
LEMMA TickPays ==
  ASSUME DInv, DInv', CommitTick, UNCHANGED accounts
  PROVE  balance' = [u \in Users |-> balance[u] +
                       (Book!Earned(u, Entries(trades')) - Book!Earned(u, Entries(trades)))]
<1>1. /\ balance \in [Users -> Int] /\ balance' \in [Users -> Int]
      /\ accounts \subseteq Users /\ StartBalance \in Int
  BY DemoConstants DEF DInv, TypeOK
<1>2. /\ \A u \in accounts : balance[u] = StartBalance + ResultsOf(u)
      /\ \A u \in accounts : balance'[u] = StartBalance + ResultsOf(u)'
  BY DEF DInv, AccountsInv, BalanceIsStartPlusClosed
<1>3. ASSUME NEW u \in Users
      PROVE  balance'[u] = balance[u] + (ResultsOf(u)' - ResultsOf(u))
  <2>1. ResultsOf(u) \in Int /\ Booked(u) \in Int
    BY ResultsAreTotals, BookedIsTotal DEF DInv
  <2>2. ResultsOf(u)' = ResultsOf(u) + Booked(u)
    BY ResultsGrow DEF DInv
  <2>3. CASE u \in accounts
    BY <1>1, <1>2, <2>1, <2>2, <2>3
  <2>4. CASE u \notin accounts
    <3>1. u \notin tPaid
      <4> SUFFICES ASSUME NEW i \in DOMAIN tWrote, tWrote[i].user = u PROVE FALSE
        BY DEF DInv, TickerInv
      <4>1. i \in DOMAIN trades /\ trades[i].user = u
        BY TickRows
      <4> QED
        BY <2>4, <4>1 DEF DInv, BookInv, CommittedRow
    <3>2. balance'[u] = balance[u]
      BY <3>1 DEF CommitTick
    <3>3. Booked(u) = 0
      BY <3>1, NothingBooked
    <3> QED
      BY <1>1, <2>1, <2>2, <3>2, <3>3
  <2> QED
    BY <2>3, <2>4
<1>4. \A u \in Users :
        balance'[u] = balance[u] +
          (Book!Earned(u, Entries(trades')) - Book!Earned(u, Entries(trades)))
  BY <1>3, BookEarns
<1> QED
  BY <1>1, <1>4

\* The commit of the ticker settles the trades it closed.
LEMMA CommitSettles ==
  ASSUME DInv, DInv', CommitTick, UNCHANGED <<accounts, told>>
  PROVE  \/ Entries(trades') = Entries(trades) /\ balance' = balance
         \/ Book!Settle
<1>1. balance' = [u \in Users |-> balance[u] +
                    (Book!Earned(u, Entries(trades')) - Book!Earned(u, Entries(trades)))]
  BY TickPays
<1>2. CASE Entries(trades') = Entries(trades)
  <2>1. ASSUME NEW u \in Users PROVE balance'[u] = balance[u]
    <3>1. Book!Earned(u, Entries(trades)) \in Int /\ balance[u] \in Int
      BY BookEarns, ResultsAreTotals DEF DInv, TypeOK
    <3> QED
      BY <1>1, <1>2, <3>1
  <2>2. balance \in [Users -> Int] /\ balance' \in [Users -> Int]
    BY DEF DInv, TypeOK
  <2> QED
    BY <1>2, <2>1, <2>2
<1>3. CASE Entries(trades') # Entries(trades)
  <2>1. DOMAIN Entries(trades) = DOMAIN trades /\ DOMAIN Entries(trades') = DOMAIN trades
    BY EntriesAre, TickRows
  <2>2. ASSUME NEW i \in DOMAIN trades, Entries(trades')[i] # Entries(trades)[i]
        PROVE  /\ Entries(trades)[i].status = "open" /\ <<"closed", i>> \in told
               /\ Entries(trades')[i] =
                    Book!WithResult(Entries(trades)[i], Entries(trades')[i].pnl)
               /\ Entries(trades')[i].pnl >= - Entries(trades)[i].margin
    <3>1. DOMAIN trades' = DOMAIN trades
      BY TickRows
    <3>2. i \in DOMAIN tWrote
      BY <2>2, <3>1, EntriesSame, TickRows
    <3>3. /\ trades'[i] = tWrote[i] /\ trades[i].status = "open"
          /\ tWrote[i].user = trades[i].user /\ tWrote[i].signal = trades[i].signal
          /\ Sound(tWrote[i])
          /\ tWrote[i].status = "open" \/ <<"closed", i>> \in told
      BY <3>2, TickRows
    <3>4. Sound(trades[i])
      BY DEF DInv, BookInv, CommittedRow
    <3>5. tWrote[i].margin = trades[i].margin /\ tWrote[i].status \in {"open", "closed"}
      BY <3>3, <3>4 DEF Sound, Sized, Rows
    <3>6. tWrote[i].status = "closed"
      BY <2>2, <3>1, <3>3, <3>5 DEF Entries
    <3>7. tWrote[i].pnl >= - trades[i].margin
      BY <3>3, <3>5, <3>6 DEF Sound, Bounded
    <3>8. /\ Entries(trades)[i] =
               [user |-> trades[i].user, signal |-> trades[i].signal,
                margin |-> trades[i].margin, status |-> "open", pnl |-> 0]
          /\ Entries(trades')[i] =
               [user |-> trades[i].user, signal |-> trades[i].signal,
                margin |-> trades[i].margin, status |-> "closed", pnl |-> tWrote[i].pnl]
      BY <3>1, <3>3, <3>5, <3>6 DEF Entries
    <3>9. /\ Entries(trades')[i] =
               Book!WithResult(Entries(trades)[i], Entries(trades')[i].pnl)
          /\ Entries(trades)[i].margin = trades[i].margin
          /\ Entries(trades)[i].status = "open" /\ Entries(trades')[i].pnl = tWrote[i].pnl
      BY <3>8, EntryCloses
    <3>10. <<"closed", i>> \in told
      BY <3>3, <3>6
    <3> QED
      BY <3>7, <3>9, <3>10
  <2> QED
    BY <1>1, <1>3, <2>1, <2>2 DEF Book!Settle
<1> QED
  BY <1>2, <1>3

\* A reset in the bot forgets the entries of the user.
LEMMA ResetForgets ==
  ASSUME NEW u \in Users, ResetDemo(u), UNCHANGED told
  PROVE  Book!Reset(u)
<1> DEFINE kept == {j \in DOMAIN trades : trades[j].user # u}
<1>1. /\ u \in accounts /\ accounts' = accounts
      /\ trades' = [i \in kept |-> trades[i]]
      /\ balance' = [balance EXCEPT ![u] = StartBalance]
  BY DEF ResetDemo
<1>2. kept = {j \in DOMAIN Entries(trades) : Entries(trades)[j].user # u}
  BY EntriesAre
<1>3. Entries(trades') = [i \in kept |-> Entries(trades)[i]]
  BY <1>1 DEF Entries
<1> QED
  BY <1>1, <1>2, <1>3 DEF Book!Reset

\* The other steps announce, or leave the book as it is.
LEMMA OthersAnnounce ==
  ASSUME DInv, [Next]_vars, UNCHANGED trades
  PROVE  \/ UNCHANGED <<accounts, balance, told>>
         \/ \E m \in {"opened", "closed"} \X Book!Ids : Book!Announce(m)
         \/ \E u \in Users : Book!OpenAccount(u)
         \/ CommitTick /\ UNCHANGED <<accounts, told>>
         \/ \E u \in Users : ResetDemo(u) /\ UNCHANGED told
<1>1. CASE AnnounceOpened /\ UNCHANGED botVars
  <2>1. nextId - 1 \in Book!Ids
    BY <1>1 DEF AnnounceOpened, DInv, OpenerInv, TypeOK, Ids, Book!Ids
  <2>2. Book!Announce(<<"opened", nextId - 1>>)
    BY <1>1 DEF AnnounceOpened, botVars, Book!Announce
  <2> QED
    BY <2>1, <2>2
<1>2. CASE AnnounceClosed /\ UNCHANGED botVars
  <2>1. tTodo # {} /\ tTodo \subseteq Ids
    BY <1>2 DEF AnnounceClosed, DInv, TickerInv, TypeOK
  <2>2. Least(tTodo) \in Book!Ids
    BY <2>1, IdsAreNat, LeastIsIn DEF Ids, Book!Ids
  <2>3. Book!Announce(<<"closed", Least(tTodo)>>)
    BY <1>2 DEF AnnounceClosed, botVars, Book!Announce
  <2> QED
    BY <2>2, <2>3
<1>3. ASSUME NEW u \in Users, OpenDemo(u), UNCHANGED told
      PROVE  Book!OpenAccount(u)
  BY <1>3 DEF OpenDemo, Book!OpenAccount
<1>4. CASE OpenerNext
  BY <1>1, <1>4 DEF OpenerNext, OpenFails, CommitOpened, botVars
<1>5. CASE TickerNext
  BY <1>2, <1>5 DEF TickerNext, StaleTick, CloseFails, CommitTick, botVars
<1>6. CASE OutsideNext
  BY <1>3, <1>6 DEF OutsideNext, ChangeRiskModel, Crash, botVars
<1> QED
  BY <1>4, <1>5, <1>6 DEF Next, vars, botVars

LEMMA BookStep ==
  ASSUME DInv, DInv', [Next]_vars
  PROVE  [Book!Next]_(Book!bookVars)
<1>1. ASSUME NEW u \in Users, ResetDemo(u), UNCHANGED told
      PROVE  Book!Next
  BY <1>1, ResetForgets DEF Book!Next
<1>2. CASE CommitTick /\ UNCHANGED <<accounts, told>>
  BY <1>2, CommitSettles DEF Book!Next, Book!bookVars
<1>3. CASE CommitOpened /\ UNCHANGED <<accounts, balance, told>>
  BY <1>3, CommitEnters DEF Book!Next, Book!bookVars
<1>4. CASE UNCHANGED trades
  BY <1>1, <1>2, <1>4, OthersAnnounce DEF Book!Next, Book!bookVars
<1> QED
  BY <1>1, <1>2, <1>3, <1>4, BookWriters

\* Every behaviour of the opener, the ticker and the bot, with its rollbacks and
\* crashes, is one of the abstract book of demo accounts.
THEOREM Refinement == Spec => ImplementsDemoBook
<1>1. Init => Book!Init
  BY DemoConstants DEF Init, Book!Init, Entries, NoRows
<1>2. DInv /\ DInv' /\ [Next]_vars => [Book!Next]_(Book!bookVars)
  BY BookStep
<1> QED
  BY <1>1, <1>2, Invariance, PTL DEF Spec, ImplementsDemoBook, Book!Spec
=============================================================================
