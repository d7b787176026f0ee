--------------------------- MODULE SignalPlanning ---------------------------
(***************************************************************************)
(* What becomes of the numbers of a signal: the sanitizer of the ingestor  *)
(* (shared/signal/sanitizer.py) repairs or drops its targets, and the      *)
(* planner of the core engine (services/core_engine/risk.py) turns them    *)
(* into quantities and prices the exchange accepts.                        *)
(*                                                                         *)
(* Prices are integers, in a unit in which the inputs can be divided by    *)
(* ten.  Decimal arithmetic rounds fractions of one third and the like;    *)
(* here it does so after three digits instead of 28, which gives the same  *)
(* quantities as long as they are small.                                   *)
(***************************************************************************)
EXTENDS Integers, Sequences, FiniteSets, Summation

CONSTANTS
  Sides,        \* of {"LONG", "SHORT"}
  Entries, Stops, Prices,
  MaxTargets,   \* bound: targets of a signal
  Margins,      \* margin times leverage, in the unit of prices
  RiskModels,   \* of 1 .. 3
  Model2Weights, \* the configured weights, in thousandths
  Exits,        \* model 3: the distance of the exit from the entry
  Filters       \* of the exchange: [tick, step, minQty, minNotional]

\* The parser reads decimals without a sign, zero among them.
ASSUME PlanningConstants ==
  /\ Sides \subseteq {"LONG", "SHORT"}
  /\ Entries \subseteq Nat /\ Stops \subseteq Nat
  /\ Prices \subseteq Nat /\ \A p \in Prices : p % 10 = 0
  /\ MaxTargets \in Nat
  /\ Margins \subseteq Nat \ {0} /\ RiskModels \subseteq 1 .. 3
  /\ Model2Weights \in Seq(Nat \ {0}) /\ Exits \subseteq Int
  /\ Filters \subseteq [tick : Nat \ {0}, step : Nat \ {0}, minQty : Nat, minNotional : Nat]

ShiftLo == 5
ShiftHi == 20
One == 1000

VARIABLES
  stage,        \* "parsed", "sanitized", "planned"
  signal,       \* what the parser found
  clean,        \* the result of the sanitizer
  plan          \* the result of the planner

vars == <<stage, signal, clean, plan>>

MaxOf(a, b) == IF a >= b THEN a ELSE b
MinOf(a, b) == IF a <= b THEN a ELSE b
Distance(a, b) == MaxOf(a, b) - MinOf(a, b)

-----------------------------------------------------------------------------
(* The sanitizer.                                                           *)

\* b is further on the winning side than a.
Beyond(side, a, b) == IF side = "LONG" THEN a < b ELSE a > b

\* The k-th smallest of the values.
Smallest(ts, k) ==
  CHOOSE x \in {ts[i] : i \in DOMAIN ts} :
    /\ Cardinality({i \in DOMAIN ts : ts[i] < x}) < k
    /\ Cardinality({i \in DOMAIN ts : ts[i] <= x}) >= k

\* Twice the median, so that it stays an integer.
TwiceMedian(ts) ==
  Smallest(ts, (Len(ts) + 1) \div 2) + Smallest(ts, Len(ts) \div 2 + 1)

\* Mutant: any distance from the median counts as a shift.
AnyRatio(t, m2) == t # 0 /\ m2 # 0

\* The ratio to the median is about a power of ten.
LooksShifted(t, m2) ==
  LET a == MaxOf(2 * t, m2)
      b == MinOf(2 * t, m2) IN
    b > 0 /\ ShiftLo * b <= a /\ a <= ShiftHi * b

\* The target, or the one of ten times and a tenth of it that is nearest to the
\* median and on the right side of the entry.
Repaired(side, entry, t, m2) ==
  LET up == 10 * t
      down == t \div 10 IN
    IF ~ LooksShifted(t, m2) THEN t
    ELSE IF /\ Beyond(side, entry, up)
            /\ ~ Beyond(side, entry, down)
                 \/ Distance(2 * up, m2) <= Distance(2 * down, m2) THEN up
    ELSE IF Beyond(side, entry, down) THEN down
    ELSE t

\* The first place where two sequences of one length differ is one of K.
FirstDifferenceIn(K, p, q) == \E k \in K : \A l \in 1 .. k - 1 : p[l] = q[l]

ValuesAt(v, path) == [k \in DOMAIN path |-> v[path[k]]]

\* _prefer_path: longer, then nearer to the entry, then earlier.
Preferred(side, v, p, q) ==
  \/ Len(p) > Len(q)
  \/ /\ Len(p) = Len(q)
     /\ ValuesAt(v, p) # ValuesAt(v, q)
     /\ FirstDifferenceIn({k \in DOMAIN p : Beyond(side, v[p[k]], v[q[k]])},
                          ValuesAt(v, p), ValuesAt(v, q))
  \/ /\ Len(p) = Len(q)
     /\ ValuesAt(v, p) = ValuesAt(v, q)
     /\ FirstDifferenceIn({k \in DOMAIN p : p[k] < q[k]}, p, q)

Better(side, v, p, q) == IF Preferred(side, v, p, q) THEN p ELSE q

\* The best path to i, among i alone and what the best paths to earlier values
\* lead to.
PathTo(side, v, paths, i) ==
  LET best[j \in 0 .. i - 1] ==
        IF j = 0 THEN <<i>>
        ELSE IF Beyond(side, v[j], v[i])
          THEN Better(side, v, Append(paths[j], i), best[j - 1])
        ELSE best[j - 1]
  IN best[i - 1]

\* The best paths to each of the values.
PathsOf(side, v) ==
  LET paths[i \in 0 .. Len(v)] ==
        IF i = 0 THEN <<>>
        ELSE Append(paths[i - 1], PathTo(side, v, paths[i - 1], i))
  IN paths[Len(v)]

\* Mutant: only the path that ends at the last value is looked at.
PathToLast(side, v) == PathsOf(side, v)[Len(v)]

\* longest_monotonic_subsequence_indices.
LongestPath(side, v) ==
  LET paths == PathsOf(side, v)
      best[i \in 0 .. Len(v) - 1] ==
        IF i = 0 THEN paths[1] ELSE Better(side, v, paths[i + 1], best[i - 1])
  IN best[Len(v) - 1]

OnProfitableSide(side, entry, ts) ==
  LET kept[i \in 0 .. Len(ts)] ==
        IF i = 0 THEN <<>>
        ELSE IF Beyond(side, entry, ts[i]) THEN Append(kept[i - 1], ts[i])
        ELSE kept[i - 1]
  IN kept[Len(ts)]

StopOnCorrectSide(side, entry, stop) == Beyond(side, stop, entry)

Rejected == [status |-> "rejected", targets |-> <<>>, alert |-> TRUE]

\* sanitize_signal.
Sanitized(sig) ==
  LET m2 == TwiceMedian(sig.targets)
      repaired == [i \in DOMAIN sig.targets |->
                    Repaired(sig.side, sig.entry, sig.targets[i], m2)]
      surviving == OnProfitableSide(sig.side, sig.entry, repaired)
      path == LongestPath(sig.side, surviving) IN
    IF ~ StopOnCorrectSide(sig.side, sig.entry, sig.stop) \/ sig.targets = <<>>
         \/ surviving = <<>>
      THEN Rejected
      ELSE [status |-> "accepted", targets |-> ValuesAt(surviving, path),
            alert |-> ValuesAt(surviving, path) # sig.targets]

-----------------------------------------------------------------------------
(* The planner.                                                             *)

\* Mutant: prices are rounded to the nearest tick.
RoundedToNearest(side, tick, p) == ((2 * p + tick) \div (2 * tick)) * tick

\* round_price_conservative: down for a long signal, up for a short one.
RoundedPrice(side, tick, p) ==
  IF side = "LONG" THEN (p \div tick) * tick
                   ELSE ((p + tick - 1) \div tick) * tick

FloorTo(step, q) == (q \div step) * step

\* A quotient of Decimals.
Quotient(a, b) == (2 * a + b) \div (2 * b)

\* equal_fractions and model2_fractions: the last one is what is left.
Part(model, n, i) ==
  IF model = 1 THEN Quotient(One, n)
               ELSE Quotient(One * Model2Weights[i], Total(n, Model2Weights))

Fractions(model, n) ==
  LET others == [i \in 1 .. n - 1 |-> Part(model, n, i)] IN
    [i \in 1 .. n |-> IF i < n THEN others[i] ELSE One - Total(n - 1, others)]

\* Decimals have digits enough that rounding the others leaves the last its part.
ASSUME PrecisionSuffices ==
  \A n \in 1 .. MaxTargets, model \in {1, 2} :
    model = 1 \/ n <= Len(Model2Weights) => Fractions(model, n)[n] >= 0

\* Mutant: what rounding leaves over is lost.
WithoutRest(qty, qs) == qs

\* The first leg takes what rounding left over.
WithRest(qty, qs) == [qs EXCEPT ![1] = @ + qty - Total(Len(qs), qs)]

LegQuantities(qty, fractions, step) ==
  WithRest(qty, [i \in DOMAIN fractions |-> FloorTo(step, (qty * fractions[i]) \div One)])

MeetsMinimums(f, q, price) == q >= f.minQty /\ q * price >= f.minNotional

AddToLast(legs, fraction, q) ==
  LET last == legs[Len(legs)] IN
    [legs EXCEPT ![Len(legs)] = [last EXCEPT !.fraction = @ + fraction, !.qty = @ + q]]

\* _merge_tiny_legs: targets are gathered until they meet the minimums; then
\* they make a leg, or, being several, join the leg before.
NothingGathered(legs) == [legs |-> legs, start |-> 0, fraction |-> 0, qty |-> 0]

Gather(f, prices, acc, i, fraction, q) ==
  LET all == [acc EXCEPT !.start = IF @ = 0 THEN i ELSE @,
                         !.fraction = @ + fraction, !.qty = @ + q] IN
    IF ~ MeetsMinimums(f, all.qty, prices[all.start]) THEN all
    ELSE IF acc.legs # <<>> /\ i # all.start
      THEN NothingGathered(AddToLast(acc.legs, all.fraction, all.qty))
    ELSE NothingGathered(Append(acc.legs,
           [index |-> all.start, price |-> prices[all.start],
            fraction |-> all.fraction, qty |-> all.qty]))

AllGathered(f, prices, fractions, qs) ==
  LET acc[i \in 0 .. Len(prices)] ==
        IF i = 0 THEN NothingGathered(<<>>)
        ELSE Gather(f, prices, acc[i - 1], i, fractions[i], qs[i])
  IN acc[Len(prices)]

MergedLegs(f, prices, fractions, qs) ==
  LET all == AllGathered(f, prices, fractions, qs) IN
    IF all.start = 0 \/ all.legs = <<>> THEN all.legs
    ELSE AddToLast(all.legs, all.fraction, all.qty)

\* _validate_inputs.
ValidInputs(sig, model, targets) ==
  /\ sig.entry > 0 /\ sig.stop > 0
  /\ Beyond(sig.side, sig.stop, sig.entry)
  /\ model # 3 =>
       /\ targets # <<>>
       /\ \A i \in DOMAIN targets : Beyond(sig.side, sig.entry, targets[i])

Refused(why) == [status |-> "refused", why |-> why]

\* Rounding took the entry to zero: the division by it is no ExecutionPlanError,
\* and leaves the turn of the user as any other exception.
DivisionByZero == [status |-> "raised"]

\* build_execution_plan.
Planned(sig, targets, notional, model, exit, f) ==
  LET entry == RoundedPrice(sig.side, f.tick, sig.entry)
      qty == FloorTo(f.step, notional \div entry)
      fractions == Fractions(model, Len(targets))
      prices == [i \in DOMAIN targets |-> RoundedPrice(sig.side, f.tick, targets[i])]
      legs == MergedLegs(f, prices, fractions, LegQuantities(qty, fractions, f.step))
      exitPrice == IF sig.side = "LONG" THEN entry + exit ELSE entry - exit IN
    IF ~ ValidInputs(sig, model, targets) THEN Refused("input")
    ELSE IF entry = 0 THEN DivisionByZero
    ELSE IF qty < f.minQty \/ qty <= 0 THEN Refused("quantity")
    ELSE IF qty * entry < f.minNotional THEN Refused("notional")
    ELSE IF model = 2 /\ Len(targets) > Len(Model2Weights) THEN Refused("weights")
    ELSE IF model # 3 /\ (\E i \in DOMAIN targets : targets[i] = 0) THEN Refused("price")
    ELSE IF model = 3 /\ (exit <= 0 \/ exitPrice <= 0) THEN Refused("exit")
    ELSE IF model # 3 /\ legs = <<>> THEN Refused("legs")
    ELSE [status |-> "planned", model |-> model, filters |-> f,
          qty |-> qty, entry |-> entry,
          stop |-> RoundedPrice(sig.side, f.tick, sig.stop),
          legs |-> IF model = 3 THEN <<>> ELSE legs,
          exit |-> IF model = 3 THEN RoundedPrice(sig.side, f.tick, exitPrice) ELSE 0]

-----------------------------------------------------------------------------
NotYet == [status |-> "none"]

Init ==
  /\ stage = "parsed"
  /\ signal \in [side : Sides, entry : Entries, stop : Stops,
                 targets : UNION {[1 .. n -> Prices] : n \in 1 .. MaxTargets}]
  /\ clean = NotYet /\ plan = NotYet

\* The ingestor, process_source_message.
Sanitize ==
  /\ stage = "parsed"
  /\ stage' = "sanitized"
  /\ clean' = Sanitized(signal)
  /\ UNCHANGED <<signal, plan>>

\* The core engine, for a user of some settings.
Plan ==
  /\ stage = "sanitized" /\ clean.status = "accepted"
  /\ stage' = "planned"
  /\ \E notional \in Margins, model \in RiskModels, exit \in Exits, f \in Filters :
       plan' = Planned(signal, clean.targets, notional, model, exit, f)
  /\ UNCHANGED <<signal, clean>>

Next == Sanitize \/ Plan
Spec == Init /\ [][Next]_vars

-----------------------------------------------------------------------------
(* Properties.                                                              *)

\* The ways to leave out some of the values so that the others are beyond the
\* entry, each beyond the one before.
Improving(side, entry, w) ==
  \A k \in DOMAIN w : Beyond(side, IF k = 1 THEN entry ELSE w[k - 1], w[k])

Ways(side, entry, v) ==
  {w \in {ValuesAt(v, p) : p \in UNION {{q \in [1 .. m -> DOMAIN v] :
            \A k \in 2 .. m : q[k - 1] < q[k]} : m \in DOMAIN v}} :
     Improving(side, entry, w)}

\* The targets left are, of all the ways to leave out targets of the repaired
\* ones so that each is beyond the one before, the one that keeps most, and of
\* these the one nearest to the entry.  The search by dynamic programming is
\* compared with this definition.
TargetsAreBest ==
  clean.status = "accepted" =>
    LET m2 == TwiceMedian(signal.targets)
        ways == Ways(signal.side, signal.entry, [i \in DOMAIN signal.targets |->
                  Repaired(signal.side, signal.entry, signal.targets[i], m2)])
        longest == {w \in ways : \A o \in ways : Len(o) <= Len(w)} IN
      /\ clean.targets \in longest
      /\ \A o \in longest \ {clean.targets} : \E k \in DOMAIN o :
           /\ Distance(clean.targets[k], signal.entry) < Distance(o[k], signal.entry)
           /\ \A l \in 1 .. k - 1 : clean.targets[l] = o[l]

\* A signal without a defect is traded as it is: the stop and the targets on
\* their sides, the targets in order and none five times off the median.
SoundSignalPasses ==
  clean # NotYet
  /\ signal.stop # signal.entry
  /\ (signal.side = "LONG" <=> signal.stop < signal.entry)
  /\ (\A i \in DOMAIN signal.targets :
        /\ signal.targets[i] # signal.entry
        /\ (signal.side = "LONG" <=> signal.targets[i] > signal.entry)
        /\ 2 * signal.targets[i] < 5 * TwiceMedian(signal.targets)
        /\ TwiceMedian(signal.targets) < 5 * (2 * signal.targets[i])
        /\ \A j \in 1 .. i - 1 : signal.targets[i] # signal.targets[j]
             /\ (signal.side = "LONG" <=> signal.targets[j] < signal.targets[i]))
  => clean = [status |-> "accepted", targets |-> signal.targets, alert |-> FALSE]

\* Whatever rounding and merging do, the legs make up the whole quantity and
\* each can be placed; and what the sanitizer accepts, the planner refuses only
\* when it is too small to trade, when model 2 has fewer weights than targets,
\* when a price is zero, or when the exit of model 3 is.
PlanIsExecutable ==
  /\ plan.status = "planned" /\ plan.model # 3 =>
       /\ Total(Len(plan.legs), [k \in DOMAIN plan.legs |-> plan.legs[k].qty]) = plan.qty
       /\ Total(Len(plan.legs), [k \in DOMAIN plan.legs |-> plan.legs[k].fraction]) = One
       /\ \A k \in DOMAIN plan.legs :
            /\ plan.legs[k].qty >= plan.filters.minQty
            /\ plan.legs[k].qty % plan.filters.step = 0
            /\ plan.legs[k].qty * plan.legs[k].price >= plan.filters.minNotional
            /\ k > 1 => plan.legs[k - 1].index < plan.legs[k].index
  /\ plan.status = "refused" =>
       \/ plan.why \in {"quantity", "notional", "legs", "exit"}
       \/ plan.why \in {"input", "price"}
            /\ (signal.stop = 0 \/ \E i \in DOMAIN clean.targets : clean.targets[i] = 0)
       \/ plan.why = "weights" /\ Len(signal.targets) > Len(Model2Weights)

\* Rounding never brings the stop nearer to the entry than in the signal, never
\* puts a target farther away, and never on the losing side of the entry.
PricesAreConservative ==
  plan.status = "planned" =>
    LET beyond(a, b) == IF signal.side = "LONG" THEN a < b ELSE a > b IN
      /\ ~ beyond(signal.stop, plan.stop)
      /\ ~ beyond(plan.entry, plan.stop)
      /\ \A k \in DOMAIN plan.legs :
           /\ ~ beyond(clean.targets[plan.legs[k].index], plan.legs[k].price)
           /\ ~ beyond(plan.legs[k].price, plan.entry)
      /\ plan.model = 3 => ~ beyond(plan.exit, plan.entry)

\* "If a leg is too small, merge it into the previous leg": a leg that meets
\* the minimums by itself, after a first one that does, is placed at its own
\* target.
OnlySmallLegsMerge ==
  plan.status = "planned" /\ plan.model # 3 =>
    LET f == plan.filters
        price(i) == RoundedPrice(signal.side, f.tick, clean.targets[i])
        qs == LegQuantities(plan.qty, Fractions(plan.model, Len(clean.targets)), f.step) IN
      MeetsMinimums(f, qs[1], price(1)) =>
        \A i \in DOMAIN qs : MeetsMinimums(f, qs[i], price(i)) =>
          \E k \in DOMAIN plan.legs : plan.legs[k].index = i
=============================================================================
