-------------------------- MODULE MCSignalPlanning --------------------------
(* A small instance of SignalPlanning for TLC: prices in cents. *)
EXTENDS SignalPlanning

\* Fine and coarse filters, the last with a tick larger than the entry.
SomeFilters ==
  {[tick |-> 100, step |-> 1, minQty |-> 1, minNotional |-> 10500],
   [tick |-> 300, step |-> 2, minQty |-> 2, minNotional |-> 0],
   [tick |-> 20000, step |-> 1, minQty |-> 1, minNotional |-> 0]}

\* The first three of the default weights, so that a signal may have more targets.
ThreeWeights == <<600, 200, 100>>
=============================================================================
