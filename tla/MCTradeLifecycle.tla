-------------------------- MODULE MCTradeLifecycle --------------------------
(***************************************************************************)
(* Small instances of TradeLifecycle for TLC.                              *)
(***************************************************************************)
EXTENDS TradeLifecycle

\* Every trade with all legs, or every trade of risk model 3.
WithLegs == [t \in Trades |-> Targets]
WithoutLegs == [t \in Trades |-> {}]
=============================================================================
