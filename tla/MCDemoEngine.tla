---------------------------- MODULE MCDemoEngine ----------------------------
(***************************************************************************)
(* A small instance of DemoEngine for TLC.                                 *)
(***************************************************************************)
EXTENDS DemoEngine

\* Leverage 12 is liquidated at 1106, before the stop at 1080; with a cap of 6
\* the liquidation at 1006 is behind it.
LongSignal ==
  [m \in Messages |->
     [symbol |-> "X", side |-> "LONG", entry |-> 1200, stop |-> 1080,
      leverage |-> 12, targets |-> <<1250, 1300>>]]
Weights6020 == <<60, 20, 10>>
CapForFirst == [u \in Users |-> IF u = 1 THEN 6 ELSE 0]
LegsThenWhole == [u \in Users |-> IF u = 1 THEN 2 ELSE 3]
=============================================================================
