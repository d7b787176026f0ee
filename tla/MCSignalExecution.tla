------------------------- MODULE MCSignalExecution -------------------------
(***************************************************************************)
(* Small instances of SignalExecution for TLC.                             *)
(***************************************************************************)
EXTENDS SignalExecution, TLC

\* Two signals on one symbol, and a record that is not a signal.created.
TwoSignals ==
  [r \in Records |->
     CASE r = "r1" -> "e1" [] r = "r2" -> "e2" [] OTHER -> NoEvent]
EachItsSignal == [e \in Events |-> IF e = "e1" THEN "s1" ELSE "s2"]
SameSymbol == [s \in Signals |-> "X"]

\* One signal in two events, the first of them in two records.
RepeatedSignal == [r \in Records |-> IF r = "r2" THEN "e2" ELSE "e1"]
BothOneSignal == [e \in Events |-> "s1"]

\* The workers of one consumer group are alike.
Interchangeable == Permutations(Workers)
=============================================================================
