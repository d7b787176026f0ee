------------------------------ MODULE TradeBook ------------------------------
(***************************************************************************)
(* What the core engine promises about its trades, whatever happens to     *)
(* workers, connections and records on the way: each signal.created event  *)
(* is settled at most once and in one step, which enters the outcome of    *)
(* every user's turn into the book; a record is acknowledged only when its *)
(* event is settled.                                                       *)
(***************************************************************************)
EXTENDS Naturals, FiniteSets

CONSTANTS Records, Events, Users, EventOf, SignalOf, NoEvent, MaxConcurrent

VARIABLES
  acked,    \* acknowledged records
  settled,  \* events with a processed_events row
  book      \* the trades, as [id, user, event, outcome]

bookVars == <<acked, settled, book>>

Outcomes == {"open", "skipped", "error", "closed"}

OpenOf(u, B) == {x \in B : x.user = u /\ x.outcome = "open"}

\* One entry per user, each with an id of its own; none opens a trade for a
\* signal the user is already in, or takes the user above the limit of
\* concurrent trades.
IsBatch(e, T) ==
  /\ \A x \in T :
       /\ x.event = e
       /\ x.user \in Users
       /\ x.outcome \in Outcomes
       /\ \A y \in T : x.user = y.user \/ x.id = y.id => x = y
       /\ \A y \in book : x.id # y.id
       /\ x.outcome = "open" =>
            \A y \in OpenOf(x.user, book) : SignalOf[y.event] # SignalOf[e]
  /\ \A u \in Users :
       OpenOf(u, T) # {} => Cardinality(OpenOf(u, book \cup T)) <= MaxConcurrent

Settle(e, T) ==
  /\ e \notin settled
  /\ IsBatch(e, T)
  /\ settled' = settled \cup {e}
  /\ book' = book \cup T
  /\ UNCHANGED acked

\* Trade x leaves the market.
Close(x) ==
  /\ x.outcome = "open"
  /\ book' = (book \ {x}) \cup {[x EXCEPT !.outcome = "closed"]}
  /\ UNCHANGED <<acked, settled>>

Acknowledge(r) ==
  /\ EventOf[r] = NoEvent \/ EventOf[r] \in settled
  /\ acked' = acked \cup {r}
  /\ UNCHANGED <<settled, book>>

Init == acked = {} /\ settled = {} /\ book = {}

\* The batch of a settling step is what it adds to the book.
Next ==
  \/ \E e \in Events : Settle(e, book' \ book)
  \/ \E x \in book : Close(x)
  \/ \E r \in Records : Acknowledge(r)

Spec == Init /\ [][Next]_bookVars
=============================================================================
