------------------------------ MODULE DemoBook ------------------------------
(***************************************************************************)
(* What the demo promises about the accounts of its users, whatever the    *)
(* opener, the ticker, the bot, a rollback or a crash do on the way: the   *)
(* trades of a signal are entered in one step, a trade is closed and paid  *)
(* in one step, a reset forgets the trades and their results in one step,  *)
(* and nothing is entered or closed before it was announced.               *)
(***************************************************************************)
EXTENDS Summation

CONSTANTS Users, Messages, MaxTrades, StartBalance

VARIABLES
  accounts,  \* users who have one
  balance,
  book,      \* the trades: ids to [user, signal, margin, status, pnl]
  told       \* <<"opened", id>>, <<"closed", id>>

bookVars == <<accounts, balance, book, told>>

Ids == 1 .. MaxTrades

\* What the closed trades of a user in book b have come to.
Earned(u, b) ==
  Total(MaxTrades, [i \in Ids |->
    IF i \in DOMAIN b /\ b[i].user = u /\ b[i].status = "closed" THEN b[i].pnl ELSE 0])

OpenAccount(u) ==
  /\ u \notin accounts
  /\ accounts' = accounts \cup {u}
  /\ balance' = [balance EXCEPT ![u] = StartBalance]
  /\ UNCHANGED <<book, told>>

Announce(m) ==
  /\ told' = told \cup {m}
  /\ UNCHANGED <<accounts, balance, book>>

\* The trades a signal brings: each of a user with an account, who has no other
\* open trade for the signal.
Enter(s) ==
  /\ DOMAIN book # DOMAIN book' /\ DOMAIN book \subseteq DOMAIN book'
  /\ \A i \in DOMAIN book : book'[i] = book[i]
  /\ \A i \in DOMAIN book' \ DOMAIN book :
       /\ i \in Ids /\ <<"opened", i>> \in told
       /\ book'[i].signal = s /\ book'[i].user \in accounts
       /\ book'[i].status = "open" /\ book'[i].pnl = 0
       /\ \A j \in DOMAIN book' \ {i} :
            book'[j].signal = s /\ book'[j].user = book'[i].user =>
              book'[j].status = "closed"
  /\ UNCHANGED <<accounts, balance, told>>

WithResult(entry, pnl) == [entry EXCEPT !.status = "closed", !.pnl = pnl]

\* The trades one price closes, none for a loss of more than its margin.
Settle ==
  /\ book' # book /\ DOMAIN book' = DOMAIN book
  /\ \A i \in DOMAIN book : book'[i] # book[i] =>
       /\ book[i].status = "open" /\ <<"closed", i>> \in told
       /\ book'[i] = WithResult(book[i], book'[i].pnl)
       /\ book'[i].pnl >= - book[i].margin
  /\ balance' = [u \in Users |-> balance[u] + (Earned(u, book') - Earned(u, book))]
  /\ UNCHANGED <<accounts, told>>

Reset(u) ==
  /\ u \in accounts
  /\ book' = [i \in {j \in DOMAIN book : book[j].user # u} |-> book[i]]
  /\ balance' = [balance EXCEPT ![u] = StartBalance]
  /\ UNCHANGED <<accounts, told>>

Init ==
  /\ accounts \subseteq Users
  /\ balance = [u \in Users |-> StartBalance]
  /\ DOMAIN book = {} /\ told = {}

Next ==
  \/ \E u \in Users : OpenAccount(u) \/ Reset(u)
  \/ \E m \in {"opened", "closed"} \X Ids : Announce(m)
  \/ \E s \in Messages : Enter(s)
  \/ Settle

Spec == Init /\ [][Next]_bookVars
=============================================================================
