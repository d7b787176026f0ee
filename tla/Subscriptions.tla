--------------------------- MODULE Subscriptions ---------------------------
(***************************************************************************)
(* Subscriptions from the payment to their end: the forms of the telegram  *)
(* bot (services/telegram_bot/handlers.py), the decisions of the admins    *)
(* (services/admin_panel) and the two jobs that remind users and end       *)
(* subscriptions (services/telegram_bot/scheduler.py).                     *)
(*                                                                         *)
(* The bot is one event loop with a synchronous database: a handler is     *)
(* interrupted only where it waits for Redis or Telegram.  A job is one    *)
(* transaction from its query to its end, across all its waits, and each   *)
(* row it has marked stays locked until then.                              *)
(***************************************************************************)
EXTENDS Integers, FiniteSets, Sequences, FiniteSetsExt

CONSTANTS
  Users, Plans,
  Duration,      \* of each plan, in days; the reminder comes one day before
  MaxPayments,   \* bound: payments
  MaxTime,       \* bound: days
  MaxFaults      \* bound: failing publications and restarts of the bot

NoPlan == "no plan"

ASSUME SubscriptionConstants ==
  /\ Duration \in [Plans -> Nat \ {0}]
  /\ NoPlan \notin Plans
  /\ MaxPayments \in Nat /\ MaxTime \in Nat /\ MaxFaults \in Nat

Jobs == {"reminder", "expired"}
Ids == 1 .. MaxPayments

VARIABLES
  now,          \* the day
  form,         \* the plan a user has chosen, and whether a TXID is expected
  payment,      \* a sequence of rows, as functions on 1 .. Len
  subscription, \* the rows created together with them
  announcing,   \* payments committed, whose handler is still publishing
  job,          \* the jobs: rows still to do, rows marked
  told,         \* the texts of the jobs, for each subscription
  stuck,        \* the event loop waits for a lock one of its tasks holds
  faults

botVars == <<form, announcing, job, told, stuck>>
rowVars == <<payment, subscription>>
vars == <<now, botVars, rowVars, faults>>

Rows == DOMAIN payment
\* A form that waits for a TXID has a plan, whatever handlers of the user end in
\* between: a TXID is never recorded for no plan.
Forms == {f \in [plan : Plans \cup {NoPlan}, txid : BOOLEAN] : f.txid => f.plan # NoPlan}
NoForm == [plan |-> NoPlan, txid |-> FALSE]
Idle == [todo |-> {}, marked |-> {}]

\* The type invariant, with the rule above for the forms.
TypeOK ==
  /\ now \in 0 .. MaxTime
  /\ form \in [Users -> Forms]
  /\ \E n \in 0 .. MaxPayments :
       /\ payment \in [1 .. n -> [user : Users, plan : Plans,
                                  status : {"submitted", "approved", "rejected"}]]
       /\ subscription \in
            [1 .. n -> [user : Users, plan : Plans,
                        status : {"pending", "active", "expired", "rejected"},
                        ends : Nat, reminded : BOOLEAN]]
  /\ announcing \in SUBSET Rows
  /\ job \in [Jobs -> [todo : SUBSET Rows, marked : SUBSET Rows]]
  /\ told \in [Ids -> [Jobs -> Nat]]
  /\ stuck \in BOOLEAN
  /\ faults \in 0 .. MaxFaults

Init ==
  /\ now = 0
  /\ form = [u \in Users |-> NoForm]
  /\ announcing = {}
  /\ payment = <<>> /\ subscription = <<>>
  /\ job = [j \in Jobs |-> Idle]
  /\ told = [i \in Ids |-> [j \in Jobs |-> 0]]
  /\ stuck = FALSE
  /\ faults = 0

-----------------------------------------------------------------------------
(* The forms.                                                               *)

\* A handler that only changes the form of the user.
FormStep(u, f) ==
  /\ ~ stuck
  /\ form' = [form EXCEPT ![u] = f]
  /\ UNCHANGED <<now, rowVars, announcing, job, told, stuck, faults>>

\* handle_plan: the plan is stored, the state is kept.
ChoosePlan(u, p) == FormStep(u, [form[u] EXCEPT !.plan = p])

\* handle_network: the wallet is shown; without a plan it is refused.
ChooseNetwork(u) ==
  /\ form[u].plan # NoPlan
  /\ FormStep(u, [form[u] EXCEPT !.txid = TRUE])

\* handle_connect_api and handle_fixed_margin_prompt ask for something else; the
\* plan is kept.
AskOther(u) == FormStep(u, [form[u] EXCEPT !.txid = FALSE])

\* Mutant: the state of the form outlives its data.
ClearedData(f) == [f EXCEPT !.plan = NoPlan]

\* What state.clear leaves.
Cleared(f) == NoForm

\* handle_language, handle_main_menu, handle_fixed_margin and
\* handle_api_credentials; the latter clears what is there after its waits.
Clear(u) == FormStep(u, Cleared(form[u]))

\* handle_txid commits a payment and its subscription; then it publishes.
Submit(u) ==
  /\ ~ stuck
  /\ form[u].txid
  /\ Len(payment) < MaxPayments
  /\ payment' = Append(payment,
       [user |-> u, plan |-> form[u].plan, status |-> "submitted"])
  /\ subscription' = Append(subscription,
       [user |-> u, plan |-> form[u].plan, status |-> "pending",
        ends |-> 0, reminded |-> FALSE])
  /\ announcing' = announcing \cup {Len(payment')}
  /\ UNCHANGED <<now, form, job, told, stuck, faults>>

\* payment.submitted and notify.admin are out; the form is cleared.
Announced(i) ==
  /\ ~ stuck
  /\ i \in announcing
  /\ announcing' = announcing \ {i}
  /\ LET u == payment[i].user IN
       form' = [form EXCEPT ![u] = Cleared(form[u])]
  /\ UNCHANGED <<now, rowVars, job, told, stuck, faults>>

\* A publication fails: the form keeps waiting for a TXID.
AnnounceFails(i) ==
  /\ ~ stuck
  /\ i \in announcing
  /\ faults < MaxFaults /\ faults' = faults + 1
  /\ announcing' = announcing \ {i}
  /\ UNCHANGED <<now, form, rowVars, job, told, stuck>>

-----------------------------------------------------------------------------
(* The admin panel, a process of its own.                                   *)

\* Mutant: any pending subscription of the user is taken for the payment.
PendingOfUser(i) ==
  {k \in Rows : /\ subscription[k].status = "pending"
                /\ subscription[k].user = payment[i].user}

\* The subscriptions a payment can stand for.
PendingFor(i) ==
  {k \in Rows : /\ subscription[k].status = "pending"
                /\ subscription[k].user = payment[i].user
                /\ subscription[k].plan = payment[i].plan}

\* Mutant: a rejected payment can still be approved.
NotApproved(i) == payment[i].status # "approved"

\* Only a submitted payment can be decided.
IsSubmitted(i) == payment[i].status = "submitted"

\* approve_payment: the newest of them starts now.
Approve(i) ==
  /\ IsSubmitted(i)
  /\ PendingFor(i) # {}
  /\ LET k == Max(PendingFor(i)) IN
       subscription' = [subscription EXCEPT
         ![k].status = "active", ![k].reminded = FALSE,
         ![k].ends = now + Duration[subscription[k].plan]]
  /\ payment' = [payment EXCEPT ![i].status = "approved"]
  /\ UNCHANGED <<now, botVars, faults>>

\* reject_payment: the newest of them is rejected, if there is one.
Reject(i) ==
  /\ IsSubmitted(i)
  /\ subscription' = IF PendingFor(i) = {} THEN subscription
       ELSE [subscription EXCEPT ![Max(PendingFor(i))].status = "rejected"]
  /\ payment' = [payment EXCEPT ![i].status = "rejected"]
  /\ UNCHANGED <<now, botVars, faults>>

-----------------------------------------------------------------------------
(* The jobs of the bot.                                                     *)

Active(i) == subscription[i].status = "active"

DueForReminder ==
  {i \in Rows : /\ Active(i) /\ ~ subscription[i].reminded
                /\ now < subscription[i].ends /\ subscription[i].ends <= now + 1}

\* Mutant: only what ends on the day expires.
DueToday == {i \in Rows : Active(i) /\ subscription[i].ends = now}

DueForExpiry == {i \in Rows : Active(i) /\ subscription[i].ends <= now}

Due(j) == IF j = "reminder" THEN DueForReminder ELSE DueForExpiry

\* The scheduler starts a job when its last run has ended.
StartJob(j) ==
  /\ ~ stuck
  /\ job[j] = Idle
  /\ Due(j) # {}
  /\ job' = [job EXCEPT ![j].todo = Due(j)]
  /\ UNCHANGED <<now, form, rowVars, announcing, told, stuck, faults>>

IsEarliest(i, S) ==
  /\ i \in S
  /\ \A k \in S : \/ subscription[i].ends < subscription[k].ends
                  \/ subscription[i].ends = subscription[k].ends /\ i <= k

\* The rows after the commit of a job that marked S.
Marked(j, S) ==
  [i \in Rows |->
    IF i \notin S THEN subscription[i]
    ELSE IF j = "reminder" THEN [subscription[i] EXCEPT !.reminded = TRUE]
    ELSE [subscription[i] EXCEPT !.status = "expired"]]

LockedByOther(i, j) == \E k \in Jobs \ {j} : i \in job[k].marked

\* A text of a job is published and the row marked; the last one commits.
JobStep(j, i) ==
  /\ ~ stuck
  /\ IsEarliest(i, job[j].todo)
  /\ ~ LockedByOther(i, j)
  /\ told' = [told EXCEPT ![i][j] = @ + 1]
  /\ LET rest == job[j].todo \ {i}
         marked == job[j].marked \cup {i} IN
       IF rest = {}
         THEN /\ subscription' = Marked(j, marked)
              /\ job' = [job EXCEPT ![j] = Idle]
         ELSE /\ job' = [job EXCEPT ![j] = [todo |-> rest, marked |-> marked]]
              /\ UNCHANGED subscription
  /\ UNCHANGED <<now, form, payment, announcing, stuck, faults>>

\* The row is locked by the other job, which waits for Redis: marking it blocks
\* the thread of the event loop, so that the other job never goes on.
JobBlocks(j, i) ==
  /\ ~ stuck
  /\ IsEarliest(i, job[j].todo)
  /\ LockedByOther(i, j)
  /\ told' = [told EXCEPT ![i][j] = @ + 1]
  /\ stuck' = TRUE
  /\ UNCHANGED <<now, form, rowVars, announcing, job, faults>>

\* Mutant: what was marked before the failure is kept.
KeptMarks(j) == Marked(j, job[j].marked \cup job[j].todo)

\* The rows after a job that failed: all its marks are rolled back.
RolledBack(j) == subscription

\* A publication fails, before or after its effect.
JobFails(j, i) ==
  /\ ~ stuck
  /\ IsEarliest(i, job[j].todo)
  /\ faults < MaxFaults /\ faults' = faults + 1
  /\ told' \in {told, [told EXCEPT ![i][j] = @ + 1]}
  /\ subscription' = RolledBack(j)
  /\ job' = [job EXCEPT ![j] = Idle]
  /\ UNCHANGED <<now, form, payment, announcing, stuck>>

\* The bot is started again: forms and running jobs are gone.
RestartBot ==
  /\ faults < MaxFaults /\ faults' = faults + 1
  /\ form' = [u \in Users |-> NoForm]
  /\ announcing' = {}
  /\ job' = [j \in Jobs |-> Idle]
  /\ stuck' = FALSE
  /\ UNCHANGED <<now, rowVars, told>>

Tick ==
  /\ now < MaxTime /\ now' = now + 1
  /\ UNCHANGED <<botVars, rowVars, faults>>

FormNext(u) ==
  \/ \E p \in Plans : ChoosePlan(u, p)
  \/ ChooseNetwork(u)
  \/ AskOther(u) \/ Clear(u) \/ Submit(u)

PaymentNext(i) ==
  Announced(i) \/ AnnounceFails(i) \/ Approve(i) \/ Reject(i)

JobNext(j) == StartJob(j) \/ \E i \in Rows : JobStep(j, i) \/ JobBlocks(j, i)

Next ==
  \/ \E u \in Users : FormNext(u)
  \/ \E i \in Rows : PaymentNext(i)
  \/ \E j \in Jobs : JobNext(j) \/ \E i \in Rows : JobFails(j, i)
  \/ RestartBot
  \/ Tick

Spec == Init /\ [][Next]_vars

\* The scheduler goes on starting jobs, and their publications end.
FairSpec == Spec /\ \A j \in Jobs : WF_vars(JobNext(j))

-----------------------------------------------------------------------------
(* Properties.                                                              *)

\* The rows are decided by matching user and plan, not by a reference: even so
\* no payment takes the subscription of another one.  For each user and plan
\* as many subscriptions wait as payments, and as many have been started as
\* payments approved.
PaymentsMatchSubscriptions ==
  \A u \in Users, p \in Plans :
    LET paid(st) == {i \in Rows : payment[i] = [user |-> u, plan |-> p, status |-> st]}
        subs(S) == {i \in Rows : /\ subscription[i].user = u
                                 /\ subscription[i].plan = p
                                 /\ subscription[i].status \in S} IN
      /\ Cardinality(paid("submitted")) = Cardinality(subs({"pending"}))
      /\ Cardinality(paid("approved")) = Cardinality(subs({"active", "expired"}))

\* The marks of the rows and the texts of the jobs agree, also when a job was
\* rolled back or interrupted: a subscription that expired has ended and its
\* user was told so, nobody is told so before the end, a mark is not kept
\* without its text, and a text is repeated only after a failure.
TextsFollowRows ==
  \A i \in Rows :
    /\ subscription[i].status = "expired" => told[i]["expired"] > 0
    /\ told[i]["expired"] > 0 => subscription[i].ends <= now /\ subscription[i].ends > 0
    /\ subscription[i].reminded => told[i]["reminder"] > 0
    /\ \A j \in Jobs : told[i][j] <= 1 + faults

\* A decision stands, whatever other admins do: of the payment, and of the
\* subscription, whose days are never changed after it was started.
DecisionIsFinal ==
  [][\A i \in Rows :
       /\ payment[i].status # "submitted" => payment'[i] = payment[i]
       /\ subscription[i].status # "pending" =>
            /\ subscription'[i].ends = subscription[i].ends
            /\ subscription'[i].status \in {subscription[i].status, "expired"}]_vars

\* A subscription expires after its end, unless the two jobs have met on a row
\* and hold up the event loop.
EndedExpires ==
  \A i \in Ids :
    (i \in Rows /\ Active(i) /\ subscription[i].ends <= now)
      ~> stuck \/ (i \in Rows /\ subscription[i].status = "expired")
=============================================================================
