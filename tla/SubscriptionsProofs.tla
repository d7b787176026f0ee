------------------------ MODULE SubscriptionsProofs ------------------------
(***************************************************************************)
(* Proofs about Subscriptions, for all users and plans, any duration of    *)
(* the plans and every bound.  The argument: a job works on rows that are  *)
(* started and that it has not marked yet, whatever the other job, the     *)
(* admins and the handlers do meanwhile; and each step that decides a      *)
(* payment moves one payment and one subscription of its user and plan.    *)
(***************************************************************************)
EXTENDS Subscriptions, FiniteSetTheorems, WellFoundedInduction, TLAPS

\* The rows of a payment that was approved.
Started(i) == subscription[i].status \in {"active", "expired"}

\* The job has still to mark the row.
Unmarked(i, j) ==
  IF j = "reminder" THEN ~ subscription[i].reminded
                    ELSE subscription[i].status # "expired"

\* A job works on started rows it has not marked, and told those it has done.
JobsOnRows ==
  \A j \in Jobs :
    /\ \A i \in job[j].todo \cup job[j].marked :
         /\ Started(i) /\ Unmarked(i, j)
         /\ j = "expired" => subscription[i].ends <= now
    /\ \A i \in job[j].marked : i \notin job[j].todo /\ told[i][j] > 0

\* Texts are about started rows.
TextsAboutStarted ==
  /\ \A i \in Ids, j \in Jobs : told[i][j] > 0 => i \in Rows /\ Started(i)
  /\ \A i \in Rows : Started(i) => subscription[i].ends > 0

\* What a job has still to do was told only as often as it failed.
ToldByFaults ==
  ~ stuck =>
    \A i \in Rows, j \in Jobs :
      Unmarked(i, j) /\ i \notin job[j].marked => told[i][j] <= faults

IInv ==
  /\ TypeOK
  /\ JobsOnRows
  /\ TextsAboutStarted
  /\ ToldByFaults
  /\ TextsFollowRows

PaymentRow == [user : Users, plan : Plans, status : {"submitted", "approved", "rejected"}]
SubscriptionRow ==
  [user : Users, plan : Plans,
   status : {"pending", "active", "expired", "rejected"},
   ends : Nat, reminded : BOOLEAN]

-----------------------------------------------------------------------------
\* Rows are numbered from one, and there are as many of each kind.
LEMMA RowFacts ==
  ASSUME TypeOK
  PROVE  /\ Len(payment) \in 0 .. MaxPayments
         /\ Rows = 1 .. Len(payment)
         /\ Rows \subseteq Ids
         /\ Len(subscription) = Len(payment)
         /\ payment \in Seq(PaymentRow)
         /\ subscription \in Seq(SubscriptionRow)
         /\ payment \in [Rows -> PaymentRow]
         /\ subscription \in [Rows -> SubscriptionRow]
<1>1. PICK n \in 0 .. MaxPayments :
        payment \in [1 .. n -> PaymentRow] /\ subscription \in [1 .. n -> SubscriptionRow]
  BY DEF TypeOK, PaymentRow, SubscriptionRow
<1>2. n \in Nat /\ MaxPayments \in Nat
  BY SubscriptionConstants
<1>3. payment \in Seq(PaymentRow) /\ subscription \in Seq(SubscriptionRow)
  BY <1>1, <1>2
<1>4. Len(payment) = n /\ Len(subscription) = n
  BY <1>1, <1>2, <1>3
<1> QED
  BY <1>1, <1>2, <1>3, <1>4 DEF Rows, Ids

\* Rows of the given types and of equal number have the types of TypeOK.
LEMMA RowsTyped ==
  ASSUME NEW n \in 0 .. MaxPayments,
         NEW p \in [1 .. n -> PaymentRow], NEW s \in [1 .. n -> SubscriptionRow]
  PROVE  \E k \in 0 .. MaxPayments :
           /\ p \in [1 .. k -> [user : Users, plan : Plans,
                                status : {"submitted", "approved", "rejected"}]]
           /\ s \in [1 .. k -> [user : Users, plan : Plans,
                                status : {"pending", "active", "expired", "rejected"},
                                ends : Nat, reminded : BOOLEAN]]
  BY DEF PaymentRow, SubscriptionRow

\* A set of numbers that is not empty has a least one.
LEMMA LeastNumber ==
  ASSUME NEW T, T \subseteq Nat, T # {}
  PROVE  \E m \in T : \A k \in T : m <= k
<1> DEFINE R == {p \in Nat \X Nat : p[1] < p[2]}
<1>1. IsWellFoundedOn(R, Nat)
  BY NatLessThanWellFounded DEF OpToRel
<1> HIDE DEF R
<1>2. PICK m \in T : \A k \in T : ~ (<<k, m>> \in R)
  BY <1>1, WFMin
<1>3. ASSUME NEW k \in T PROVE m <= k
  <2> DEFINE p == <<k, m>>
  <2>1. p \in Nat \X Nat /\ p[1] = k /\ p[2] = m
    OBVIOUS
  <2>2. ~ (p \in R)
    BY <1>2
  <2> HIDE DEF p
  <2>3. ~ (k < m)
    BY <2>1, <2>2 DEF R
  <2> QED
    BY <2>3
<1> QED
  BY <1>3

\* A set of rows that is not empty has a newest one.
LEMMA NewestRow ==
  ASSUME NEW n \in Nat, NEW S \in SUBSET (1 .. n), S # {}
  PROVE  Max(S) \in S
<1> DEFINE T == {m \in Nat : \E k \in S : m = n - k}
<1>1. PICK e \in S : TRUE
  OBVIOUS
<1>2. n - e \in Nat /\ n - e \in T
  <2>1. e \in 1 .. n
    OBVIOUS
  <2>2. n - e \in Nat
    BY <2>1
  <2> QED
    BY <2>2
<1>3. T \in SUBSET Nat /\ T # {}
  BY <1>2
<1> HIDE DEF T
<1>4. PICK m \in T : \A k \in T : m <= k
  BY <1>3, LeastNumber
<1> USE DEF T
<1>5. PICK x \in S : m = n - x
  OBVIOUS
<1>6. ASSUME NEW y \in S PROVE x >= y
  <2>1. x \in 1 .. n /\ y \in 1 .. n
    OBVIOUS
  <2>2. n - y \in Nat
    BY <2>1
  <2>3. n - y \in T
    BY <2>2
  <2>4. n - x <= n - y
    BY <1>4, <1>5, <2>3
  <2> QED
    BY <2>1, <2>4
<1> QED
  BY <1>5, <1>6 DEF Max

LEMMA NewestPending ==
  ASSUME TypeOK, NEW i \in Rows, PendingFor(i) # {}
  PROVE  Max(PendingFor(i)) \in PendingFor(i)
<1>1. Rows = 1 .. Len(payment) /\ Len(payment) \in Nat
  BY RowFacts
<1>2. PendingFor(i) \in SUBSET (1 .. Len(payment))
  BY <1>1 DEF PendingFor
<1> QED
  BY <1>1, <1>2, NewestRow

\* What the commit of a job does to the rows.
LEMMA MarkedFacts ==
  ASSUME TypeOK, NEW j \in Jobs, NEW S \in SUBSET Rows
  PROVE  /\ Marked(j, S) \in [Rows -> SubscriptionRow]
         /\ \A i \in Rows :
              /\ i \notin S => Marked(j, S)[i] = subscription[i]
              /\ Marked(j, S)[i].user = subscription[i].user
              /\ Marked(j, S)[i].plan = subscription[i].plan
              /\ Marked(j, S)[i].ends = subscription[i].ends
              /\ j = "reminder" =>
                   /\ Marked(j, S)[i].status = subscription[i].status
                   /\ i \in S => Marked(j, S)[i].reminded
              /\ j = "expired" =>
                   /\ Marked(j, S)[i].reminded = subscription[i].reminded
                   /\ i \in S => Marked(j, S)[i].status = "expired"
<1>1. subscription \in [Rows -> SubscriptionRow]
  BY RowFacts
<1>2. j = "reminder" \/ j = "expired"
  BY DEF Jobs
<1>3. ASSUME NEW i \in Rows
      PROVE  /\ Marked(j, S)[i] = IF i \notin S THEN subscription[i]
                  ELSE IF j = "reminder" THEN [subscription[i] EXCEPT !.reminded = TRUE]
                  ELSE [subscription[i] EXCEPT !.status = "expired"]
             /\ subscription[i] \in SubscriptionRow
  BY <1>1 DEF Marked
<1> QED
  BY <1>2, <1>3 DEF Marked, SubscriptionRow

-----------------------------------------------------------------------------
\* Types.
LEMMA InitTypes == Init => TypeOK
<1> SUFFICES ASSUME Init PROVE TypeOK
  OBVIOUS
<1>1. payment = << >> /\ subscription = << >> /\ Rows = {}
  BY DEF Init, Rows
<1>2. 0 \in 0 .. MaxPayments /\ 0 \in 0 .. MaxTime /\ 0 \in 0 .. MaxFaults
  BY SubscriptionConstants
<1>3. << >> \in [1 .. 0 -> PaymentRow] /\ << >> \in [1 .. 0 -> SubscriptionRow]
  OBVIOUS
<1>4. \E n \in 0 .. MaxPayments :
        payment \in [1 .. n -> PaymentRow] /\ subscription \in [1 .. n -> SubscriptionRow]
  BY <1>1, <1>2, <1>3
<1>5. form \in [Users -> Forms]
  BY DEF Init, NoForm, Forms
<1>6. job \in [Jobs -> [todo : SUBSET Rows, marked : SUBSET Rows]]
  BY DEF Init, Idle
<1> QED
  BY <1>1, <1>2, <1>4, <1>5, <1>6 DEF Init, TypeOK, PaymentRow, SubscriptionRow

\* A new pair of rows.
LEMMA SubmitTypes ==
  ASSUME TypeOK, NEW u \in Users, Submit(u)
  PROVE  /\ Len(payment) < MaxPayments
         /\ payment' \in [1 .. Len(payment) + 1 -> PaymentRow]
         /\ subscription' \in [1 .. Len(payment) + 1 -> SubscriptionRow]
         /\ Rows' = Rows \cup {Len(payment) + 1}
         /\ \A i \in Rows : payment'[i] = payment[i] /\ subscription'[i] = subscription[i]
         /\ payment'[Len(payment) + 1] =
              [user |-> u, plan |-> form[u].plan, status |-> "submitted"]
         /\ subscription'[Len(payment) + 1] =
              [user |-> u, plan |-> form[u].plan, status |-> "pending",
               ends |-> 0, reminded |-> FALSE]
<1> DEFINE p == [user |-> u, plan |-> form[u].plan, status |-> "submitted"]
           s == [user |-> u, plan |-> form[u].plan, status |-> "pending",
                 ends |-> 0, reminded |-> FALSE]
<1>1. form[u].plan \in Plans
  BY DEF TypeOK, Submit, Forms
<1>2. p \in PaymentRow /\ s \in SubscriptionRow
  BY <1>1 DEF PaymentRow, SubscriptionRow
<1>3. payment \in Seq(PaymentRow) /\ subscription \in Seq(SubscriptionRow)
      /\ Len(subscription) = Len(payment) /\ Rows = 1 .. Len(payment)
  BY RowFacts
<1>4. payment' = Append(payment, p) /\ subscription' = Append(subscription, s)
      /\ Len(payment) < MaxPayments
  BY DEF Submit
<1> HIDE DEF p, s
<1>5. payment' \in Seq(PaymentRow) /\ subscription' \in Seq(SubscriptionRow)
      /\ Len(payment') = Len(payment) + 1 /\ Len(subscription') = Len(payment) + 1
  BY <1>2, <1>3, <1>4
<1>6. payment' \in [1 .. Len(payment) + 1 -> PaymentRow]
      /\ subscription' \in [1 .. Len(payment) + 1 -> SubscriptionRow]
  BY <1>5
<1>7. Rows' = Rows \cup {Len(payment) + 1}
  BY <1>3, <1>6 DEF Rows
<1>8. /\ \A i \in Rows : payment'[i] = payment[i] /\ subscription'[i] = subscription[i]
      /\ payment'[Len(payment) + 1] = p /\ subscription'[Len(payment) + 1] = s
  BY <1>2, <1>3, <1>4
<1> QED
  BY <1>4, <1>6, <1>7, <1>8 DEF p, s

\* The decided rows.
LEMMA DecideTypes ==
  ASSUME TypeOK, NEW i \in Rows, Approve(i) \/ Reject(i)
  PROVE  payment' \in [Rows -> PaymentRow] /\ subscription' \in [Rows -> SubscriptionRow]
<1>1. payment \in [Rows -> PaymentRow] /\ subscription \in [Rows -> SubscriptionRow]
  BY RowFacts
<1>2. CASE Approve(i)
  <2> DEFINE k == Max(PendingFor(i))
             plan == subscription[k].plan
  <2>1. k \in Rows
    BY <1>2, NewestPending DEF Approve, PendingFor
  <2>2. plan \in Plans /\ now \in Nat
    BY <1>1, <2>1 DEF SubscriptionRow, TypeOK
  <2>3. now + Duration[plan] \in Nat
    BY <2>2, SubscriptionConstants
  <2>4. payment' \in [Rows -> PaymentRow]
    BY <1>1, <1>2 DEF Approve, PaymentRow
  <2>5. subscription' = [subscription EXCEPT ![k].status = "active", ![k].reminded = FALSE,
                                             ![k].ends = now + Duration[plan]]
    BY <1>2 DEF Approve
  <2> HIDE DEF k, plan
  <2>6. subscription' \in [Rows -> SubscriptionRow]
    BY <1>1, <2>1, <2>3, <2>5 DEF SubscriptionRow
  <2> QED
    BY <2>4, <2>6
<1>3. CASE Reject(i)
  <2>1. payment' \in [Rows -> PaymentRow]
    BY <1>1, <1>3 DEF Reject, PaymentRow
  <2>2. CASE PendingFor(i) = {}
    BY <1>1, <1>3, <2>1, <2>2 DEF Reject
  <2>3. CASE PendingFor(i) # {}
    <3>1. Max(PendingFor(i)) \in Rows
      BY <2>3, NewestPending DEF PendingFor
    <3>2. subscription' = [subscription EXCEPT ![Max(PendingFor(i))].status = "rejected"]
      BY <1>3, <2>3 DEF Reject
    <3> QED
      BY <1>1, <2>1, <3>1, <3>2 DEF SubscriptionRow
  <2> QED
    BY <2>2, <2>3
<1> QED
  BY <1>2, <1>3

\* Types of the rows, once they are known to be the same rows.
LEMMA SameRows ==
  ASSUME TypeOK,
         payment' \in [Rows -> PaymentRow], subscription' \in [Rows -> SubscriptionRow]
  PROVE  /\ Rows' = Rows
         /\ \E n \in 0 .. MaxPayments :
              payment' \in [1 .. n -> PaymentRow] /\ subscription' \in [1 .. n -> SubscriptionRow]
<1>1. Rows = 1 .. Len(payment) /\ Len(payment) \in 0 .. MaxPayments
  BY RowFacts
<1> QED
  BY <1>1 DEF Rows

\* The mark of a job when its step ends.
LEMMA JobStepRows ==
  ASSUME TypeOK, NEW j \in Jobs, NEW i \in Rows, JobStep(j, i)
  PROVE  /\ i \in job[j].todo
         /\ subscription' \in [Rows -> SubscriptionRow]
         /\ payment' = payment /\ payment \in [Rows -> PaymentRow]
         /\ job[j].marked \cup {i} \subseteq Rows
         /\ \/ /\ job[j].todo = {i}
               /\ subscription' = Marked(j, job[j].marked \cup {i})
               /\ job' = [job EXCEPT ![j] = Idle]
            \/ /\ job[j].todo # {i}
               /\ subscription' = subscription
               /\ job' = [job EXCEPT ![j] = [todo |-> job[j].todo \ {i},
                                             marked |-> job[j].marked \cup {i}]]
<1>1. i \in job[j].todo
  BY DEF JobStep, IsEarliest
<1>2. job[j].marked \cup {i} \subseteq Rows
  BY DEF TypeOK
<1>3. payment' = payment
  BY DEF JobStep
<1>4. subscription \in [Rows -> SubscriptionRow] /\ payment \in [Rows -> PaymentRow]
  BY RowFacts
<1>5. CASE job[j].todo \ {i} = {}
  <2>1. subscription' = Marked(j, job[j].marked \cup {i}) /\ job' = [job EXCEPT ![j] = Idle]
    BY <1>5 DEF JobStep
  <2>2. subscription' \in [Rows -> SubscriptionRow]
    BY <1>2, <2>1, MarkedFacts
  <2> QED
    BY <1>1, <1>2, <1>3, <1>4, <1>5, <2>1, <2>2
<1>6. CASE job[j].todo \ {i} # {}
  <2>1. subscription' = subscription
        /\ job' = [job EXCEPT ![j] = [todo |-> job[j].todo \ {i},
                                      marked |-> job[j].marked \cup {i}]]
    BY <1>6 DEF JobStep
  <2> QED
    BY <1>1, <1>2, <1>3, <1>4, <1>6, <2>1
<1> QED
  BY <1>5, <1>6

\* The type invariant is kept by every step.
LEMMA TypesKept == ASSUME TypeOK, [Next]_vars PROVE TypeOK'
<1> DEFINE RowsType ==
             \E n \in 0 .. MaxPayments :
               payment \in [1 .. n -> PaymentRow] /\ subscription \in [1 .. n -> SubscriptionRow]
           JobsType == job \in [Jobs -> [todo : SUBSET Rows, marked : SUBSET Rows]]
           Others == /\ now \in 0 .. MaxTime /\ form \in [Users -> Forms]
                     /\ stuck \in BOOLEAN /\ faults \in 0 .. MaxFaults
           Told == told \in [Ids -> [Jobs -> Nat]]
           Announcing == announcing \in SUBSET Rows
<1>1. TypeOK <=> RowsType /\ JobsType /\ Others /\ Told /\ Announcing
  BY DEF TypeOK, PaymentRow, SubscriptionRow
<1>2. TypeOK' <=> RowsType' /\ JobsType' /\ Others' /\ Told' /\ Announcing'
  BY DEF TypeOK, PaymentRow, SubscriptionRow
<1>3. RowsType /\ JobsType /\ Others /\ Told /\ Announcing
  BY <1>1
<1>4. payment \in [Rows -> PaymentRow] /\ subscription \in [Rows -> SubscriptionRow]
      /\ Rows \subseteq Ids
  BY RowFacts
<1>5. MaxFaults \in Nat /\ MaxTime \in Nat /\ NoPlan \notin Plans
  BY SubscriptionConstants
<1>6. ASSUME UNCHANGED rowVars
      PROVE  Rows' = Rows /\ RowsType'
  BY <1>3, <1>6 DEF rowVars, Rows
<1>7. NoForm \in Forms /\ \A f \in Forms : Cleared(f) \in Forms
  BY DEF NoForm, Forms, Cleared
<1>8. ASSUME NEW u \in Users, NEW f \in Forms, FormStep(u, f)
      PROVE  TypeOK'
  <2>1. form' \in [Users -> Forms]
    BY <1>3, <1>8 DEF FormStep
  <2> QED
    BY <1>2, <1>3, <1>6, <1>8, <2>1 DEF FormStep
<1>9. ASSUME NEW j \in Jobs, NEW i \in Rows
      PROVE  [told EXCEPT ![i][j] = @ + 1] \in [Ids -> [Jobs -> Nat]]
  BY <1>3, <1>4, <1>9
<1>10. [job EXCEPT !["reminder"] = Idle] \in [Jobs -> [todo : SUBSET Rows, marked : SUBSET Rows]]
       /\ [job EXCEPT !["expired"] = Idle] \in [Jobs -> [todo : SUBSET Rows, marked : SUBSET Rows]]
       /\ [j \in Jobs |-> Idle] \in [Jobs -> [todo : SUBSET Rows, marked : SUBSET Rows]]
  BY <1>3 DEF Idle
<1>11. \A j \in Jobs :
         [job EXCEPT ![j] = Idle] \in [Jobs -> [todo : SUBSET Rows, marked : SUBSET Rows]]
  BY <1>3 DEF Idle
<1>12. ASSUME NEW u \in Users, FormNext(u) PROVE TypeOK'
  <2>1. form[u] \in Forms
    BY <1>3
  <2>2. ASSUME NEW p \in Plans, ChoosePlan(u, p) PROVE TypeOK'
    <3>1. [form[u] EXCEPT !.plan = p] \in Forms
      BY <1>5, <2>1 DEF Forms
    <3> QED
      BY <1>8, <2>2, <3>1 DEF ChoosePlan
  <2>3. CASE ChooseNetwork(u)
    <3>1. [form[u] EXCEPT !.txid = TRUE] \in Forms
      BY <2>1, <2>3 DEF ChooseNetwork, Forms
    <3> QED
      BY <1>8, <2>3, <3>1 DEF ChooseNetwork
  <2>4. CASE AskOther(u)
    <3>1. [form[u] EXCEPT !.txid = FALSE] \in Forms
      BY <2>1 DEF Forms
    <3> QED
      BY <1>8, <2>4, <3>1 DEF AskOther
  <2>5. CASE Clear(u)
    BY <1>7, <1>8, <2>1, <2>5 DEF Clear
  <2>6. CASE Submit(u)
    <3> DEFINE n == Len(payment) + 1
    <3>1. /\ payment' \in [1 .. n -> PaymentRow]
          /\ subscription' \in [1 .. n -> SubscriptionRow]
          /\ Rows' = Rows \cup {n} /\ Len(payment) < MaxPayments
      BY <2>6, SubmitTypes
    <3>2. n \in 0 .. MaxPayments /\ Len(payment') = n
      BY <3>1, RowFacts, SubscriptionConstants DEF Rows
    <3>3. RowsType'
      BY <3>1, <3>2
    <3>4. Announcing'
      BY <1>3, <2>6, <3>1, <3>2 DEF Submit
    <3> QED
      BY <1>2, <1>3, <2>6, <3>1, <3>3, <3>4 DEF Submit
  <2> QED
    BY <1>12, <2>2, <2>3, <2>4, <2>5, <2>6 DEF FormNext
<1>13. ASSUME NEW i \in Rows, PaymentNext(i) PROVE TypeOK'
  <2>1. CASE Announced(i)
    <3>1. payment[i].user \in Users
      BY <1>4 DEF PaymentRow
    <3>2. form' \in [Users -> Forms]
      BY <1>3, <1>7, <2>1, <3>1 DEF Announced
    <3> QED
      BY <1>2, <1>3, <1>6, <2>1, <3>2 DEF Announced
  <2>2. CASE AnnounceFails(i)
    <3>1. faults' \in 0 .. MaxFaults
      BY <1>3, <1>5, <2>2 DEF AnnounceFails
    <3> QED
      BY <1>2, <1>3, <1>6, <2>2, <3>1 DEF AnnounceFails
  <2>3. CASE Approve(i) \/ Reject(i)
    <3>1. Rows' = Rows /\ RowsType'
      BY <2>3, DecideTypes, SameRows
    <3>2. UNCHANGED <<now, form, announcing, job, told, stuck, faults>>
      BY <2>3 DEF Approve, Reject, botVars
    <3> QED
      BY <1>2, <1>3, <3>1, <3>2
  <2> QED
    BY <1>13, <2>1, <2>2, <2>3 DEF PaymentNext
<1>14. ASSUME NEW j \in Jobs, StartJob(j) PROVE TypeOK'
  <2>1. Due(j) \subseteq Rows
    BY DEF Due, DueForReminder, DueForExpiry
  <2>2. job' \in [Jobs -> [todo : SUBSET Rows, marked : SUBSET Rows]]
    BY <1>3, <1>14, <2>1 DEF StartJob
  <2> QED
    BY <1>2, <1>3, <1>6, <1>14, <2>2 DEF StartJob
<1>15. ASSUME NEW j \in Jobs, NEW i \in Rows, JobStep(j, i) PROVE TypeOK'
  <2>1. payment' \in [Rows -> PaymentRow] /\ subscription' \in [Rows -> SubscriptionRow]
    BY <1>15, JobStepRows
  <2>2. Rows' = Rows /\ RowsType'
    BY <2>1, SameRows
  <2>3. job' \in [Jobs -> [todo : SUBSET Rows, marked : SUBSET Rows]]
    <3>1. job' = [job EXCEPT ![j] = Idle]
          \/ job' = [job EXCEPT ![j] = [todo |-> job[j].todo \ {i},
                                        marked |-> job[j].marked \cup {i}]]
      BY <1>15, JobStepRows
    <3>2. CASE job' = [job EXCEPT ![j] = Idle]
      BY <1>11, <3>2
    <3>3. CASE job' = [job EXCEPT ![j] = [todo |-> job[j].todo \ {i},
                                          marked |-> job[j].marked \cup {i}]]
      <4>1. job[j].todo \in SUBSET Rows /\ job[j].marked \in SUBSET Rows
        BY <1>3
      <4> QED
        BY <1>3, <3>3, <4>1
    <3> QED
      BY <3>1, <3>2, <3>3
  <2>4. Told'
    BY <1>9, <1>15 DEF JobStep
  <2> QED
    BY <1>2, <1>3, <1>15, <2>2, <2>3, <2>4 DEF JobStep
<1>16. ASSUME NEW j \in Jobs, NEW i \in Rows, JobBlocks(j, i) PROVE TypeOK'
  <2>1. Told'
    BY <1>9, <1>16 DEF JobBlocks
  <2> QED
    BY <1>2, <1>3, <1>6, <1>16, <2>1 DEF JobBlocks
<1>17. ASSUME NEW j \in Jobs, NEW i \in Rows, JobFails(j, i) PROVE TypeOK'
  <2>1. Told'
    <3>1. told' = told \/ told' = [told EXCEPT ![i][j] = @ + 1]
      BY <1>17 DEF JobFails
    <3>2. CASE told' = told
      BY <1>3, <3>2
    <3>3. CASE told' = [told EXCEPT ![i][j] = @ + 1]
      BY <1>9, <3>3
    <3> QED
      BY <3>1, <3>2, <3>3
  <2>2. UNCHANGED rowVars
    BY <1>17 DEF JobFails, RolledBack, rowVars
  <2>3. faults' \in 0 .. MaxFaults
    BY <1>3, <1>5, <1>17 DEF JobFails
  <2>4. JobsType'
    BY <1>6, <1>11, <1>17, <2>2 DEF JobFails
  <2> QED
    BY <1>2, <1>3, <1>6, <1>17, <2>1, <2>2, <2>3, <2>4 DEF JobFails
<1>18. CASE RestartBot
  <2>1. faults' \in 0 .. MaxFaults
    BY <1>3, <1>5, <1>18 DEF RestartBot
  <2>2. form' \in [Users -> Forms]
    BY <1>7, <1>18 DEF RestartBot
  <2>3. JobsType'
    BY <1>6, <1>10, <1>18 DEF RestartBot
  <2> QED
    BY <1>2, <1>3, <1>6, <1>18, <2>1, <2>2, <2>3 DEF RestartBot
<1>19. CASE Tick
  <2>1. now' \in 0 .. MaxTime
    BY <1>3, <1>5, <1>19 DEF Tick
  <2> QED
    BY <1>2, <1>3, <1>6, <1>19, <2>1 DEF Tick, botVars
<1>20. CASE UNCHANGED vars
  BY <1>2, <1>3, <1>6, <1>20 DEF vars, botVars
<1> QED
  BY <1>12, <1>13, <1>14, <1>15, <1>16, <1>17, <1>18, <1>19, <1>20 DEF Next, JobNext

-----------------------------------------------------------------------------
\* The jobs and their texts: each kind of step keeps the rest of the invariant.

JobsInv == JobsOnRows /\ TextsAboutStarted /\ ToldByFaults /\ TextsFollowRows

\* Numbers are numbers.
LEMMA Numbers ==
  ASSUME TypeOK
  PROVE  /\ now \in Nat /\ faults \in Nat
         /\ \A i \in Ids, j \in Jobs : told[i][j] \in Nat
         /\ \A i \in Rows : subscription[i].ends \in Nat
<1>1. subscription \in [Rows -> SubscriptionRow]
  BY RowFacts
<1> QED
  BY <1>1, SubscriptionConstants DEF TypeOK, SubscriptionRow

\* Steps of handlers and of the clock.
LEMMA QuietStep ==
  ASSUME IInv, TypeOK', UNCHANGED <<rowVars, job, told, stuck>>,
         now' >= now, faults' >= faults
  PROVE  JobsInv'
<1>1. Rows' = Rows
  BY DEF rowVars, Rows
<1>2. /\ now \in Nat /\ faults \in Nat /\ now' \in Nat /\ faults' \in Nat
      /\ \A i \in Ids, j \in Jobs : told[i][j] \in Nat
      /\ \A i \in Rows : subscription[i].ends \in Nat
  <2>1. TypeOK
    BY DEF IInv
  <2>2. now' \in 0 .. MaxTime /\ faults' \in 0 .. MaxFaults
    BY DEF TypeOK
  <2> QED
    BY <2>1, <2>2, Numbers, SubscriptionConstants
<1>3. Rows \subseteq Ids
  BY RowFacts DEF IInv
<1>4. \A i \in Rows, j \in Jobs : Started(i)' = Started(i) /\ Unmarked(i, j)' = Unmarked(i, j)
  BY <1>1 DEF Started, Unmarked, rowVars
<1>5. JobsOnRows'
  <2>1. \A j \in Jobs : job[j].todo \cup job[j].marked \subseteq Rows
    BY DEF IInv, TypeOK
  <2> QED
    BY <1>2, <1>4, <2>1 DEF IInv, JobsOnRows, rowVars
<1>6. TextsAboutStarted'
  <2>1. \A i \in Ids, j \in Jobs : told'[i][j] > 0 => i \in Rows' /\ Started(i)'
    BY <1>1, <1>4 DEF IInv, TextsAboutStarted
  <2>2. subscription' = subscription
    BY DEF rowVars
  <2>3. \A i \in Rows : Started(i)' => subscription[i].ends > 0
    BY <1>4 DEF IInv, TextsAboutStarted, Jobs
  <2>4. \A i \in Rows' : Started(i)' => subscription'[i].ends > 0
    BY <1>1, <2>2, <2>3
  <2> QED
    BY <2>1, <2>4 DEF TextsAboutStarted
<1>7. ToldByFaults'
  BY <1>1, <1>2, <1>3, <1>4 DEF IInv, ToldByFaults
<1>8. TextsFollowRows'
  BY <1>1, <1>2, <1>3 DEF IInv, TextsFollowRows, rowVars
<1> QED
  BY <1>5, <1>6, <1>7, <1>8 DEF JobsInv

\* The decision of a payment touches at most a pending row.
LEMMA DecideFacts ==
  ASSUME TypeOK, NEW i \in Rows, Approve(i) \/ Reject(i), NEW r \in Rows
  PROVE  \/ subscription'[r] = subscription[r]
         \/ /\ subscription[r].status = "pending"
            /\ subscription'[r].status = "active"
            /\ subscription'[r].ends > 0
            /\ ~ subscription'[r].reminded
         \/ /\ subscription[r].status = "pending"
            /\ subscription'[r].status = "rejected"
            /\ subscription'[r].reminded = subscription[r].reminded
<1>1. subscription \in [Rows -> SubscriptionRow]
  BY RowFacts
<1> DEFINE k == Max(PendingFor(i))
           plan == subscription[k].plan
<1>2. ASSUME PendingFor(i) # {}
      PROVE  k \in Rows /\ subscription[k].status = "pending"
  BY <1>2, NewestPending DEF PendingFor
<1>3. CASE Approve(i)
  <2>1. k \in Rows /\ subscription[k].status = "pending"
    BY <1>2, <1>3 DEF Approve
  <2>2. subscription' = [subscription EXCEPT ![k].status = "active", ![k].reminded = FALSE,
                                             ![k].ends = now + Duration[plan]]
    BY <1>3 DEF Approve
  <2>3. plan \in Plans
    BY <1>1, <2>1 DEF SubscriptionRow
  <2>4. now + Duration[plan] > 0
    BY <2>3, Numbers, SubscriptionConstants
  <2> HIDE DEF k, plan
  <2> QED
    BY <1>1, <2>1, <2>2, <2>4 DEF SubscriptionRow
<1>4. CASE Reject(i)
  <2>1. CASE PendingFor(i) = {}
    BY <1>4, <2>1 DEF Reject
  <2>2. CASE PendingFor(i) # {}
    <3>1. k \in Rows /\ subscription[k].status = "pending"
      BY <1>2, <2>2
    <3>2. subscription' = [subscription EXCEPT ![k].status = "rejected"]
      BY <1>4, <2>2 DEF Reject
    <3> HIDE DEF k
    <3> QED
      BY <1>1, <3>1, <3>2 DEF SubscriptionRow
  <2> QED
    BY <2>1, <2>2
<1> QED
  BY <1>3, <1>4

\* A pending row was never told of, nor marked.
LEMMA PendingIsUntold ==
  ASSUME IInv, NEW r \in Rows, ~ Started(r)
  PROVE  /\ \A j \in Jobs : told[r][j] = 0 /\ r \notin job[j].todo \cup job[j].marked
         /\ ~ subscription[r].reminded
<1>1. r \in Ids
  BY RowFacts DEF IInv
<1>2. \A j \in Jobs : told[r][j] = 0
  BY <1>1, Numbers DEF IInv, TextsAboutStarted
<1>3. \A j \in Jobs : r \notin job[j].todo \cup job[j].marked
  BY DEF IInv, JobsOnRows
<1>4. ~ subscription[r].reminded
  <2>1. "reminder" \in Jobs
    BY DEF Jobs
  <2> QED
    BY <1>2, <2>1 DEF IInv, TextsFollowRows
<1> QED
  BY <1>2, <1>3, <1>4

LEMMA DecideStep ==
  ASSUME IInv, TypeOK', NEW d \in Rows, Approve(d) \/ Reject(d)
  PROVE  JobsInv'
<1>1. UNCHANGED <<now, job, told, stuck, faults>>
  BY DEF Approve, Reject, botVars
<1>2. Rows' = Rows /\ Rows \subseteq Ids
  BY DecideTypes, SameRows, RowFacts DEF IInv
<1>3. ASSUME NEW r \in Rows
      PROVE  \/ subscription'[r] = subscription[r]
             \/ /\ ~ Started(r)
                /\ ~ subscription'[r].reminded
                /\ subscription'[r].status \in {"active", "rejected"}
                /\ subscription'[r].status = "active" => subscription'[r].ends > 0
  <2>1. CASE Started(r)
    BY <2>1, DecideFacts DEF IInv, Started
  <2>2. CASE ~ Started(r)
    BY <2>2, DecideFacts, PendingIsUntold DEF IInv
  <2> QED
    BY <2>1, <2>2
<1>4. \A r \in Rows : Started(r) => subscription'[r] = subscription[r]
  BY <1>3
<1>5. \A r \in Rows : ~ Started(r) => \A j \in Jobs : told[r][j] = 0
  BY PendingIsUntold
<1>6. faults \in Nat /\ \A i \in Ids, j \in Jobs : told[i][j] \in Nat
  BY Numbers DEF IInv
<1>7. \A j \in Jobs : job[j].todo \cup job[j].marked \subseteq Rows
  BY DEF IInv, TypeOK
<1>8. JobsOnRows'
  BY <1>1, <1>4, <1>7 DEF IInv, JobsOnRows, Started, Unmarked
<1>9. TextsAboutStarted'
  <2>1. \A i \in Ids, j \in Jobs : told'[i][j] > 0 => i \in Rows' /\ Started(i)'
    BY <1>1, <1>2, <1>4 DEF IInv, TextsAboutStarted, Started
  <2>2. \A i \in Rows' : Started(i)' => subscription'[i].ends > 0
    BY <1>2, <1>3 DEF IInv, TextsAboutStarted, Started
  <2> QED
    BY <2>1, <2>2 DEF TextsAboutStarted
<1>10. ToldByFaults'
  <2> SUFFICES ASSUME ~ stuck, NEW r \in Rows, NEW j \in Jobs,
                      Unmarked(r, j)', r \notin job[j].marked
               PROVE  told[r][j] <= faults
    BY <1>1, <1>2 DEF ToldByFaults
  <2>1. CASE Started(r)
    <3>1. Unmarked(r, j)
      BY <1>4, <2>1 DEF Unmarked
    <3> QED
      BY <3>1 DEF IInv, ToldByFaults
  <2>2. CASE ~ Started(r)
    BY <1>5, <1>6, <2>2
  <2> QED
    BY <2>1, <2>2
<1>11. TextsFollowRows'
  <2> SUFFICES ASSUME NEW r \in Rows
               PROVE  /\ subscription'[r].status = "expired" => told[r]["expired"] > 0
                      /\ told[r]["expired"] > 0 =>
                           subscription'[r].ends <= now /\ subscription'[r].ends > 0
                      /\ subscription'[r].reminded => told[r]["reminder"] > 0
                      /\ \A j \in Jobs : told[r][j] <= 1 + faults
    BY <1>1, <1>2 DEF TextsFollowRows
  <2>1. CASE subscription'[r] = subscription[r]
    BY <2>1 DEF IInv, TextsFollowRows
  <2>2. CASE subscription'[r] # subscription[r]
    <3>1. "expired" \in Jobs
      BY DEF Jobs
    <3> QED
      BY <1>3, <1>5, <1>6, <2>2, <3>1
  <2> QED
    BY <2>1, <2>2
<1> QED
  BY <1>8, <1>9, <1>10, <1>11 DEF JobsInv

LEMMA SubmitStep ==
  ASSUME IInv, TypeOK', NEW u \in Users, Submit(u)
  PROVE  JobsInv'
<1> DEFINE n == Len(payment) + 1
<1>1. UNCHANGED <<now, job, told, stuck, faults>>
  BY DEF Submit
<1>2. /\ Rows' = Rows \cup {n} /\ n \notin Rows /\ n \in Ids /\ Rows \subseteq Ids
      /\ \A r \in Rows : subscription'[r] = subscription[r]
      /\ subscription'[n].status = "pending" /\ ~ subscription'[n].reminded
  <2>1. TypeOK
    BY DEF IInv
  <2>2. Rows = 1 .. Len(payment) /\ Len(payment) \in Nat /\ Rows \subseteq Ids
    BY <2>1, RowFacts
  <2>3. n \notin Rows
    BY <2>2
  <2>4. /\ Len(payment) < MaxPayments
        /\ Rows' = Rows \cup {n}
        /\ \A i \in Rows : subscription'[i] = subscription[i]
    BY <2>1, SubmitTypes
  <2>5. n \in Ids
    BY <2>2, <2>4, SubscriptionConstants DEF Ids
  <2>6. subscription'[n] = [user |-> u, plan |-> form[u].plan, status |-> "pending",
                            ends |-> 0, reminded |-> FALSE]
    BY <2>1, SubmitTypes
  <2> QED
    BY <2>2, <2>3, <2>4, <2>5, <2>6
<1> HIDE DEF n
<1>3. faults \in Nat /\ \A i \in Ids, j \in Jobs : told[i][j] \in Nat
  BY Numbers DEF IInv
<1>4. \A j \in Jobs : told[n][j] = 0
  BY <1>2, <1>3 DEF IInv, TextsAboutStarted
<1>5. \A j \in Jobs : job[j].todo \cup job[j].marked \subseteq Rows
  BY DEF IInv, TypeOK
<1>6. JobsOnRows'
  BY <1>1, <1>2, <1>5 DEF IInv, JobsOnRows, Started, Unmarked
<1>7. TextsAboutStarted'
  BY <1>1, <1>2 DEF IInv, TextsAboutStarted, Started
<1>8. ToldByFaults'
  BY <1>1, <1>2, <1>3, <1>4 DEF IInv, ToldByFaults, Unmarked
<1>9. TextsFollowRows'
  <2>1. "expired" \in Jobs
    BY DEF Jobs
  <2> QED
    BY <1>1, <1>2, <1>3, <1>4, <2>1 DEF IInv, TextsFollowRows
<1> QED
  BY <1>6, <1>7, <1>8, <1>9 DEF JobsInv

LEMMA StartStep ==
  ASSUME IInv, TypeOK', NEW q \in Jobs, StartJob(q)
  PROVE  JobsInv'
<1>1. UNCHANGED <<now, payment, subscription, told, stuck, faults>> /\ Rows' = Rows
  BY DEF StartJob, rowVars, Rows
<1>2. job' = [job EXCEPT ![q].todo = Due(q)] /\ job[q] = Idle
  BY DEF StartJob
<1>3. job \in [Jobs -> [todo : SUBSET Rows, marked : SUBSET Rows]]
  BY DEF IInv, TypeOK
<1>4. /\ \A j \in Jobs : job'[j].marked = job[j].marked
      /\ \A j \in Jobs \ {q} : job'[j].todo = job[j].todo
      /\ job'[q].todo = Due(q) /\ job'[q].marked = {}
  BY <1>2, <1>3 DEF Idle
<1>5. ASSUME NEW r \in Due(q)
      PROVE  Started(r) /\ Unmarked(r, q) /\ (q = "expired" => subscription[r].ends <= now)
  BY DEF Due, DueForReminder, DueForExpiry, Active, Started, Unmarked, Jobs
<1>6. \A r \in Rows, j \in Jobs : Started(r)' = Started(r) /\ Unmarked(r, j)' = Unmarked(r, j)
  BY <1>1 DEF Started, Unmarked
<1>7. Due(q) \subseteq Rows
  BY DEF Due, DueForReminder, DueForExpiry
<1>8. JobsOnRows'
  <2> SUFFICES ASSUME NEW j \in Jobs
               PROVE  /\ \A i \in job'[j].todo \cup job'[j].marked :
                           /\ Started(i)' /\ Unmarked(i, j)'
                           /\ j = "expired" => subscription[i].ends <= now
                      /\ \A i \in job'[j].marked : i \notin job'[j].todo /\ told[i][j] > 0
    BY <1>1 DEF JobsOnRows
  <2>1. CASE j = q
    BY <1>4, <1>5, <1>6, <1>7, <2>1
  <2>2. CASE j # q
    <3>1. job'[j].todo = job[j].todo /\ job'[j].marked = job[j].marked
      BY <1>4, <2>2
    <3>2. job[j].todo \cup job[j].marked \subseteq Rows
      BY <1>3
    <3> QED
      BY <1>6, <3>1, <3>2 DEF IInv, JobsOnRows
  <2> QED
    BY <2>1, <2>2
<1>9. TextsAboutStarted'
  BY <1>1 DEF IInv, TextsAboutStarted, Started
<1>10. ToldByFaults'
  BY <1>1, <1>4, <1>6 DEF IInv, ToldByFaults
<1>11. TextsFollowRows'
  BY <1>1 DEF IInv, TextsFollowRows
<1> QED
  BY <1>8, <1>9, <1>10, <1>11 DEF JobsInv

\* One more text.
LEMMA OneMoreText ==
  ASSUME TypeOK, NEW i \in Rows, NEW j \in Jobs,
         told' = [told EXCEPT ![i][j] = @ + 1]
  PROVE  \A r \in Ids, q \in Jobs :
           told'[r][q] = IF r = i /\ q = j THEN told[r][q] + 1 ELSE told[r][q]
<1>1. i \in Ids /\ told \in [Ids -> [Jobs -> Nat]]
  BY RowFacts DEF TypeOK
<1> QED
  BY <1>1

\* What the texts tell of does not change when a job tells one of its rows.
LEMMA ToldRows ==
  ASSUME IInv, NEW i \in Rows, NEW j \in Jobs, i \in job[j].todo, ~ stuck,
         told' = [told EXCEPT ![i][j] = @ + 1]
  PROVE  /\ Started(i) /\ Unmarked(i, j) /\ i \notin job[j].marked
         /\ j = "expired" => subscription[i].ends <= now
         /\ told[i][j] <= faults /\ told'[i][j] > 0 /\ told'[i][j] <= 1 + faults
         /\ \A r \in Ids, q \in Jobs :
              /\ told[r][q] \in Nat /\ told'[r][q] \in Nat /\ told[r][q] <= told'[r][q]
              /\ ~ (r = i /\ q = j) => told'[r][q] = told[r][q]
<1>1. Started(i) /\ Unmarked(i, j) /\ i \notin job[j].marked
      /\ (j = "expired" => subscription[i].ends <= now)
  BY DEF IInv, JobsOnRows
<1>2. told[i][j] <= faults
  BY <1>1 DEF IInv, ToldByFaults
<1>3. i \in Ids /\ faults \in Nat /\ \A r \in Ids, q \in Jobs : told[r][q] \in Nat
  BY RowFacts, Numbers DEF IInv
<1>4. \A r \in Ids, q \in Jobs :
        told'[r][q] = IF r = i /\ q = j THEN told[r][q] + 1 ELSE told[r][q]
  BY OneMoreText DEF IInv
<1> QED
  BY <1>1, <1>2, <1>3, <1>4

\* With one more text of a row a job works on, what the rows promise holds.
LEMMA TextsAfterTelling ==
  ASSUME IInv, NEW i \in Rows, NEW j \in Jobs, i \in job[j].todo, ~ stuck,
         told' = [told EXCEPT ![i][j] = @ + 1],
         Rows' = Rows, now' = now, subscription' = subscription, faults' \in {faults, faults + 1}
  PROVE  TextsAboutStarted' /\ TextsFollowRows'
<1>1. /\ Started(i) /\ (j = "expired" => subscription[i].ends <= now)
      /\ told'[i][j] <= 1 + faults
      /\ \A r \in Ids, q \in Jobs :
           /\ told[r][q] \in Nat /\ told'[r][q] \in Nat /\ told[r][q] <= told'[r][q]
           /\ ~ (r = i /\ q = j) => told'[r][q] = told[r][q]
  BY ToldRows
<1>2. Rows \subseteq Ids /\ faults \in Nat /\ "expired" \in Jobs /\ "reminder" \in Jobs
  BY RowFacts, Numbers DEF IInv, Jobs
<1>3. \A r \in Rows : Started(r)' = Started(r)
  BY DEF Started
<1>4. TextsAboutStarted'
  <2>1. \A r \in Ids, q \in Jobs : told'[r][q] > 0 => r \in Rows /\ Started(r)
    BY <1>1 DEF IInv, TextsAboutStarted
  <2>2. \A r \in Rows : Started(r) => subscription[r].ends > 0
    BY DEF IInv, TextsAboutStarted
  <2> QED
    BY <1>3, <2>1, <2>2 DEF TextsAboutStarted
<1>5. TextsFollowRows'
  <2> SUFFICES ASSUME NEW r \in Rows
               PROVE  /\ subscription[r].status = "expired" => told'[r]["expired"] > 0
                      /\ told'[r]["expired"] > 0 =>
                           subscription[r].ends <= now /\ subscription[r].ends > 0
                      /\ subscription[r].reminded => told'[r]["reminder"] > 0
                      /\ \A q \in Jobs : told'[r][q] <= 1 + faults'
    BY DEF TextsFollowRows
  <2>1. /\ subscription[r].status = "expired" => told[r]["expired"] > 0
        /\ told[r]["expired"] > 0 => subscription[r].ends <= now /\ subscription[r].ends > 0
        /\ subscription[r].reminded => told[r]["reminder"] > 0
        /\ \A q \in Jobs : told[r][q] <= 1 + faults
    BY DEF IInv, TextsFollowRows
  <2>2. Started(r) => subscription[r].ends > 0
    BY DEF IInv, TextsAboutStarted
  <2>3. r \in Ids /\ told[r]["expired"] \in Nat /\ told'[r]["expired"] \in Nat
        /\ told[r]["reminder"] \in Nat /\ told'[r]["reminder"] \in Nat
        /\ told[r]["expired"] <= told'[r]["expired"]
        /\ told[r]["reminder"] <= told'[r]["reminder"]
    BY <1>1, <1>2
  <2>4. told'[r]["expired"] > 0 => subscription[r].ends <= now /\ subscription[r].ends > 0
    <3>1. CASE r = i /\ "expired" = j
      BY <1>1, <2>2, <3>1
    <3>2. CASE ~ (r = i /\ "expired" = j)
      <4>1. told'[r]["expired"] = told[r]["expired"]
        BY <1>1, <1>2, <2>3, <3>2
      <4> QED
        BY <2>1, <4>1
    <3> QED
      BY <3>1, <3>2
  <2>5. \A q \in Jobs : told'[r][q] <= 1 + faults'
    <3> SUFFICES ASSUME NEW q \in Jobs PROVE told'[r][q] <= 1 + faults
      BY <1>1, <1>2, <2>3
    <3>1. CASE r = i /\ q = j
      BY <1>1, <3>1
    <3>2. CASE ~ (r = i /\ q = j)
      BY <1>1, <2>1, <2>3, <3>2
    <3> QED
      BY <3>1, <3>2
  <2> QED
    BY <2>1, <2>3, <2>4, <2>5
<1> QED
  BY <1>4, <1>5

LEMMA BlockStep ==
  ASSUME IInv, TypeOK', NEW j \in Jobs, NEW i \in Rows, JobBlocks(j, i)
  PROVE  JobsInv'
<1>1. /\ UNCHANGED <<now, job, faults>> /\ subscription' = subscription
      /\ Rows' = Rows /\ stuck' = TRUE /\ ~ stuck
      /\ told' = [told EXCEPT ![i][j] = @ + 1]
      /\ i \in job[j].todo
  BY DEF JobBlocks, rowVars, Rows, IsEarliest
<1>2. TextsAboutStarted' /\ TextsFollowRows'
  BY <1>1, TextsAfterTelling
<1>3. ToldByFaults'
  BY <1>1 DEF ToldByFaults
<1>4. JobsOnRows'
  <2>1. \A r \in Ids, q \in Jobs :
          told[r][q] \in Nat /\ told'[r][q] \in Nat /\ told[r][q] <= told'[r][q]
    BY <1>1, ToldRows
  <2>2. \A q \in Jobs : job[q].todo \cup job[q].marked \subseteq Rows
    BY DEF IInv, TypeOK
  <2>3. Rows \subseteq Ids
    BY RowFacts DEF IInv
  <2>4. \A r \in Rows, q \in Jobs :
          Started(r)' = Started(r) /\ Unmarked(r, q)' = Unmarked(r, q)
    BY <1>1 DEF Started, Unmarked
  <2>5. \A q \in Jobs, r \in Rows : told[r][q] > 0 => told'[r][q] > 0
    BY <2>1, <2>3
  <2> QED
    BY <1>1, <2>2, <2>4, <2>5 DEF IInv, JobsOnRows
<1> QED
  BY <1>2, <1>3, <1>4 DEF JobsInv

\* A job that is idle again, after a failure.
LEMMA FailStep ==
  ASSUME IInv, TypeOK', NEW j \in Jobs, NEW i \in Rows, JobFails(j, i)
  PROVE  JobsInv'
<1>1. /\ now' = now /\ subscription' = subscription /\ stuck' = stuck
      /\ Rows' = Rows /\ ~ stuck /\ faults' = faults + 1
      /\ job' = [job EXCEPT ![j] = Idle] /\ i \in job[j].todo
      /\ told' = told \/ told' = [told EXCEPT ![i][j] = @ + 1]
  BY DEF JobFails, RolledBack, Rows, IsEarliest
<1>2. Rows \subseteq Ids /\ faults \in Nat /\ \A r \in Ids, q \in Jobs : told[r][q] \in Nat
  BY RowFacts, Numbers DEF IInv
<1>3. TextsAboutStarted' /\ TextsFollowRows'
  <2>1. CASE told' = told
    <3>1. TextsAboutStarted'
      BY <1>1, <2>1 DEF IInv, TextsAboutStarted, Started
    <3>2. TextsFollowRows'
      BY <1>1, <1>2, <2>1 DEF IInv, TextsFollowRows
    <3> QED
      BY <3>1, <3>2
  <2>2. CASE told' = [told EXCEPT ![i][j] = @ + 1]
    BY <1>1, <2>2, TextsAfterTelling
  <2> QED
    BY <1>1, <2>1, <2>2
<1>4. ToldByFaults'
  <2>1. TextsFollowRows
    BY DEF IInv
  <2>2. \A r \in Rows, q \in Jobs : told'[r][q] <= 1 + faults
    <3> SUFFICES ASSUME NEW r \in Rows, NEW q \in Jobs PROVE told'[r][q] <= 1 + faults
      OBVIOUS
    <3>1. r \in Ids /\ told[r][q] \in Nat /\ told[r][q] <= 1 + faults
      BY <1>2, <2>1 DEF TextsFollowRows
    <3>2. CASE told' = [told EXCEPT ![i][j] = @ + 1]
      <4>1. \A x \in Ids, y \in Jobs : ~ (x = i /\ y = j) => told'[x][y] = told[x][y]
        BY <1>1, <3>2, OneMoreText DEF IInv
      <4>2. CASE r = i /\ q = j
        <5>1. told'[i][j] <= 1 + faults
          BY <1>1, <3>2, ToldRows
        <5> QED
          BY <4>2, <5>1
      <4>3. CASE ~ (r = i /\ q = j)
        BY <3>1, <4>1, <4>3
      <4> QED
        BY <4>2, <4>3
    <3> QED
      BY <1>1, <3>1, <3>2
  <2> QED
    BY <1>1, <1>2, <2>2 DEF ToldByFaults
<1>5. JobsOnRows'
  <2>1. job \in [Jobs -> [todo : SUBSET Rows, marked : SUBSET Rows]]
    BY DEF IInv, TypeOK
  <2>2. \A r \in Ids, q \in Jobs : q # j => told'[r][q] = told[r][q]
    BY <1>1, ToldRows
  <2>3. \A r \in Rows, q \in Jobs :
          Started(r)' = Started(r) /\ Unmarked(r, q)' = Unmarked(r, q)
    BY <1>1 DEF Started, Unmarked
  <2>4. job'[j] = Idle /\ \A q \in Jobs : q # j => job'[q] = job[q]
    BY <1>1, <2>1
  <2> SUFFICES ASSUME NEW q \in Jobs
               PROVE  /\ \A r \in job'[q].todo \cup job'[q].marked :
                           /\ Started(r)' /\ Unmarked(r, q)'
                           /\ q = "expired" => subscription[r].ends <= now
                      /\ \A r \in job'[q].marked : r \notin job'[q].todo /\ told'[r][q] > 0
    BY <1>1 DEF JobsOnRows
  <2>5. CASE q = j
    BY <2>4, <2>5 DEF Idle
  <2>6. CASE q # j
    <3>1. job[q].todo \cup job[q].marked \subseteq Rows
      BY <2>1
    <3> QED
      BY <1>2, <2>2, <2>3, <2>4, <2>6, <3>1 DEF IInv, JobsOnRows
  <2> QED
    BY <2>5, <2>6
<1> QED
  BY <1>3, <1>4, <1>5 DEF JobsInv

LEMMA RestartStep ==
  ASSUME IInv, TypeOK', RestartBot
  PROVE  JobsInv'
<1>1. /\ UNCHANGED <<now, told, subscription>> /\ Rows' = Rows
      /\ faults' = faults + 1 /\ job' = [j \in Jobs |-> Idle]
  BY DEF RestartBot, rowVars, Rows
<1>2. Rows \subseteq Ids /\ faults \in Nat /\ \A r \in Ids, q \in Jobs : told[r][q] \in Nat
  BY RowFacts, Numbers DEF IInv
<1>3. JobsOnRows'
  BY <1>1 DEF JobsOnRows, Idle
<1>4. TextsAboutStarted'
  BY <1>1 DEF IInv, TextsAboutStarted, Started
<1>5. \A r \in Rows, q \in Jobs : told[r][q] <= 1 + faults
  BY DEF IInv, TextsFollowRows
<1>6. ToldByFaults'
  BY <1>1, <1>2, <1>5 DEF ToldByFaults
<1>7. TextsFollowRows'
  BY <1>1, <1>2 DEF IInv, TextsFollowRows
<1> QED
  BY <1>3, <1>4, <1>6, <1>7 DEF JobsInv

\* A job goes on, or ends and commits its marks.
LEMMA JobStepStep ==
  ASSUME IInv, TypeOK', NEW j \in Jobs, NEW i \in Rows, JobStep(j, i)
  PROVE  JobsInv'
<1> DEFINE done == job[j].marked \cup {i}
<1>1. /\ now' = now /\ faults' = faults /\ stuck' = stuck /\ ~ stuck
      /\ told' = [told EXCEPT ![i][j] = @ + 1]
      /\ i \in job[j].todo
  BY DEF JobStep, IsEarliest
<1>2. TypeOK
  BY DEF IInv
<1>3. /\ job \in [Jobs -> [todo : SUBSET Rows, marked : SUBSET Rows]]
      /\ Rows \subseteq Ids /\ faults \in Nat /\ "expired" \in Jobs /\ "reminder" \in Jobs
      /\ \A q \in Jobs : q = "reminder" \/ q = "expired"
  BY <1>2, RowFacts, Numbers DEF TypeOK, Jobs
<1>4. Rows' = Rows
  BY <1>2, JobStepRows, SameRows
<1>5. /\ Started(i) /\ Unmarked(i, j) /\ i \notin job[j].marked
      /\ j = "expired" => subscription[i].ends <= now
      /\ told[i][j] <= faults /\ told'[i][j] > 0 /\ told'[i][j] <= 1 + faults
      /\ \A r \in Ids, q \in Jobs :
           /\ told[r][q] \in Nat /\ told'[r][q] \in Nat /\ told[r][q] <= told'[r][q]
           /\ ~ (r = i /\ q = j) => told'[r][q] = told[r][q]
  BY <1>1, ToldRows
<1>6. \A r \in done : r \in Rows /\ Started(r) /\ Unmarked(r, j) /\ told'[r][j] > 0
        /\ (j = "expired" => subscription[r].ends <= now)
  BY <1>3, <1>5 DEF IInv, JobsOnRows
<1>7. /\ \/ /\ job[j].todo = {i}
            /\ subscription' = Marked(j, done)
            /\ job' = [job EXCEPT ![j] = Idle]
         \/ /\ job[j].todo # {i}
            /\ subscription' = subscription
            /\ job' = [job EXCEPT ![j] = [todo |-> job[j].todo \ {i}, marked |-> done]]
  BY <1>2, JobStepRows
<1> HIDE DEF done
<1>8. ASSUME NEW r \in Rows
      PROVE  /\ subscription'[r].ends = subscription[r].ends
             /\ Started(r)' = Started(r)
             /\ j # "reminder" \/ r \notin done =>
                  subscription'[r].reminded = subscription[r].reminded
             /\ j # "expired" \/ r \notin done =>
                  subscription'[r].status = subscription[r].status
  <2>1. CASE subscription' = subscription
    BY <2>1 DEF Started
  <2>2. CASE subscription' = Marked(j, done)
    <3>1. done \subseteq Rows
      BY <1>6
    <3>2. /\ r \notin done => Marked(j, done)[r] = subscription[r]
          /\ Marked(j, done)[r].ends = subscription[r].ends
          /\ j = "reminder" => Marked(j, done)[r].status = subscription[r].status
          /\ j = "expired" => Marked(j, done)[r].reminded = subscription[r].reminded
          /\ j = "expired" /\ r \in done => Marked(j, done)[r].status = "expired"
      BY <1>2, <3>1, MarkedFacts
    <3> QED
      BY <1>3, <1>6, <2>2, <3>2 DEF Started
  <2> QED
    BY <1>7, <2>1, <2>2
<1>9. \A r \in Rows, q \in Jobs :
        q # j \/ r \notin done => Unmarked(r, q)' = Unmarked(r, q)
  BY <1>3, <1>8 DEF Unmarked
<1>10. JobsOnRows'
  <2> SUFFICES ASSUME NEW q \in Jobs
               PROVE  /\ \A r \in job'[q].todo \cup job'[q].marked :
                           /\ Started(r)' /\ Unmarked(r, q)'
                           /\ q = "expired" => subscription'[r].ends <= now
                      /\ \A r \in job'[q].marked : r \notin job'[q].todo /\ told'[r][q] > 0
    BY <1>1 DEF JobsOnRows
  <2>1. CASE q # j
    <3>1. job'[q] = job[q] /\ job[q].todo \cup job[q].marked \subseteq Rows
      BY <1>3, <1>7, <2>1
    <3>2. \A r \in job[q].marked : told'[r][q] > 0
      BY <1>3, <1>5, <2>1, <3>1 DEF IInv, JobsOnRows
    <3> QED
      BY <1>8, <1>9, <2>1, <3>1, <3>2 DEF IInv, JobsOnRows
  <2>2. CASE q = j /\ job' = [job EXCEPT ![j] = Idle]
    BY <1>3, <2>2 DEF Idle
  <2>3. CASE q = j /\ subscription' = subscription
             /\ job' = [job EXCEPT ![j] = [todo |-> job[j].todo \ {i}, marked |-> done]]
    <3>1. job'[q].todo = job[j].todo \ {i} /\ job'[q].marked = done
      BY <1>3, <2>3
    <3>2. \A r \in job[j].todo : r \in Rows /\ Started(r) /\ Unmarked(r, j)
            /\ (j = "expired" => subscription[r].ends <= now)
      BY <1>3 DEF IInv, JobsOnRows
    <3>3. \A r \in Rows : Started(r)' = Started(r) /\ Unmarked(r, j)' = Unmarked(r, j)
      BY <2>3 DEF Started, Unmarked
    <3>4. \A r \in done : r \notin job[j].todo \ {i}
      BY DEF done, IInv, JobsOnRows
    <3> QED
      BY <1>6, <2>3, <3>1, <3>2, <3>3, <3>4
  <2> QED
    BY <1>7, <2>1, <2>2, <2>3
<1>11. TextsAboutStarted'
  <2>1. \A r \in Ids, q \in Jobs : told'[r][q] > 0 => r \in Rows /\ Started(r)
    BY <1>5 DEF IInv, TextsAboutStarted
  <2>2. \A r \in Rows : Started(r) => subscription[r].ends > 0
    BY <1>3 DEF IInv, TextsAboutStarted
  <2> QED
    BY <1>4, <1>8, <2>1, <2>2 DEF TextsAboutStarted
<1>12. ToldByFaults'
  <2> SUFFICES ASSUME NEW r \in Rows, NEW q \in Jobs,
                      Unmarked(r, q)', r \notin job'[q].marked
               PROVE  told'[r][q] <= faults
    BY <1>1, <1>4 DEF ToldByFaults
  <2>1. r \in Ids
    BY <1>3
  <2>2. CASE q # j
    <3>1. job'[q] = job[q]
      BY <1>3, <1>7, <2>2
    <3>2. Unmarked(r, q) /\ told'[r][q] = told[r][q]
      BY <1>5, <1>9, <2>1, <2>2
    <3> QED
      BY <1>1, <3>1, <3>2 DEF IInv, ToldByFaults
  <2>3. CASE q = j
    <3>1. r \notin done
      <4>1. CASE job' = [job EXCEPT ![j] = [todo |-> job[j].todo \ {i}, marked |-> done]]
        BY <1>3, <2>3, <4>1
      <4>2. CASE subscription' = Marked(j, done)
        <5>1. done \subseteq Rows
          BY <1>6
        <5>2. r \in done => ~ Unmarked(r, j)'
          BY <1>2, <1>3, <4>2, <5>1, MarkedFacts DEF Unmarked
        <5> QED
          BY <2>3, <5>2
      <4> QED
        BY <1>7, <4>1, <4>2
    <3>2. Unmarked(r, q) /\ r \notin job[j].marked /\ r # i
      BY <1>9, <3>1 DEF done
    <3>3. told'[r][q] = told[r][q]
      BY <1>5, <2>1, <3>2
    <3> QED
      BY <1>1, <2>3, <3>2, <3>3 DEF IInv, ToldByFaults
  <2> QED
    BY <2>2, <2>3
<1>13. TextsFollowRows'
  <2> SUFFICES ASSUME NEW r \in Rows
               PROVE  /\ subscription'[r].status = "expired" => told'[r]["expired"] > 0
                      /\ told'[r]["expired"] > 0 =>
                           subscription'[r].ends <= now /\ subscription'[r].ends > 0
                      /\ subscription'[r].reminded => told'[r]["reminder"] > 0
                      /\ \A q \in Jobs : told'[r][q] <= 1 + faults
    BY <1>1, <1>4 DEF TextsFollowRows
  <2>1. /\ subscription[r].status = "expired" => told[r]["expired"] > 0
        /\ told[r]["expired"] > 0 => subscription[r].ends <= now /\ subscription[r].ends > 0
        /\ subscription[r].reminded => told[r]["reminder"] > 0
        /\ \A q \in Jobs : told[r][q] <= 1 + faults
    BY DEF IInv, TextsFollowRows
  <2>2. Started(r) => subscription[r].ends > 0
    BY <1>3 DEF IInv, TextsAboutStarted
  <2>3. /\ told[r]["expired"] \in Nat /\ told'[r]["expired"] \in Nat
        /\ told[r]["reminder"] \in Nat /\ told'[r]["reminder"] \in Nat
        /\ told[r]["expired"] <= told'[r]["expired"]
        /\ told[r]["reminder"] <= told'[r]["reminder"]
    BY <1>3, <1>5
  <2>4. subscription'[r].status = "expired" => told'[r]["expired"] > 0
    BY <1>3, <1>6, <1>8, <2>1, <2>3
  <2>5. subscription'[r].reminded => told'[r]["reminder"] > 0
    BY <1>3, <1>6, <1>8, <2>1, <2>3
  <2>6. told'[r]["expired"] > 0 =>
          subscription[r].ends <= now /\ subscription[r].ends > 0
    <3>1. CASE r = i /\ "expired" = j
      BY <1>5, <2>2, <3>1
    <3>2. CASE ~ (r = i /\ "expired" = j)
      <4>1. told'[r]["expired"] = told[r]["expired"]
        BY <1>3, <1>5, <3>2
      <4> QED
        BY <2>1, <4>1
    <3> QED
      BY <3>1, <3>2
  <2>7. ASSUME NEW q \in Jobs PROVE told'[r][q] <= 1 + faults
    <3>1. CASE r = i /\ q = j
      BY <1>5, <3>1
    <3>2. CASE ~ (r = i /\ q = j)
      BY <1>3, <1>5, <2>1, <3>2
    <3> QED
      BY <3>1, <3>2
  <2> QED
    BY <1>8, <2>4, <2>5, <2>6, <2>7
<1> QED
  BY <1>10, <1>11, <1>12, <1>13 DEF JobsInv

\* The invariant holds at the start and is kept by every step.
LEMMA InvInit == Init => IInv
<1> SUFFICES ASSUME Init PROVE IInv
  OBVIOUS
<1>1. TypeOK
  BY InitTypes
<1>2. Rows = {}
  BY DEF Init, Rows
<1>3. JobsOnRows
  BY DEF Init, JobsOnRows, Idle
<1>4. TextsAboutStarted
  BY <1>2 DEF Init, TextsAboutStarted
<1>5. ToldByFaults /\ TextsFollowRows
  BY <1>2 DEF ToldByFaults, TextsFollowRows
<1> QED
  BY <1>1, <1>3, <1>4, <1>5 DEF IInv

LEMMA InvKept == ASSUME IInv, [Next]_vars PROVE IInv'
<1>1. TypeOK'
  BY TypesKept DEF IInv
<1>2. now \in Nat /\ faults \in Nat
  BY Numbers DEF IInv
<1>3. ASSUME NEW u \in Users, FormNext(u) PROVE JobsInv'
  <2>1. CASE Submit(u)
    BY <1>1, <2>1, SubmitStep
  <2>2. ASSUME NEW f, FormStep(u, f) PROVE JobsInv'
    BY <1>1, <1>2, <2>2, QuietStep DEF FormStep
  <2> QED
    BY <1>3, <2>1, <2>2 DEF FormNext, ChoosePlan, ChooseNetwork, AskOther, Clear
<1>4. ASSUME NEW i \in Rows, PaymentNext(i) PROVE JobsInv'
  <2>1. CASE Announced(i)
    BY <1>1, <1>2, <2>1, QuietStep DEF Announced
  <2>2. CASE AnnounceFails(i)
    BY <1>1, <1>2, <2>2, QuietStep DEF AnnounceFails
  <2>3. CASE Approve(i) \/ Reject(i)
    BY <1>1, <2>3, DecideStep
  <2> QED
    BY <1>4, <2>1, <2>2, <2>3 DEF PaymentNext
<1>5. ASSUME NEW j \in Jobs, JobNext(j) PROVE JobsInv'
  BY <1>1, <1>5, StartStep, JobStepStep, BlockStep DEF JobNext
<1>6. ASSUME NEW j \in Jobs, NEW i \in Rows, JobFails(j, i) PROVE JobsInv'
  BY <1>1, <1>6, FailStep
<1>7. ASSUME RestartBot PROVE JobsInv'
  BY <1>1, <1>7, RestartStep
<1>8. ASSUME Tick PROVE JobsInv'
  BY <1>1, <1>2, <1>8, QuietStep DEF Tick, botVars
<1>9. ASSUME UNCHANGED vars PROVE JobsInv'
  BY <1>1, <1>2, <1>9, QuietStep DEF vars, botVars
<1>10. JobsInv'
  BY <1>3, <1>4, <1>5, <1>6, <1>7, <1>8, <1>9 DEF Next
<1> QED
  BY <1>1, <1>10 DEF IInv, JobsInv

\* The inductive invariant holds in every reachable state.
THEOREM SubscriptionInvariant == Spec => []IInv
<1> QED
  BY InvInit, InvKept, PTL DEF Spec

\* The variables keep their types, and no form that waits for a TXID is without
\* a plan, whatever handlers of the same user end in between (Forms).
THEOREM SubscriptionTypes == Spec => []TypeOK
<1>1. IInv => TypeOK
  BY DEF IInv
<1> QED
  BY <1>1, SubscriptionInvariant, PTL

\* Marks and texts of the two jobs agree through failing publications, rolled
\* back transactions and restarts (run_expiry_reminder_once and
\* run_expiry_enforcement_once).
THEOREM TextsFollow == Spec => []TextsFollowRows
<1>1. IInv => TextsFollowRows
  BY DEF IInv
<1> QED
  BY <1>1, SubscriptionInvariant, PTL

-----------------------------------------------------------------------------
\* Decisions.

DecisionStands ==
  \A i \in Rows :
    /\ payment[i].status # "submitted" => payment'[i] = payment[i]
    /\ subscription[i].status # "pending" =>
         /\ subscription'[i].ends = subscription[i].ends
         /\ subscription'[i].status \in {subscription[i].status, "expired"}

\* What a step of a job does to the rows.
LEMMA JobStepKeeps ==
  ASSUME IInv, NEW j \in Jobs, NEW i \in Rows, JobStep(j, i), NEW r \in Rows
  PROVE  /\ Rows' = Rows /\ payment' = payment
         /\ subscription'[r].user = subscription[r].user
         /\ subscription'[r].plan = subscription[r].plan
         /\ subscription'[r].ends = subscription[r].ends
         /\ \/ subscription'[r].status = subscription[r].status
            \/ Started(r) /\ subscription'[r].status = "expired"
<1>1. TypeOK
  BY DEF IInv
<1>2. Rows' = Rows /\ payment' = payment
  BY <1>1, JobStepRows, SameRows
<1> DEFINE done == job[j].marked \cup {i}
<1>3. /\ done \subseteq Rows
      /\ subscription' = subscription \/ subscription' = Marked(j, done)
  BY <1>1, JobStepRows
<1>4. \A q \in done : Started(q)
  <2>1. i \in job[j].todo
    BY <1>1, JobStepRows
  <2> QED
    BY <2>1 DEF IInv, JobsOnRows
<1> HIDE DEF done
<1>5. CASE subscription' = subscription
  BY <1>2, <1>5
<1>6. CASE subscription' = Marked(j, done)
  <2>1. /\ r \notin done => Marked(j, done)[r] = subscription[r]
        /\ Marked(j, done)[r].user = subscription[r].user
        /\ Marked(j, done)[r].plan = subscription[r].plan
        /\ Marked(j, done)[r].ends = subscription[r].ends
        /\ j = "reminder" => Marked(j, done)[r].status = subscription[r].status
        /\ j = "expired" /\ r \in done => Marked(j, done)[r].status = "expired"
    BY <1>1, <1>3, MarkedFacts
  <2>2. j = "reminder" \/ j = "expired"
    BY DEF Jobs
  <2> QED
    BY <1>2, <1>4, <1>6, <2>1, <2>2
<1> QED
  BY <1>3, <1>5, <1>6

\* Steps that neither submit nor decide a payment nor belong to a job.
LEMMA OtherSteps ==
  ASSUME [Next]_vars
  PROVE  \/ UNCHANGED <<payment, subscription>>
         \/ \E u \in Users : Submit(u)
         \/ \E i \in Rows : Approve(i) \/ Reject(i)
         \/ \E j \in Jobs : \E i \in Rows : JobStep(j, i)
<1>1. ASSUME NEW u \in Users, FormNext(u)
      PROVE  Submit(u) \/ UNCHANGED <<payment, subscription>>
  BY <1>1 DEF FormNext, ChoosePlan, ChooseNetwork, AskOther, Clear, FormStep, rowVars
<1>2. ASSUME NEW i \in Rows, PaymentNext(i)
      PROVE  Approve(i) \/ Reject(i) \/ UNCHANGED <<payment, subscription>>
  BY <1>2 DEF PaymentNext, Announced, AnnounceFails, rowVars
<1>3. ASSUME NEW j \in Jobs, JobNext(j)
      PROVE  (\E i \in Rows : JobStep(j, i)) \/ UNCHANGED <<payment, subscription>>
  BY <1>3 DEF JobNext, StartJob, JobBlocks, rowVars
<1>4. ASSUME NEW j \in Jobs, NEW i \in Rows, JobFails(j, i)
      PROVE  UNCHANGED <<payment, subscription>>
  BY <1>4 DEF JobFails, RolledBack
<1>5. RestartBot \/ Tick \/ UNCHANGED vars => UNCHANGED <<payment, subscription>>
  BY DEF RestartBot, Tick, vars, rowVars
<1> QED
  BY <1>1, <1>2, <1>3, <1>4, <1>5 DEF Next

LEMMA DecisionKept == ASSUME IInv, [Next]_vars PROVE DecisionStands
<1>1. TypeOK
  BY DEF IInv
<1>2. CASE UNCHANGED <<payment, subscription>>
  BY <1>2 DEF DecisionStands
<1>3. ASSUME NEW u \in Users, Submit(u) PROVE DecisionStands
  BY <1>1, <1>3, SubmitTypes DEF DecisionStands
<1>4. ASSUME NEW d \in Rows, Approve(d) \/ Reject(d) PROVE DecisionStands
  <2>1. payment \in [Rows -> PaymentRow]
    BY <1>1, RowFacts
  <2>2. payment[d].status = "submitted" /\ \A r \in Rows : r # d => payment'[r] = payment[r]
    BY <1>4, <2>1 DEF Approve, Reject, IsSubmitted
  <2>3. \A r \in Rows : subscription[r].status # "pending" => subscription'[r] = subscription[r]
    BY <1>1, <1>4, DecideFacts
  <2> QED
    BY <2>2, <2>3 DEF DecisionStands
<1>5. ASSUME NEW j \in Jobs, NEW i \in Rows, JobStep(j, i) PROVE DecisionStands
  BY <1>5, JobStepKeeps DEF DecisionStands
<1> QED
  BY <1>2, <1>3, <1>4, <1>5, OtherSteps

\* A decided payment stays decided, and what was started or rejected keeps its
\* days, whatever the other admins and the jobs do (approve_payment,
\* reject_payment).
THEOREM DecisionsStand == Spec => DecisionIsFinal
<1>1. IInv /\ [Next]_vars => [DecisionStands]_vars
  BY DecisionKept
<1>2. Spec => [][DecisionStands]_vars
  BY <1>1, SubscriptionInvariant, PTL DEF Spec
<1> QED
  BY <1>2, PTL DEF DecisionIsFinal, DecisionStands

-----------------------------------------------------------------------------
(* Payments and subscriptions are decided in pairs.                         *)

PaidRows(u, p, st) ==
  {i \in Rows : payment[i].user = u /\ payment[i].plan = p /\ payment[i].status = st}
SubsOf(u, p, S) ==
  {i \in Rows : /\ subscription[i].user = u
                /\ subscription[i].plan = p
                /\ subscription[i].status \in S}

InPairs(u, p) ==
  /\ Cardinality(PaidRows(u, p, "submitted")) = Cardinality(SubsOf(u, p, {"pending"}))
  /\ Cardinality(PaidRows(u, p, "approved")) = Cardinality(SubsOf(u, p, {"active", "expired"}))

AllInPairs == \A u \in Users, p \in Plans : InPairs(u, p)

\* What the property counts.
LEMMA PairsAreMatched == ASSUME TypeOK PROVE AllInPairs <=> PaymentsMatchSubscriptions
<1>1. payment \in [Rows -> PaymentRow]
  BY RowFacts
<1>2. ASSUME NEW u \in Users, NEW p \in Plans, NEW st
      PROVE  PaidRows(u, p, st)
               = {i \in Rows : payment[i] = [user |-> u, plan |-> p, status |-> st]}
  <2>1. ASSUME NEW i \in Rows
        PROVE  payment[i] = [user |-> u, plan |-> p, status |-> st]
                 <=> payment[i].user = u /\ payment[i].plan = p /\ payment[i].status = st
    BY <1>1 DEF PaymentRow
  <2> QED
    BY <2>1 DEF PaidRows
<1> DEFINE Matched(u, p) ==
             /\ Cardinality({i \in Rows :
                     payment[i] = [user |-> u, plan |-> p, status |-> "submitted"]})
                  = Cardinality(SubsOf(u, p, {"pending"}))
             /\ Cardinality({i \in Rows :
                     payment[i] = [user |-> u, plan |-> p, status |-> "approved"]})
                  = Cardinality(SubsOf(u, p, {"active", "expired"}))
<1>3. ASSUME NEW u \in Users, NEW p \in Plans PROVE InPairs(u, p) <=> Matched(u, p)
  <2>1. PaidRows(u, p, "submitted")
          = {i \in Rows : payment[i] = [user |-> u, plan |-> p, status |-> "submitted"]}
    BY <1>2
  <2>2. PaidRows(u, p, "approved")
          = {i \in Rows : payment[i] = [user |-> u, plan |-> p, status |-> "approved"]}
    BY <1>2
  <2> QED
    BY <2>1, <2>2 DEF InPairs
<1>4. PaymentsMatchSubscriptions <=> \A u \in Users, p \in Plans : Matched(u, p)
  BY Zenon DEF PaymentsMatchSubscriptions, SubsOf
<1> HIDE DEF Matched
<1> QED
  BY <1>3, <1>4 DEF AllInPairs

LEMMA FiniteRows ==
  ASSUME TypeOK, NEW S \in SUBSET Rows
  PROVE  IsFiniteSet(S) /\ Cardinality(S) \in Nat
<1>1. Rows = 1 .. Len(payment) /\ Len(payment) \in Int
  BY RowFacts
<1>2. IsFiniteSet(Rows)
  BY <1>1, FS_Interval
<1>3. IsFiniteSet(S)
  BY <1>2, FS_Subset
<1> QED
  BY <1>3, FS_CardinalityType

\* A set with one row more or less.
LEMMA OneRow ==
  ASSUME TypeOK, NEW S \in SUBSET Rows, NEW x
  PROVE  /\ x \notin S => Cardinality(S \cup {x}) = Cardinality(S) + 1
         /\ x \in S => Cardinality(S \ {x}) = Cardinality(S) - 1
  BY FiniteRows, FS_AddElement, FS_RemoveElement

LEMMA SubmitPairs ==
  ASSUME TypeOK, NEW v \in Users, Submit(v), NEW u \in Users, NEW p \in Plans, InPairs(u, p)
  PROVE  InPairs(u, p)'
<1> DEFINE n == Len(payment) + 1
<1>1. n \notin Rows
  BY RowFacts
<1>2. /\ Rows' = Rows \cup {n}
      /\ \A i \in Rows : payment'[i] = payment[i] /\ subscription'[i] = subscription[i]
      /\ payment'[n].user = v /\ payment'[n].plan = form[v].plan
      /\ payment'[n].status = "submitted"
      /\ subscription'[n].user = v /\ subscription'[n].plan = form[v].plan
      /\ subscription'[n].status = "pending"
  <2>1. /\ Rows' = Rows \cup {n}
        /\ \A i \in Rows : payment'[i] = payment[i] /\ subscription'[i] = subscription[i]
        /\ payment'[n] = [user |-> v, plan |-> form[v].plan, status |-> "submitted"]
        /\ subscription'[n] = [user |-> v, plan |-> form[v].plan, status |-> "pending",
                               ends |-> 0, reminded |-> FALSE]
    BY SubmitTypes
  <2> HIDE DEF n
  <2> QED
    BY <2>1
<1> HIDE DEF n
<1>3. /\ PaidRows(u, p, "approved")' = PaidRows(u, p, "approved")
      /\ SubsOf(u, p, {"active", "expired"})' = SubsOf(u, p, {"active", "expired"})
  BY <1>2 DEF PaidRows, SubsOf
<1>4. CASE u = v /\ p = form[v].plan
  <2>1. PaidRows(u, p, "submitted")' = PaidRows(u, p, "submitted") \cup {n}
    BY <1>2, <1>4 DEF PaidRows
  <2>2. SubsOf(u, p, {"pending"})' = SubsOf(u, p, {"pending"}) \cup {n}
    BY <1>2, <1>4 DEF SubsOf
  <2>3. PaidRows(u, p, "submitted") \subseteq Rows /\ SubsOf(u, p, {"pending"}) \subseteq Rows
    BY DEF PaidRows, SubsOf
  <2> QED
    BY <1>1, <1>3, <2>1, <2>2, <2>3, OneRow DEF InPairs
<1>5. CASE ~ (u = v /\ p = form[v].plan)
  <2>1. PaidRows(u, p, "submitted")' = PaidRows(u, p, "submitted")
    BY <1>2, <1>5 DEF PaidRows
  <2>2. SubsOf(u, p, {"pending"})' = SubsOf(u, p, {"pending"})
    BY <1>2, <1>5 DEF SubsOf
  <2> QED
    BY <1>3, <2>1, <2>2 DEF InPairs
<1> QED
  BY <1>4, <1>5

\* A submitted payment has a pending subscription of its user and plan.
LEMMA SomethingPending ==
  ASSUME TypeOK, AllInPairs, NEW d \in Rows, IsSubmitted(d)
  PROVE  PendingFor(d) # {}
<1> DEFINE u == payment[d].user
           p == payment[d].plan
<1>1. u \in Users /\ p \in Plans
  BY RowFacts DEF PaymentRow
<1>2. d \in PaidRows(u, p, "submitted") /\ PaidRows(u, p, "submitted") \in SUBSET Rows
  BY DEF PaidRows, IsSubmitted
<1>3. PendingFor(d) = SubsOf(u, p, {"pending"})
  BY DEF PendingFor, SubsOf
<1>4. Cardinality(PaidRows(u, p, "submitted")) = Cardinality(SubsOf(u, p, {"pending"}))
  BY <1>1 DEF AllInPairs, InPairs
<1>5. Cardinality(PaidRows(u, p, "submitted")) # 0
  BY <1>2, FiniteRows, FS_EmptySet
<1> HIDE DEF u, p
<1> QED
  BY <1>3, <1>4, <1>5, FS_EmptySet

\* A decision moves one payment and one subscription of the same user and plan.
LEMMA DecidePairs ==
  ASSUME TypeOK, AllInPairs, NEW d \in Rows, Approve(d) \/ Reject(d),
         NEW u \in Users, NEW p \in Plans
  PROVE  InPairs(u, p)'
<1> DEFINE k == Max(PendingFor(d))
           plan == subscription[k].plan
           st == IF Approve(d) THEN "approved" ELSE "rejected"
           ss == IF Approve(d) THEN "active" ELSE "rejected"
<1>1. IsSubmitted(d)
  BY DEF Approve, Reject
<1>2. PendingFor(d) # {}
  BY <1>1, SomethingPending
<1>3. /\ k \in Rows /\ subscription[k].status = "pending"
      /\ subscription[k].user = payment[d].user /\ subscription[k].plan = payment[d].plan
  BY <1>2, NewestPending DEF PendingFor
<1>4. payment \in [Rows -> PaymentRow] /\ subscription \in [Rows -> SubscriptionRow]
  BY RowFacts
<1>5. Rows' = Rows
  BY DecideTypes, SameRows
<1>6. /\ payment'[d].user = payment[d].user /\ payment'[d].plan = payment[d].plan
      /\ payment[d].status = "submitted"
      /\ \/ payment'[d].status = "approved" /\ subscription'[k].status = "active"
         \/ payment'[d].status = "rejected" /\ subscription'[k].status = "rejected"
      /\ subscription'[k].user = subscription[k].user
      /\ subscription'[k].plan = subscription[k].plan
      /\ \A i \in Rows : i # d => payment'[i] = payment[i]
      /\ \A i \in Rows : i # k => subscription'[i] = subscription[i]
  <2>1. CASE Approve(d)
    <3>1. /\ payment' = [payment EXCEPT ![d].status = "approved"]
          /\ subscription' = [subscription EXCEPT ![k].status = "active",
                ![k].reminded = FALSE, ![k].ends = now + Duration[plan]]
      BY <2>1 DEF Approve
    <3> HIDE DEF k, plan
    <3> QED
      BY <1>1, <1>3, <1>4, <3>1 DEF IsSubmitted, PaymentRow, SubscriptionRow
  <2>2. CASE Reject(d)
    <3>1. /\ payment' = [payment EXCEPT ![d].status = "rejected"]
          /\ subscription' = [subscription EXCEPT ![k].status = "rejected"]
      BY <1>2, <2>2 DEF Reject
    <3> HIDE DEF k, plan
    <3> QED
      BY <1>1, <1>3, <1>4, <3>1 DEF IsSubmitted, PaymentRow, SubscriptionRow
  <2> QED
    BY <2>1, <2>2
<1> HIDE DEF k, plan
<1>7. InPairs(u, p)
  BY DEF AllInPairs
<1>8. CASE u = payment[d].user /\ p = payment[d].plan
  <2>1. /\ PaidRows(u, p, "submitted") \subseteq Rows /\ d \in PaidRows(u, p, "submitted")
        /\ PaidRows(u, p, "approved") \subseteq Rows /\ d \notin PaidRows(u, p, "approved")
        /\ SubsOf(u, p, {"pending"}) \subseteq Rows /\ k \in SubsOf(u, p, {"pending"})
        /\ SubsOf(u, p, {"active", "expired"}) \subseteq Rows
        /\ k \notin SubsOf(u, p, {"active", "expired"})
    BY <1>3, <1>6, <1>8 DEF PaidRows, SubsOf
  <2>2. /\ PaidRows(u, p, "submitted")' = PaidRows(u, p, "submitted") \ {d}
        /\ SubsOf(u, p, {"pending"})' = SubsOf(u, p, {"pending"}) \ {k}
    BY <1>3, <1>5, <1>6, <1>8 DEF PaidRows, SubsOf
  <2>3. Cardinality(PaidRows(u, p, "submitted"))' = Cardinality(SubsOf(u, p, {"pending"}))'
    BY <1>7, <2>1, <2>2, OneRow DEF InPairs
  <2>4. CASE payment'[d].status = "approved"
    <3>1. PaidRows(u, p, "approved")' = PaidRows(u, p, "approved") \cup {d}
      BY <1>5, <1>6, <1>8, <2>4 DEF PaidRows
    <3>2. SubsOf(u, p, {"active", "expired"})' = SubsOf(u, p, {"active", "expired"}) \cup {k}
      BY <1>3, <1>5, <1>6, <1>8, <2>4 DEF SubsOf
    <3>3. Cardinality(PaidRows(u, p, "approved"))'
            = Cardinality(SubsOf(u, p, {"active", "expired"}))'
      BY <1>7, <2>1, <3>1, <3>2, OneRow DEF InPairs
    <3> QED
      BY <2>3, <3>3 DEF InPairs
  <2>5. CASE payment'[d].status # "approved"
    <3>1. /\ PaidRows(u, p, "approved")' = PaidRows(u, p, "approved")
          /\ SubsOf(u, p, {"active", "expired"})' = SubsOf(u, p, {"active", "expired"})
      BY <1>3, <1>5, <1>6, <2>5 DEF PaidRows, SubsOf
    <3> QED
      BY <1>7, <2>3, <3>1 DEF InPairs
  <2> QED
    BY <2>4, <2>5
<1>9. CASE ~ (u = payment[d].user /\ p = payment[d].plan)
  <2>1. /\ PaidRows(u, p, "submitted")' = PaidRows(u, p, "submitted")
        /\ PaidRows(u, p, "approved")' = PaidRows(u, p, "approved")
    BY <1>5, <1>6, <1>9 DEF PaidRows
  <2>2. /\ SubsOf(u, p, {"pending"})' = SubsOf(u, p, {"pending"})
        /\ SubsOf(u, p, {"active", "expired"})' = SubsOf(u, p, {"active", "expired"})
    BY <1>3, <1>5, <1>6, <1>9 DEF SubsOf
  <2> QED
    BY <1>7, <2>1, <2>2 DEF InPairs
<1> QED
  BY <1>8, <1>9

\* A job only moves rows between the two states of a started subscription.
LEMMA JobPairs ==
  ASSUME IInv, NEW j \in Jobs, NEW i \in Rows, JobStep(j, i),
         NEW u \in Users, NEW p \in Plans, InPairs(u, p)
  PROVE  InPairs(u, p)'
<1>1. /\ Rows' = Rows /\ payment' = payment
      /\ \A r \in Rows :
           /\ subscription'[r].user = subscription[r].user
           /\ subscription'[r].plan = subscription[r].plan
           /\ \/ subscription'[r].status = subscription[r].status
              \/ Started(r) /\ subscription'[r].status = "expired"
  BY JobStepKeeps
<1>2. /\ PaidRows(u, p, "submitted")' = PaidRows(u, p, "submitted")
      /\ PaidRows(u, p, "approved")' = PaidRows(u, p, "approved")
  BY <1>1 DEF PaidRows
<1>3. /\ SubsOf(u, p, {"pending"})' = SubsOf(u, p, {"pending"})
      /\ SubsOf(u, p, {"active", "expired"})' = SubsOf(u, p, {"active", "expired"})
  BY <1>1 DEF SubsOf, Started
<1> QED
  BY <1>2, <1>3 DEF InPairs

LEMMA PairsInit == Init => AllInPairs
<1> SUFFICES ASSUME Init PROVE AllInPairs
  OBVIOUS
<1>1. Rows = {}
  BY DEF Init, Rows
<1> QED
  BY <1>1 DEF AllInPairs, InPairs, PaidRows, SubsOf

LEMMA PairsKept == ASSUME IInv, AllInPairs, [Next]_vars PROVE AllInPairs'
<1> SUFFICES ASSUME NEW u \in Users, NEW p \in Plans PROVE InPairs(u, p)'
  BY DEF AllInPairs
<1>1. TypeOK /\ InPairs(u, p)
  BY DEF IInv, AllInPairs
<1>2. CASE UNCHANGED <<payment, subscription>>
  BY <1>1, <1>2 DEF InPairs, PaidRows, SubsOf, Rows
<1> QED
  BY <1>1, <1>2, SubmitPairs, DecidePairs, JobPairs, OtherSteps

\* Although rows are matched by user and plan, for each of them as many
\* subscriptions wait as payments and as many were started as payments were
\* approved, whatever the order of submissions, decisions and jobs
\* (approve_payment, reject_payment).
THEOREM PaymentsMatch == Spec => []PaymentsMatchSubscriptions
<1>1. Init => IInv /\ AllInPairs
  BY InvInit, PairsInit
<1>2. (IInv /\ AllInPairs) /\ [Next]_vars => (IInv /\ AllInPairs)'
  BY InvKept, PairsKept
<1>3. IInv /\ AllInPairs => PaymentsMatchSubscriptions
  BY PairsAreMatched DEF IInv
<1> QED
  BY <1>1, <1>2, <1>3, PTL DEF Spec
=============================================================================
