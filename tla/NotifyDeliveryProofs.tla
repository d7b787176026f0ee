------------------------ MODULE NotifyDeliveryProofs ------------------------
(***************************************************************************)
(* Proofs about NotifyDelivery, for every number of records and faults and *)
(* every batch size.  The argument: records are acknowledged in the order  *)
(* of the stream, because new records are read only when nothing is        *)
(* pending and a batch starts with the oldest pending record.  So the      *)
(* record in doubt is always the oldest pending one.                       *)
(***************************************************************************)
EXTENDS NotifyDelivery, FiniteSetTheorems, TLAPS

\* What is pending is the end of what was handed out.
SettledInOrder == \A i \in pending : \A j \in i .. delivered : j \in pending

\* The records in hand are the oldest of the pending ones, and all of them
\* when they are new.
OldestInHand ==
  /\ \A i \in todo : \A j \in pending : j < i => j \in todo
  /\ pc = "read" => pending = {}
  /\ pc \in {"work", "ack"} /\ back = "read" => todo = pending

\* Before an acknowledgement the text has arrived.
AckIsDue ==
  pc = "ack" => todo # {} /\ \A i \in todo : IsNext(i) => i \in seen

\* A text that arrived and is not acknowledged is that of the oldest record.
DoubtIsOldest == \A i \in seen \cap pending : \A j \in pending : i <= j

\* Nothing happens before the group exists.
NoGroupYet == ~ group => pc = "ensure" /\ first = 0 /\ delivered = 0

IInv ==
  /\ TypeOK
  /\ SettledInOrder
  /\ OldestInHand
  /\ AckIsDue
  /\ DoubtIsOldest
  /\ NoGroupYet
  /\ AckedWasHandled

-----------------------------------------------------------------------------
\* A batch is a part of the set and contains, with a record, all smaller ones.
LEMMA BatchIsOldest ==
  ASSUME NEW a \in Nat, NEW b \in Nat, NEW S \in SUBSET (a .. b)
  PROVE  /\ Batch(S) \subseteq S
         /\ \A i \in Batch(S) : \A j \in S : j < i => j \in Batch(S)
<1>1. Batch(S) \subseteq S
  BY DEF Batch
<1>2. ASSUME NEW i \in Batch(S), NEW j \in S, j < i
      PROVE  j \in Batch(S)
  <2> DEFINE Si == {k \in S : k < i}
             Sj == {k \in S : k < j}
  <2>1. IsFiniteSet(S)
    <3>1. a \in Int /\ b \in Int
      OBVIOUS
    <3>2. IsFiniteSet(a .. b)
      BY <3>1, FS_Interval
    <3> QED
      BY <3>2, FS_Subset
  <2>2. i \in Nat /\ j \in Nat /\ \A k \in S : k \in Nat
    <3>1. \A k \in a .. b : k \in Nat
      OBVIOUS
    <3>2. \A k \in S : k \in a .. b
      OBVIOUS
    <3>3. \A k \in S : k \in Nat
      BY <3>1, <3>2
    <3>4. i \in S
      BY <1>1
    <3>5. i \in Nat /\ j \in Nat
      BY <3>3, <3>4
    <3> QED
      BY <3>3, <3>5
  <2>3. Sj \in SUBSET Si /\ Si \in SUBSET S
    <3>1. \A k \in S : k < j => k < i
      BY <1>2, <2>2
    <3>2. \A k \in Sj : k \in Si
      BY <3>1
    <3>3. \A k \in Si : k \in S
      OBVIOUS
    <3> HIDE DEF Si, Sj
    <3> QED
      BY <3>2, <3>3
  <2>4. IsFiniteSet(Si) /\ IsFiniteSet(Sj)
    BY <2>1, <2>3, FS_Subset
  <2>5. Cardinality(Sj) <= Cardinality(Si)
    BY <2>3, <2>4, FS_Subset
  <2>6. Cardinality(Si) \in Nat /\ Cardinality(Sj) \in Nat
    BY <2>4, FS_CardinalityType
  <2>7. Cardinality(Si) < ReadCount
    BY DEF Batch
  <2>8. Cardinality(Sj) < ReadCount
    BY <2>5, <2>6, <2>7, NotifyConstants
  <2> QED
    BY <2>8 DEF Batch
<1> QED
  BY <1>1, <1>2

\* The record a loop takes next is the oldest one pending.
LEMMA NextIsOldest ==
  ASSUME IInv, NEW i \in Ids, IsNext(i)
  PROVE  /\ i \in pending
         /\ \A j \in pending : i <= j
         /\ \A j \in seen \cap pending : j = i
<1>1. i \in pending /\ i \in todo
  BY DEF IInv, TypeOK, IsNext
<1>2. \A j \in pending : j \in Nat
  BY DEF IInv, TypeOK
<1>3. \A j \in pending : i <= j
  BY <1>1, <1>2 DEF IInv, OldestInHand, IsNext, Ids
<1>4. \A j \in seen \cap pending : j = i
  <2>1. ASSUME NEW j \in seen \cap pending PROVE j = i
    <3>1. j <= i /\ i <= j
      BY <1>1, <1>3 DEF IInv, DoubtIsOldest
    <3>2. i \in Nat /\ j \in Nat
      BY <1>1, <1>2
    <3> QED
      BY <3>1, <3>2
  <2> QED
    BY <2>1
<1> QED
  BY <1>1, <1>3, <1>4

LEMMA InitInvariant == Init => IInv
<1> SUFFICES ASSUME Init PROVE IInv
  OBVIOUS
<1>1. TypeOK
  <2>1. published \in 0 .. MaxRecords /\ faults \in 0 .. MaxFaults
    BY NotifyConstants DEF Init
  <2>2. first \in 0 .. published /\ delivered \in first .. published
    BY DEF Init
  <2>3. /\ pending \in SUBSET ((first + 1) .. delivered)
        /\ seen \in SUBSET ((first + 1) .. delivered)
        /\ todo \in SUBSET pending
    BY DEF Init
  <2> QED
    BY <2>1, <2>2, <2>3 DEF Init, TypeOK
<1>2. SettledInOrder /\ OldestInHand /\ AckIsDue /\ DoubtIsOldest /\ NoGroupYet
  BY DEF Init, SettledInOrder, OldestInHand, AckIsDue, DoubtIsOldest, NoGroupYet
<1>3. AckedWasHandled
  BY DEF Init, AckedWasHandled
<1> QED
  BY <1>1, <1>2, <1>3 DEF IInv

\* Acknowledging the oldest record, once it is poison or its text arrived.
LEMMA RemoveOldest ==
  ASSUME IInv, NEW i \in Ids, IsNext(i),
         i \in seen \/ kind[i] = "poison",
         pending' = pending \ {i},
         UNCHANGED <<kind, first, delivered, seen>>
  PROVE  SettledInOrder' /\ DoubtIsOldest' /\ AckedWasHandled'
<1>1. \A j \in pending : i <= j
  BY NextIsOldest
<1>2. \A j \in seen \cap pending : j = i
  BY NextIsOldest
<1>3. \A j \in pending : j \in Nat
  BY DEF IInv, TypeOK
<1>4. SettledInOrder'
  BY <1>1, <1>3, NotifyConstants DEF IInv, TypeOK, SettledInOrder, Ids
<1>5. DoubtIsOldest'
  BY <1>2 DEF DoubtIsOldest
<1>6. AckedWasHandled'
  BY DEF IInv, AckedWasHandled
<1> QED
  BY <1>4, <1>5, <1>6

\* Handing out new records when nothing is pending.
LEMMA HandOutNew ==
  ASSUME IInv, pending = {}, HandOut,
         UNCHANGED <<kind, first, published, seen>>
  PROVE  /\ delivered' \in first .. published /\ delivered <= delivered'
         /\ pending' = Batch((delivered + 1) .. published)
         /\ pending' \in SUBSET ((first + 1) .. delivered')
         /\ SettledInOrder' /\ DoubtIsOldest' /\ AckedWasHandled'
<1> DEFINE S == (delivered + 1) .. published
           new == Batch(S)
<1>1. delivered \in Nat /\ published \in Nat /\ first \in Nat /\ first <= delivered
  BY NotifyConstants DEF IInv, TypeOK
<1>2. new \subseteq S /\ \A i \in new : \A j \in S : j < i => j \in new
  <2>1. delivered + 1 \in Nat /\ S \in SUBSET ((delivered + 1) .. published)
    BY <1>1
  <2> QED
    BY <1>1, <2>1, BatchIsOldest
<1>3. pending' = new /\ delivered' \in new /\ \A i \in new : i <= delivered'
  BY DEF HandOut
<1>4. delivered' \in S
  BY <1>2, <1>3
<1>5. delivered' \in first .. published /\ delivered <= delivered'
  BY <1>1, <1>4
<1>6. pending' \in SUBSET ((first + 1) .. delivered')
  BY <1>1, <1>2, <1>3, <1>4
<1>7. \A j \in (delivered + 1) .. delivered' : j \in new
  BY <1>1, <1>2, <1>3, <1>4
<1>8. SettledInOrder'
  BY <1>1, <1>2, <1>3, <1>4, <1>7 DEF SettledInOrder
<1>9. DoubtIsOldest'
  <2>1. \A i \in seen : i <= delivered /\ i \in Nat
    BY <1>1 DEF IInv, TypeOK
  <2>2. seen' \cap pending' = {}
    BY <1>1, <1>2, <1>3, <2>1
  <2> QED
    BY <2>2 DEF DoubtIsOldest
<1>10. AckedWasHandled'
  <2>1. \A i \in (first + 1) .. delivered : i \in seen \/ kind[i] = "poison"
    BY DEF IInv, AckedWasHandled
  <2>2. \A i \in (first + 1) .. delivered' :
          i \in (first + 1) .. delivered \/ i \in (delivered + 1) .. delivered'
    BY <1>1, <1>4
  <2> QED
    BY <2>1, <2>2, <1>3, <1>7 DEF AckedWasHandled
<1> QED
  BY <1>3, <1>5, <1>6, <1>8, <1>9, <1>10

LEMMA StepInvariant == IInv /\ [Next]_vars => IInv'
<1> SUFFICES ASSUME IInv, [Next]_vars PROVE IInv'
  OBVIOUS
<1> USE NotifyConstants
<1>1. CASE Publish
  BY <1>1 DEF Publish, groupVars, consumerVars, IInv, TypeOK, SettledInOrder,
     OldestInHand, AckIsDue, IsNext, DoubtIsOldest, NoGroupYet, AckedWasHandled
<1>2. CASE EnsureGroup
  BY <1>2 DEF EnsureGroup, GroupGoesOn, IInv, TypeOK, SettledInOrder,
     OldestInHand, AckIsDue, DoubtIsOldest, NoGroupYet, AckedWasHandled
<1>3. CASE ClaimPending
  <2>1. first + 1 \in Nat /\ delivered \in Nat /\ pending \in SUBSET ((first + 1) .. delivered)
    BY DEF IInv, TypeOK
  <2>2. todo' \in SUBSET pending /\ \A i \in todo' : \A j \in pending : j < i => j \in todo'
    BY <1>3, <2>1, BatchIsOldest DEF ClaimPending
  <2> QED
    BY <1>3, <2>2 DEF ClaimPending, groupVars, IInv, TypeOK, SettledInOrder,
       OldestInHand, AckIsDue, DoubtIsOldest, NoGroupYet, AckedWasHandled
<1>4. CASE Recovered
  BY <1>4 DEF Recovered, groupVars, IInv, TypeOK, SettledInOrder,
     OldestInHand, AckIsDue, DoubtIsOldest, NoGroupYet, AckedWasHandled
<1>5. CASE ReadNew
  <2>1. pending = {} /\ HandOut /\ UNCHANGED <<kind, first, published, seen>>
    BY <1>5 DEF ReadNew, IInv, OldestInHand
  <2>2. /\ delivered' \in first .. published /\ delivered <= delivered'
        /\ pending' = Batch((delivered + 1) .. published)
        /\ pending' \in SUBSET ((first + 1) .. delivered')
        /\ SettledInOrder' /\ DoubtIsOldest' /\ AckedWasHandled'
    BY <2>1, HandOutNew
  <2>3. todo' = pending' /\ pc' = "work" /\ back' = "read" /\ group
    BY <1>5, <2>2 DEF ReadNew, IInv, NoGroupYet
  <2>4. TypeOK'
    BY <1>5, <2>2, <2>3 DEF ReadNew, IInv, TypeOK
  <2>5. OldestInHand' /\ AckIsDue' /\ NoGroupYet'
    BY <1>5, <2>3 DEF ReadNew, OldestInHand, AckIsDue, NoGroupYet
  <2> QED
    BY <2>2, <2>4, <2>5 DEF IInv
<1>6. CASE EndOfBatch
  BY <1>6 DEF EndOfBatch, groupVars, IInv, TypeOK, SettledInOrder,
     OldestInHand, AckIsDue, DoubtIsOldest, NoGroupYet, AckedWasHandled
<1>7. ASSUME NEW i \in Ids, IsNext(i), DropPoison(i) \/ Ack(i)
      PROVE  IInv'
  <2>1. i \in seen \/ kind[i] = "poison"
    BY <1>7 DEF DropPoison, Ack, IInv, AckIsDue, IsNext
  <2>2. /\ pending' = pending \ {i} /\ todo' = todo \ {i} /\ pc' = "work"
        /\ UNCHANGED <<kind, published, group, first, delivered, started, back, seen, faults>>
        /\ pc \in {"work", "ack"}
    BY <1>7 DEF DropPoison, Ack, Acknowledge, Rest
  <2>3. SettledInOrder' /\ DoubtIsOldest' /\ AckedWasHandled'
    BY <1>7, <2>1, <2>2, RemoveOldest
  <2>4. TypeOK'
    BY <2>2 DEF IInv, TypeOK
  <2>5. OldestInHand' /\ AckIsDue' /\ NoGroupYet'
    BY <2>2 DEF IInv, OldestInHand, AckIsDue, NoGroupYet
  <2> QED
    BY <2>3, <2>4, <2>5 DEF IInv
<1>8. ASSUME NEW i \in Ids, IsNext(i), Send(i)
      PROVE  IInv'
  <2>1. /\ i \in pending
        /\ \A j \in pending : i <= j
        /\ \A j \in seen \cap pending : j = i
    BY <1>8, NextIsOldest
  <2>2. TypeOK' /\ SettledInOrder' /\ NoGroupYet' /\ AckedWasHandled'
    BY <1>8, <2>1 DEF Send, groupVars, IInv, TypeOK, SettledInOrder, NoGroupYet,
       AckedWasHandled
  <2>3. OldestInHand'
    BY <1>8 DEF Send, groupVars, IInv, OldestInHand
  <2>4. AckIsDue'
    <3>1. i \in todo /\ todo' = todo /\ i \in seen' /\ \A j \in todo : i <= j
      BY <1>8 DEF Send, IsNext
    <3>2. \A j \in todo : j \in Nat
      BY DEF IInv, TypeOK
    <3> QED
      BY <3>1, <3>2 DEF AckIsDue, IsNext
  <2>5. DoubtIsOldest'
    BY <1>8, <2>1 DEF Send, groupVars, DoubtIsOldest
  <2> QED
    BY <2>2, <2>3, <2>4, <2>5 DEF IInv
<1>9. ASSUME NEW i \in Ids, SendRefused(i)
      PROVE  IInv'
  BY <1>9 DEF SendRefused, KeepRefused, Restart, IInv, TypeOK, SettledInOrder,
     OldestInHand, AckIsDue, DoubtIsOldest, NoGroupYet, AckedWasHandled
<1>10. ASSUME NEW i \in Ids, IsNext(i), SendFails(i)
       PROVE  IInv'
  <2>1. /\ i \in pending
        /\ \A j \in pending : i <= j
        /\ \A j \in seen \cap pending : j = i
    BY <1>10, NextIsOldest
  <2>2. TypeOK'
    <3>1. seen' \in SUBSET ((first + 1) .. delivered)
      BY <1>10, <2>1 DEF SendFails, IInv, TypeOK
    <3>2. faults' \in 0 .. MaxFaults
      BY <1>10 DEF SendFails, IInv, TypeOK
    <3> QED
      BY <1>10, <3>1, <3>2 DEF SendFails, KeepRefused, Restart, IInv, TypeOK
  <2>3. SettledInOrder' /\ AckedWasHandled' /\ NoGroupYet'
    BY <1>10 DEF SendFails, KeepRefused, Restart, IInv, SettledInOrder,
       AckedWasHandled, NoGroupYet
  <2>4. OldestInHand' /\ AckIsDue'
    BY <1>10 DEF SendFails, Restart, OldestInHand, AckIsDue
  <2>5. DoubtIsOldest'
    BY <1>10, <2>1 DEF SendFails, KeepRefused, DoubtIsOldest
  <2> QED
    BY <2>2, <2>3, <2>4, <2>5 DEF IInv
<1>11. CASE RecoveryFails
  BY <1>11 DEF RecoveryFails, LoseConnection, AfterLostConnection, IInv, TypeOK,
     SettledInOrder, OldestInHand, AckIsDue, DoubtIsOldest, NoGroupYet,
     AckedWasHandled
<1>12. CASE ReadFails
  <2>1. pending = {} /\ group /\ UNCHANGED <<kind, first, published, seen>>
    BY <1>12 DEF ReadFails, LoseConnection, IInv, OldestInHand, NoGroupYet
  <2>2. /\ delivered' \in first .. published
        /\ delivered <= delivered'
        /\ pending' \in SUBSET ((first + 1) .. delivered')
        /\ SettledInOrder' /\ DoubtIsOldest' /\ AckedWasHandled'
    <3>1. CASE HandOut
      BY <2>1, <3>1, HandOutNew
    <3>2. CASE UNCHANGED <<delivered, pending>>
      BY <2>1, <3>2 DEF IInv, TypeOK, SettledInOrder, DoubtIsOldest, AckedWasHandled
    <3> QED
      BY <1>12, <3>1, <3>2 DEF ReadFails
  <2>3. TypeOK'
    BY <1>12, <2>2 DEF ReadFails, LoseConnection, AfterLostConnection, IInv, TypeOK
  <2>4. OldestInHand' /\ AckIsDue' /\ NoGroupYet'
    BY <1>12, <2>1 DEF ReadFails, LoseConnection, AfterLostConnection,
       OldestInHand, AckIsDue, NoGroupYet
  <2> QED
    BY <2>2, <2>3, <2>4 DEF IInv
<1>13. ASSUME NEW i \in Ids, IsNext(i), AckFails(i)
       PROVE  IInv'
  <2>1. i \in seen \/ kind[i] = "poison"
    BY <1>13 DEF AckFails, IInv, AckIsDue, IsNext
  <2>2. UNCHANGED <<kind, published, group, first, delivered, seen>> /\ todo' = {}
    BY <1>13 DEF AckFails, LoseConnection
  <2>3. SettledInOrder' /\ DoubtIsOldest' /\ AckedWasHandled'
    <3>1. CASE pending' = pending \ {i}
      BY <1>13, <2>1, <2>2, <3>1, RemoveOldest
    <3>2. CASE pending' = pending
      BY <2>2, <3>2 DEF IInv, SettledInOrder, DoubtIsOldest, AckedWasHandled
    <3> QED
      BY <1>13, <3>1, <3>2 DEF AckFails
  <2>4. TypeOK'
    BY <1>13, <2>2 DEF AckFails, LoseConnection, AfterLostConnection, IInv, TypeOK
  <2>5. OldestInHand' /\ AckIsDue' /\ NoGroupYet'
    BY <1>13, <2>2 DEF AckFails, LoseConnection, AfterLostConnection, IInv,
       OldestInHand, AckIsDue, NoGroupYet
  <2> QED
    BY <2>3, <2>4, <2>5 DEF IInv
<1>14. CASE Crash
  <2>1. faults' \in 0 .. MaxFaults
    BY <1>14 DEF Crash, IInv, TypeOK
  <2>2. TypeOK'
    BY <1>14, <2>1 DEF Crash, Restart, groupVars, IInv, TypeOK
  <2> QED
    BY <1>14, <2>2 DEF Crash, Restart, groupVars, IInv, SettledInOrder,
       OldestInHand, AckIsDue, DoubtIsOldest, NoGroupYet, AckedWasHandled
<1>15. CASE UNCHANGED vars
  BY <1>15 DEF vars, groupVars, consumerVars, IInv, TypeOK, SettledInOrder,
     OldestInHand, AckIsDue, IsNext, DoubtIsOldest, NoGroupYet, AckedWasHandled
<1> QED
  BY <1>1, <1>2, <1>3, <1>4, <1>5, <1>6, <1>7, <1>8, <1>9, <1>10, <1>11, <1>12,
     <1>13, <1>14, <1>15 DEF Next, ConsumerStep, ProcessStep, Fault

-----------------------------------------------------------------------------
\* The inductive invariant of the delivery holds in every reachable state.
THEOREM DeliveryInvariant == Spec => []IInv
<1>1. Init => IInv
  BY InitInvariant
<1>2. IInv /\ [Next]_vars => IInv'
  BY StepInvariant
<1> QED
  BY <1>1, <1>2, PTL DEF Spec

\* The types of the group, the consumer and the faults hold.
THEOREM DeliveryTypes == Spec => []TypeOK
<1>1. IInv => TypeOK
  BY DEF IInv
<1> QED
  BY <1>1, DeliveryInvariant, PTL

\* _process_notification_message acknowledges a record only after its text
\* arrived, or to drop poison.
THEOREM AcknowledgedWasHandled == Spec => []AckedWasHandled
<1>1. IInv => AckedWasHandled
  BY DEF IInv
<1> QED
  BY <1>1, DeliveryInvariant, PTL

\* Each failure repeats one text at the most: the one text in doubt is the
\* oldest pending record's.
THEOREM OneTextInDoubt == Spec => []OneInDoubt
<1>1. IInv => OneInDoubt
  <2> SUFFICES ASSUME IInv, NEW i \in seen \cap pending, NEW j \in seen \cap pending
               PROVE  i = j
    BY DEF OneInDoubt
  <2>1. i <= j /\ j <= i
    BY DEF IInv, DoubtIsOldest
  <2>2. i \in Nat /\ j \in Nat
    BY NotifyConstants DEF IInv, TypeOK
  <2> QED
    BY <2>1, <2>2
<1> QED
  BY <1>1, DeliveryInvariant, PTL

\* Recovery of pending records before any new one keeps the order of texts,
\* through lost connections, failing sends, restarts and crashes.
THEOREM OrderIsKept == Spec => []NothingOvertakes
<1>1. IInv => NothingOvertakes
  <2> SUFFICES ASSUME IInv, NEW i \in seen, NEW j \in (first + 1) .. i, kind[j] = "user"
               PROVE  j \in seen
    BY DEF NothingOvertakes
  <2>1. /\ first \in Nat /\ delivered \in Nat
        /\ i \in (first + 1) .. delivered
        /\ j \in (first + 1) .. delivered /\ i \in j .. delivered
    BY NotifyConstants DEF IInv, TypeOK
  <2>2. CASE j \notin pending
    BY <2>1, <2>2 DEF IInv, AckedWasHandled
  <2>3. CASE j \in pending
    <3>1. i \in pending
      BY <2>1, <2>3 DEF IInv, SettledInOrder
    <3>2. i <= j
      BY <2>3, <3>1 DEF IInv, DoubtIsOldest
    <3> QED
      BY <2>1, <3>2
  <2> QED
    BY <2>2, <2>3
<1> QED
  BY <1>1, DeliveryInvariant, PTL
=============================================================================
