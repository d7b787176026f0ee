--------------------------- MODULE NotifyDelivery ---------------------------
(***************************************************************************)
(* The delivery of notifications: the one consumer of the notify stream in *)
(* the telegram bot (services/telegram_bot/main.py) takes what the         *)
(* services publish to the users and admins, and its supervisor starts it  *)
(* again when it stops.                                                    *)
(*                                                                         *)
(* Records are numbered as they were published.  A record is text for a    *)
(* user, for a user the bot cannot write to any more, or poison, which     *)
(* does not parse.  Redis calls can fail before or after their effect, a   *)
(* message to Telegram can arrive although its call fails, and the process *)
(* can die.                                                                *)
(***************************************************************************)
EXTENDS Naturals, FiniteSets

CONSTANTS
  ReadCount,    \* records read at once (notify_read_count)
  MaxRecords,   \* bound: records published
  MaxFaults     \* bound: failing calls and deaths of the process

ASSUME NotifyConstants ==
  ReadCount \in Nat \ {0} /\ MaxRecords \in Nat /\ MaxFaults \in Nat

Ids == 1 .. MaxRecords
Kinds == {"user", "unreachable", "poison"}

VARIABLES
  kind,         \* what each record is
  published,    \* records on the stream
  group,        \* the consumer group exists
  first,        \* records published before it was created
  delivered,    \* the last record given to the group
  pending,      \* given out and not acknowledged
  pc,           \* "ensure", "recover", "read", "work", "ack"
  started,      \* the consumer is in its reading loop
  back,         \* where the records in hand came from
  todo,         \* the records in hand
  seen,         \* records whose text arrived
  faults

groupVars == <<group, first, delivered, pending>>
consumerVars == <<pc, started, back, todo>>
vars == <<kind, published, groupVars, consumerVars, seen, faults>>

TypeOK ==
  /\ kind \in [Ids -> Kinds]
  /\ published \in 0 .. MaxRecords
  /\ group \in BOOLEAN
  /\ first \in 0 .. published
  /\ delivered \in first .. published
  /\ pending \in SUBSET ((first + 1) .. delivered)
  /\ pc \in {"ensure", "recover", "read", "work", "ack"}
  /\ started \in BOOLEAN
  /\ back \in {"recover", "read"}
  /\ todo \in SUBSET pending
  /\ seen \in SUBSET ((first + 1) .. delivered)
  /\ faults \in 0 .. MaxFaults

Init ==
  /\ kind \in [Ids -> Kinds]
  /\ published = 0
  /\ group = FALSE /\ first = 0 /\ delivered = 0 /\ pending = {}
  /\ pc = "ensure" /\ started = FALSE /\ back = "recover" /\ todo = {}
  /\ seen = {}
  /\ faults = 0

-----------------------------------------------------------------------------

\* Any service appends a record.
Publish ==
  /\ published < MaxRecords
  /\ published' = published + 1
  /\ UNCHANGED <<kind, groupVars, consumerVars, seen, faults>>

\* Mutant: an existing group is set to the end of the stream again.
AlwaysAtTheEnd(n) == published

\* Where the group goes on: a new one after the history, an existing one (the
\* BUSYGROUP answer) where it was.
GroupGoesOn(n) == IF group THEN n ELSE published

\* _ensure_notify_consumer_group.
EnsureGroup ==
  /\ pc = "ensure"
  /\ group' = TRUE
  /\ first' = IF group THEN first ELSE published
  /\ delivered' = GroupGoesOn(delivered)
  /\ pc' = "recover"
  /\ UNCHANGED <<kind, published, pending, started, back, todo, seen, faults>>

\* The first ReadCount records of a set, in the order of the stream.
Batch(S) == {i \in S : Cardinality({j \in S : j < i}) < ReadCount}
\* The record the loop takes next.
IsNext(i) == i \in todo /\ \A j \in todo : i <= j

\* _recover_pending_notifications: list the pending records and claim them,
\* until there is none.
ClaimPending ==
  /\ pc = "recover" /\ pending # {}
  /\ todo' = Batch(pending)
  /\ back' = "recover"
  /\ pc' = "work"
  /\ UNCHANGED <<kind, published, groupVars, started, seen, faults>>

Recovered ==
  /\ pc = "recover" /\ pending = {}
  /\ started' = TRUE
  /\ pc' = "read"
  /\ UNCHANGED <<kind, published, groupVars, back, todo, seen, faults>>

\* The group hands out new records: XREADGROUP with ">".
HandOut ==
  LET new == Batch((delivered + 1) .. published) IN
    /\ delivered' \in new /\ \A i \in new : i <= delivered'
    /\ pending' = pending \cup new

ReadNew ==
  /\ pc = "read"
  /\ HandOut
  /\ todo' = Batch((delivered + 1) .. published)
  /\ back' = "read"
  /\ pc' = "work"
  /\ UNCHANGED <<kind, published, group, first, started, seen, faults>>

\* The loops over the records in hand end.
EndOfBatch ==
  /\ pc = "work" /\ todo = {}
  /\ pc' = back
  /\ UNCHANGED <<kind, published, groupVars, started, back, todo, seen, faults>>

\* Mutant: the record stays in hand.
KeepInHand(i) == todo

\* The records in hand once one of them is done.
Rest(i) == todo \ {i}

\* XACK of the record in hand.
Acknowledge(i) ==
  /\ pending' = pending \ {i}
  /\ todo' = Rest(i)
  /\ pc' = "work"
  /\ UNCHANGED <<kind, published, group, first, delivered, started, back, seen, faults>>

\* _process_notification_message: poison is acknowledged and dropped.
DropPoison(i) ==
  /\ pc = "work" /\ kind[i] = "poison"
  /\ Acknowledge(i)

\* Text for a user is acknowledged after the call returned.
Send(i) ==
  /\ pc = "work" /\ kind[i] = "user"
  /\ seen' = seen \cup {i}
  /\ pc' = "ack"
  /\ UNCHANGED <<kind, published, groupVars, started, back, todo, faults>>

Ack(i) ==
  /\ pc = "ack"
  /\ Acknowledge(i)

\* The consumer ends with an exception or its process dies; the supervisor
\* starts it anew.
Restart ==
  /\ pc' = "ensure"
  /\ started' = FALSE
  /\ todo' = {}
  /\ UNCHANGED back

\* Mutant: a refused record is acknowledged like poison.
DropRefused(i) == pending \ {i}

\* A record whose text was refused stays pending.
KeepRefused(i) == pending

\* Telegram refuses the text for good: the exception stops the consumer.
SendRefused(i) ==
  /\ pc = "work" /\ kind[i] = "unreachable"
  /\ pending' = KeepRefused(i)
  /\ Restart
  /\ UNCHANGED <<kind, published, group, first, delivered, seen, faults>>

\* The call fails once; the text may have arrived.
SendFails(i) ==
  /\ pc = "work" /\ kind[i] = "user"
  /\ faults < MaxFaults /\ faults' = faults + 1
  /\ seen' \in {seen, seen \cup {i}}
  /\ pending' = KeepRefused(i)
  /\ Restart
  /\ UNCHANGED <<kind, published, group, first, delivered>>

\* Mutant: reading goes on without a recovery.
ReadOn == IF started THEN "read" ELSE "ensure"

\* After a lost connection or a timeout the loop recovers what is pending; in
\* the recovery before the loop the consumer ends.
AfterLostConnection == IF started THEN "recover" ELSE "ensure"

LoseConnection ==
  /\ faults < MaxFaults /\ faults' = faults + 1
  /\ pc' = AfterLostConnection
  /\ todo' = {}
  /\ UNCHANGED <<kind, published, group, first, started, back, seen>>

RecoveryFails ==
  /\ pc = "recover"
  /\ LoseConnection
  /\ UNCHANGED <<delivered, pending>>

\* The records may have been handed out.
ReadFails ==
  /\ pc = "read"
  /\ LoseConnection
  /\ HandOut \/ UNCHANGED <<delivered, pending>>

\* The acknowledgement may have been taken.
AckFails(i) ==
  /\ \/ pc = "ack"
     \/ pc = "work" /\ kind[i] = "poison"
  /\ LoseConnection
  /\ pending' \in {pending, pending \ {i}}
  /\ UNCHANGED delivered

Crash ==
  /\ faults < MaxFaults /\ faults' = faults + 1
  /\ Restart
  /\ UNCHANGED <<kind, published, groupVars, seen>>

ProcessStep(i) == DropPoison(i) \/ Send(i) \/ Ack(i) \/ SendRefused(i)
ConsumerStep ==
  \/ EnsureGroup \/ ClaimPending \/ Recovered \/ ReadNew \/ EndOfBatch
  \/ \E i \in Ids : IsNext(i) /\ ProcessStep(i)

Fault ==
  \/ RecoveryFails \/ ReadFails \/ Crash
  \/ \E i \in Ids : IsNext(i) /\ (SendFails(i) \/ AckFails(i))

Next == Publish \/ ConsumerStep \/ Fault
Spec == Init /\ [][Next]_vars

\* The consumer's task goes on: its sleeps end, and its supervisor restarts it.
FairSpec == Spec /\ WF_vars(ConsumerStep)

-----------------------------------------------------------------------------
(* Properties.                                                              *)

\* No text overtakes another: when a text arrived, the ones published before
\* it have, too, whatever failed, was claimed again or restarted in between.
NothingOvertakes ==
  \A i \in seen : \A j \in (first + 1) .. i : kind[j] = "user" => j \in seen

\* A record is acknowledged only if its text arrived or it is poison.
AckedWasHandled ==
  \A i \in (first + 1) .. delivered :
    i \notin pending => i \in seen \/ kind[i] = "poison"

\* At most one record is in doubt, its text arrived and its acknowledgement
\* open: each failure repeats one text at the most.
OneInDoubt == \A i, j \in seen \cap pending : i = j

\* A text arrives and is acknowledged in the end, unless a record for an
\* unreachable user is before it: that one is tried for ever, and holds up all
\* that come after it.
TextArrives ==
  \A i \in Ids :
    i \in (first + 1) .. published /\ group /\ kind[i] = "user"
      /\ (\A j \in (first + 1) .. i : kind[j] # "unreachable")
    ~> i \in seen /\ i \notin pending
=============================================================================
