---------------------------- MODULE SignalIngest ----------------------------
(***************************************************************************)
(* The signal ingestor (services/signal_ingestor): every message of the    *)
(* source channel is handled once, by a task of its own.  The row of the   *)
(* signal is committed before its event is published, and nothing          *)
(* publishes it again when that fails.                                     *)
(*                                                                         *)
(* A message is one of four kinds, which the parser and the sanitizer tell *)
(* apart: an entry with usable targets, an entry the sanitizer rejects     *)
(* ("broken"), one that does not parse ("malformed"), and "other" text.    *)
(* The row of a signal is named by its message.                            *)
(***************************************************************************)
EXTENDS Naturals, Sequences, FiniteSets

CONSTANTS
  Messages,     \* messages of the source channel
  MaxLost       \* bound: publishings that fail, and deaths of the ingestor

ASSUME IngestConstants == MaxLost \in Nat

Kinds == {"entry", "broken", "malformed", "other"}

VARIABLES
  kind,         \* what each message is
  signalRow,    \* the committed row: "none", "accepted", "rejected"
  handler,      \* its task: "waiting", "publishing", "done", "failed"
  stream,       \* the signals stream: records [type, signal]
  lost

ingestVars == <<kind, signalRow, handler, stream, lost>>

IngestTypeOK ==
  /\ kind \in [Messages -> Kinds]
  /\ signalRow \in [Messages -> {"none", "accepted", "rejected"}]
  /\ handler \in [Messages -> {"waiting", "publishing", "done", "failed"}]
  /\ stream \in Seq([type : {"signal.created", "signal.rejected"}, signal : Messages])
  /\ lost \in 0 .. MaxLost

IngestInit ==
  /\ kind \in [Messages -> Kinds]
  /\ signalRow = [m \in Messages |-> "none"]
  /\ handler = [m \in Messages |-> "waiting"]
  /\ stream = <<>>
  /\ lost = 0

RowOf(k) ==
  IF k = "entry" THEN "accepted" ELSE IF k = "broken" THEN "rejected" ELSE "none"
EventOf(m) ==
  [type |-> IF kind[m] = "entry" THEN "signal.created" ELSE "signal.rejected",
   signal |-> m]

\* Mutant: the session commits after the publishing.
RowNotYet(m) == "none"

\* The row a message leaves behind when its event goes out: it is committed.
RowWhenPublishing(m) == RowOf(kind[m])

\* process_source_message up to its first await: parse, sanitize, store and
\* commit.  Text that is no entry ends here.
HandleMessage(m) ==
  /\ handler[m] = "waiting"
  /\ handler' = [handler EXCEPT ![m] = IF kind[m] = "other" THEN "done" ELSE "publishing"]
  /\ signalRow' = [signalRow EXCEPT ![m] = RowWhenPublishing(m)]
  /\ UNCHANGED <<kind, stream, lost>>

\* The event is appended, and the session's context commits whatever is left.
PublishSignal(m) ==
  /\ handler[m] = "publishing"
  /\ handler' = [handler EXCEPT ![m] = "done"]
  /\ stream' = Append(stream, EventOf(m))
  /\ signalRow' = [signalRow EXCEPT ![m] = RowOf(kind[m])]
  /\ UNCHANGED <<kind, lost>>

\* XADD fails, before or after the record was appended, or the process dies
\* there: handle_message logs it and the message is not handled again.
PublishFails(m) ==
  /\ handler[m] = "publishing"
  /\ lost < MaxLost
  /\ lost' = lost + 1
  /\ handler' = [handler EXCEPT ![m] = "failed"]
  /\ stream' \in {stream, Append(stream, EventOf(m))}
  /\ UNCHANGED <<kind, signalRow>>

IngestNext ==
  \E m \in Messages : HandleMessage(m) \/ PublishSignal(m) \/ PublishFails(m)

\* Whoever reads a signal.created finds the accepted row of the signal: the
\* commit comes before the XADD, so the consumers' look-up never misses.
EventHasItsRow ==
  \A i \in DOMAIN stream :
    stream[i].type = "signal.created" => signalRow[stream[i].signal] = "accepted"
=============================================================================
