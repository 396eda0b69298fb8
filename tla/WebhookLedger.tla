--------------------------- MODULE WebhookLedger ---------------------------
(***************************************************************************)
(* What asynchronous ingestion promises to the sender of a webhook, with   *)
(* no transaction, queue, attempt or process in sight.  A webhook that is  *)
(* acknowledged has been accepted; an accepted webhook is applied to its   *)
(* typed row (if it names an entity), recorded in the events stream and    *)
(* settled, in that order, or abandoned.  Applying and recording may be    *)
(* repeated before the webhook settles: delivery is at least once.         *)
(***************************************************************************)
CONSTANT Webhooks    \* deliveries

VARIABLES typed,     \* the deliveries that name an entity, fixed by their bodies
          status,    \* status[w]: where the delivery stands
          acked,     \* the deliveries whose sender was told 202
          applied,   \* the deliveries written to their typed row
          recorded   \* the deliveries that left an event

vars == <<typed, status, acked, applied, recorded>>

Init ==
  /\ typed \in SUBSET Webhooks
  /\ status = [w \in Webhooks |-> "absent"]
  /\ acked = {} /\ applied = {} /\ recorded = {}

Accept(w) ==
  /\ status[w] = "absent"
  /\ status' = [status EXCEPT ![w] = "accepted"]
  /\ acked' \in {acked, acked \cup {w}}
  /\ UNCHANGED <<typed, applied, recorded>>

Apply(w) ==
  /\ status[w] = "accepted"
  /\ w \in typed
  /\ applied' = applied \cup {w}
  /\ UNCHANGED <<typed, status, acked, recorded>>

Record(w) ==
  /\ status[w] = "accepted"
  /\ w \in typed => w \in applied
  /\ recorded' = recorded \cup {w}
  /\ UNCHANGED <<typed, status, acked, applied>>

Settle(w) ==
  /\ status[w] = "accepted"
  /\ w \in recorded
  /\ status' = [status EXCEPT ![w] = "settled"]
  /\ UNCHANGED <<typed, acked, applied, recorded>>

Abandon(w) ==
  /\ status[w] = "accepted"
  /\ status' = [status EXCEPT ![w] = "abandoned"]
  /\ UNCHANGED <<typed, acked, applied, recorded>>

Next ==
  \E w \in Webhooks :
    Accept(w) \/ Apply(w) \/ Record(w) \/ Settle(w) \/ Abandon(w)

Spec == Init /\ [][Next]_vars
=============================================================================
