---------------------------- MODULE OutboxRelay -----------------------------
(***************************************************************************)
(* The relay from the outbox of the operational database to the telemetry  *)
(* of the reporting database (pipelines/outbox_relay.py).  The two commit  *)
(* apart: the destination first, the acknowledgement in the outbox after.  *)
(***************************************************************************)
EXTENDS InventoryStore

CONSTANT Relays   \* concurrent relays, one per weekly pipeline that runs

VARIABLES published,  \* events whose published_at is set
          telemetry,  \* rows of telemetry_events, by id
          relay       \* what each relay is doing

relayVars == <<published, telemetry, relay>>

Waiting == [at |-> "take"]

RelayInit == /\ published = {}
             /\ telemetry = {}
             /\ relay = [b \in Relays |-> Waiting]

\* FOR UPDATE SKIP LOCKED: the rows other relays hold are not seen.
Held == {relay[b].event : b \in {a \in Relays : relay[a] # Waiting}}

\* The oldest pending event is taken; events of one instant, in any order.
Takes(b) ==
  /\ relay[b] = Waiting
  /\ LET pending == outbox \ (published \cup Held) IN
     \E e \in pending :
       /\ \A f \in pending : e.at <= f.at
       /\ relay' = [relay EXCEPT ![b] = [at |-> "deliver", event |-> e]]
  /\ UNCHANGED <<published, telemetry>>

\* The destination transaction commits, ON CONFLICT DO NOTHING.
Delivers(b) ==
  /\ relay[b].at = "deliver"
  /\ telemetry' = telemetry \cup {relay[b].event}
  /\ relay' = [relay EXCEPT ![b].at = "acknowledge"]
  /\ UNCHANGED published

\* Mutant: an event whose delivery failed is marked as published.
DeliveryFails_Acknowledged(b) ==
  /\ relay[b].at = "deliver"
  /\ telemetry' \in {telemetry, telemetry \cup {relay[b].event}}
  /\ published' = published \cup {relay[b].event}
  /\ relay' = [relay EXCEPT ![b] = Waiting]

\* The destination fails, or its reply is lost: the attempt is counted and the
\* batch ends.
DeliveryFails(b) ==
  /\ relay[b].at = "deliver"
  /\ telemetry' \in {telemetry, telemetry \cup {relay[b].event}}
  /\ relay' = [relay EXCEPT ![b] = Waiting]
  /\ UNCHANGED published

\* The source transaction commits the acknowledgement.
Acknowledges(b) ==
  /\ relay[b].at = "acknowledge"
  /\ published' = published \cup {relay[b].event}
  /\ relay' = [relay EXCEPT ![b] = Waiting]
  /\ UNCHANGED telemetry

\* The relay is lost, or its source transaction fails: the row is pending again.
Lost(b) ==
  /\ relay[b] # Waiting
  /\ relay' = [relay EXCEPT ![b] = Waiting]
  /\ UNCHANGED <<published, telemetry>>

Relay(b) == Takes(b) \/ Delivers(b) \/ Acknowledges(b)

RelayNext == \E b \in Relays : Relay(b) \/ DeliveryFails(b) \/ Lost(b)
=============================================================================
