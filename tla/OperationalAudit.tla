-------------------------- MODULE OperationalAudit --------------------------
(***************************************************************************)
(* The audit of one closed week (pipelines/operational_coverage.py): does  *)
(* every business fact of the operational snapshot have its one event, is  *)
(* there an event for nothing else, and did all of them reach telemetry?   *)
(*                                                                         *)
(* A snapshot is a record of rows of the week: entries and exits of stock  *)
(* (movements), orders, dispatches, counts, checkpoints, outbox, and the   *)
(* identifiers of the outbox rows that are published.                      *)
(***************************************************************************)
EXTENDS WeeklyKpis

CONSTANTS OwnerOf,      \* the warehouse and client of each SKU
          NoThreshold,  \* sku.minimum_stock_threshold is NULL
          NoEvent       \* the event_id of a checkpoint without a crossing

\* A row of inventory_event_outbox.  Its event_id is fresh; the key that the
\* UNIQUE constraint gives it stands for it.
Event(type, source, owner, quantity, week) ==
  [id |-> <<type, source>>, type |-> type, source |-> source,
   owner |-> owner, quantity |-> quantity, week |-> week]

\* map_outbox_event_to_row: the row of telemetry that an event becomes.
RowOf(e) == [id |-> e.id, service |-> "api", type |-> e.type, identity |-> e.source,
             owner |-> e.owner, quantity |-> e.quantity, week |-> e.week]

OutboxOf(s, type, source) == {e \in s.outbox : e.type = type /\ e.source = source}

Entries(s) == {m \in s.movements : m.table = "stockentry"}

-----------------------------------------------------------------------------
(* What the snapshot must say, one operator for each loop of the audit. *)

EntriesAnnounced(s) ==
  \A m \in Entries(s) :
    OutboxOf(s, "inbound", m.id)
      = {Event("inbound", m.id, OwnerOf[m.sku], m.quantity, m.week)}

OrdersAnnounced(s) ==
  \A o \in s.orders :
    /\ \E d \in s.dispatches : d.order = o.id
    /\ OutboxOf(s, "outbound", o.id) = {Event("outbound", o.id, o.owner, 0, o.week)}

\* A checkpoint records the threshold of its moment, whatever it is now.
Crossed(m, c) ==
  /\ m.table = "stockexit"
  /\ c.threshold # NoThreshold
  /\ c.before > c.threshold
  /\ c.after <= c.threshold

CheckpointAgrees(m, c) ==
  /\ c.sku = m.sku
  /\ c.after = IF m.table = "stockentry" THEN c.before + m.quantity ELSE c.before - m.quantity
  /\ c.crossed = Crossed(m, c)
  /\ c.week = m.week

CrossingAnnounced(s, m, c) ==
  IF Crossed(m, c)
  THEN /\ OutboxOf(s, "threshold", m.id)
            = {Event("threshold", m.id, OwnerOf[m.sku], c.after, m.week)}
       /\ c.event = <<"threshold", m.id>>
  ELSE OutboxOf(s, "threshold", m.id) = {} /\ c.event = NoEvent

CheckpointsOf(s, m) == {c \in s.checkpoints : c.movement = m.id}

MovementsEvaluated(s) ==
  \A m \in s.movements :
    \E c \in s.checkpoints :
      CheckpointsOf(s, m) = {c} /\ CheckpointAgrees(m, c) /\ CrossingAnnounced(s, m, c)

Distance(a, b) == IF a > b THEN a - b ELSE b - a

Discrepant(c) == c.expected # c.observed

CountsAnnounced(s) ==
  \A c \in s.counts :
    OutboxOf(s, "discrepancy", c.id)
      = IF Discrepant(c)
        THEN {Event("discrepancy", c.id, OwnerOf[c.sku], Distance(c.observed, c.expected), c.week)}
        ELSE {}

\* The events that the facts of the snapshot account for.
ExpectedKeys(s) ==
  {<<"inbound", m.id>> : m \in Entries(s)}
  \cup {<<"outbound", o.id>> : o \in s.orders}
  \cup {<<"threshold", m.id>> : m \in {n \in s.movements :
                                         \E c \in CheckpointsOf(s, n) : Crossed(n, c)}}
  \cup {<<"discrepancy", c.id>> : c \in {d \in s.counts : Discrepant(d)}}

NothingElse(s) ==
  /\ {c.movement : c \in s.checkpoints} \subseteq {m.id : m \in s.movements}
  /\ {<<e.type, e.source>> : e \in s.outbox} = ExpectedKeys(s)

\* Mutant: a row that waits in the outbox passes when telemetry has it not.
Delivered_PendingPasses(s, rows) ==
  /\ {r.id : r \in rows} \subseteq {e.id : e \in s.outbox}
  /\ \A e \in s.outbox : e.id \in s.published => {r \in rows : r.id = e.id} = {RowOf(e)}

\* rows: what telemetry holds for the week, provenance api, official types only.
Delivered(s, rows) ==
  /\ {r.id : r \in rows} \subseteq {e.id : e \in s.outbox}
  /\ \A e \in s.outbox : e.id \in s.published /\ {r \in rows : r.id = e.id} = {RowOf(e)}

\* audit_operational_snapshot: lookup_complete, and the events it was about.
Audit(s, rows) ==
  LET complete == /\ EntriesAnnounced(s)
                  /\ OrdersAnnounced(s)
                  /\ MovementsEvaluated(s)
                  /\ CountsAnnounced(s)
                  /\ NothingElse(s)
                  /\ Delivered(s, rows)
  IN [complete |-> complete, events |-> IF complete THEN rows ELSE {}]

\* Mutant: the events are not compared with those that were audited.
Covered_NotCompared(audit, rows) == audit.complete

\* apply_operational_coverage clears coverage_pending for exactly the events that
\* were audited.
Covered(audit, rows) == audit.complete /\ rows = audit.events
=============================================================================
