----------------------------- MODULE WeeklyKpis -----------------------------
(***************************************************************************)
(* The four weekly indicators of a warehouse and client, calculated from   *)
(* rows of telemetry (pipelines/weekly_performance.py).  Everything here   *)
(* is an operator: the module has no state.                                *)
(*                                                                         *)
(* A row is [id, service, type, identity, owner, quantity, week].  Its     *)
(* owner is the pair of warehouse and client of its tags, its identity the *)
(* movement_id, order_id or count_id of its tags; NoOwner and NoIdentity   *)
(* stand for tags that are absent or not acceptable.                       *)
(***************************************************************************)
EXTENDS Integers, FiniteSets, FiniteSetsExt, Functions

CONSTANTS NoOwner,     \* a warehouse or client_id that cannot be accepted
          NoIdentity,  \* an absent or blank business identity
          MaxCount     \* POSTGRES_INTEGER_MAX

ASSUME MaxCountAssumption == MaxCount \in Nat \ {0}

OfficialTypes == {"inbound", "outbound", "threshold", "discrepancy"}

\* The identity under which repeated rows are the same business fact.
MovementKey(row) == <<row.type, row.identity>>

-----------------------------------------------------------------------------
(* Validation and deduplication: prepare_weekly_events. *)

\* Orders have no quantity; a threshold event may leave nothing in stock.
QuantityAccepted(row) ==
  CASE row.type = "outbound"  -> TRUE
    [] row.type = "threshold" -> row.quantity >= 0
    [] OTHER                  -> row.quantity >= 1

\* Mutant: the provenance of a row is not checked.
ValidEvent_AnyService(row) ==
  /\ row.type \in OfficialTypes
  /\ row.owner # NoOwner
  /\ row.identity # NoIdentity
  /\ QuantityAccepted(row)

\* _validate_event
ValidEvent(row) ==
  /\ row.type \in OfficialTypes
  /\ row.service = "api"
  /\ row.owner # NoOwner
  /\ row.identity # NoIdentity
  /\ QuantityAccepted(row)

\* Rows that share an identifier with a different row are all rejected.
ConflictingIds(rows) == {r.id : r \in {a \in rows : \E b \in rows : a.id = b.id /\ a # b}}

UniqueRows(rows) == {r \in rows : r.id \notin ConflictingIds(rows)}

Validated(rows) == {r \in UniqueRows(rows) : ValidEvent(r)}

Group(rows, key) == {r \in Validated(rows) : MovementKey(r) = key}

KeysOf(rows) == {MovementKey(r) : r \in Validated(rows)}

\* _movement_signature: what repetitions of one fact must agree on.
Signature(row) == [owner |-> row.owner, quantity |-> row.quantity, week |-> row.week]

\* _evidence_for_key.  Evidence is a function from keys to the weeks in which the
\* lookup, when it was complete, found them.
EvidenceIsMissing(evidence, key) == key \notin DOMAIN evidence

CrossWeek(rows, evidence, key) ==
  /\ ~EvidenceIsMissing(evidence, key)
  /\ \/ Cardinality(evidence[key]) > 1
     \/ evidence[key] # {r.week : r \in Group(rows, key)}

ConflictingKeys(rows, evidence) ==
  {k \in KeysOf(rows) : \/ Cardinality({Signature(r) : r \in Group(rows, k)}) > 1
                        \/ CrossWeek(rows, evidence, k)}

PendingKeys(rows, evidence) == {k \in KeysOf(rows) : EvidenceIsMissing(evidence, k)}

\* Mutant: repetitions of a fact are kept.
Prepared_NotConsolidated(rows, evidence) ==
  {r \in Validated(rows) : MovementKey(r) \notin ConflictingKeys(rows, evidence)}

\* prepare_weekly_events: one row for each identity without a conflict.
Prepared(rows, evidence) ==
  {CHOOSE r \in Group(rows, k) : TRUE : k \in KeysOf(rows) \ ConflictingKeys(rows, evidence)}

-----------------------------------------------------------------------------
(* The indicators.  An order record is [id, owner, dispatches].  *)

\* calculate_outbound_throughput: the order exists, is that of the event, and
\* something was dispatched for it.
IdentityMatches(event, order) == order.owner = event.owner /\ order.dispatches >= 1

OrdersNamed(event, records) == {o \in records : o.id = event.identity}

\* Mutant: an order without a record is presumed.
Verified_Presumed(event, records) ==
  \A o \in OrdersNamed(event, records) : IdentityMatches(event, o)

Verified(event, records) ==
  \E o \in OrdersNamed(event, records) : IdentityMatches(event, o)

\* The identity conflicts that calculate_outbound_throughput reports.
OrderConflicts(events, records) ==
  {MovementKey(e) : e \in {f \in events : /\ f.type = "outbound"
                                          /\ OrdersNamed(f, records) # {}
                                          /\ ~Verified(f, records)}}

Counted(events, records) == {e \in events : e.type # "outbound" \/ Verified(e, records)}

\* calculate_inbound_volume adds quantities, the other three count events.
Weight(event) == IF event.type = "inbound" THEN event.quantity ELSE 1

\* _group_metric_values, for one key and one indicator.
Total(events, owner, type) ==
  MapThenSumSet(Weight, {e \in events : e.owner = owner /\ e.type = type})

\* The counters of every key that has a contribution.
Totals(events) ==
  [o \in {e.owner : e \in events} |-> [t \in OfficialTypes |-> Total(events, o, t)]]

\* _postgres_integer_overflows, over the whole result.
Overflows(totals) == \E o \in DOMAIN totals : \E t \in OfficialTypes : totals[o][t] > MaxCount

\* transform_weekly_performance: the aggregates, and the diagnostics that decide
\* whether they may be published.  An overflow empties the whole result.
Transform(rows, evidence, records) ==
  LET events == Prepared(rows, evidence)
      totals == Totals(Counted(events, records))
  IN [aggregates |-> IF Overflows(totals) THEN <<>> ELSE totals,
      issues     |-> \/ Overflows(totals)
                     \/ ConflictingIds(rows) # {}
                     \/ Validated(rows) # UniqueRows(rows),
      conflicts  |-> ConflictingKeys(rows, evidence) \cup OrderConflicts(events, records),
      pending    |-> PendingKeys(rows, evidence)]
=============================================================================
