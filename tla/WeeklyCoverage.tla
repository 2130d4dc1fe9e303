--------------------------- MODULE WeeklyCoverage ---------------------------
(***************************************************************************)
(* From business facts to a certified weekly report.  Commands commit      *)
(* facts and their events in the operational database; relays carry the    *)
(* events to telemetry; browsers send telemetry of their own.  The weekly  *)
(* flow reads both databases in four snapshots, one after the other, while *)
(* all of that goes on: two for the audit, one for the events, one for the *)
(* orders.  Then it calculates, and its gate lets a report pass or not     *)
(* (pipelines/pipeline.py, operational_coverage.py, extraction.py,         *)
(* weekly_performance.py, coordinator.py, publication.py).                 *)
(*                                                                         *)
(* Week 1 is the week of the report, week 2 the one that follows.          *)
(***************************************************************************)
EXTENDS OperationalAudit

CONSTANTS SKUs,
          ThresholdOf,  \* sku.minimum_stock_threshold of each SKU
          Quantities,   \* what an entry may bring
          Beginnings,   \* movements of scripts/seed_inventory.py, without checkpoints and
                        \* events, and rows of telemetry from before there was an outbox
          Foreign,      \* rows that the browsers may send to POST /telemetry/events
          MaxCommands,  \* bound: commands that commit
          MaxOutages,   \* bound: reads that fail
          NoOrder,
          Nothing

VARIABLES movements, checkpoints, orders, counts, outbox, published,
          telemetry,    \* telemetry_events in the reporting database
          clock,        \* the week in which now falls
          stamp,        \* occurred_at of the command that has locked each SKU, or 0
          at,           \* the step of the weekly flow
          source,       \* the operational snapshot of the audit
          audit,        \* the result of the audit
          extracted,    \* the events of the week and the evidence of their weeks
          report,       \* the last report that passed the gate
          outages

tables   == <<movements, checkpoints, orders, counts, outbox>>
flowVars == <<at, source, audit, extracted, report, outages>>
vars     == <<tables, published, telemetry, clock, stamp, flowVars>>

Init ==
  /\ \E b \in Beginnings : movements = b.movements /\ telemetry = b.telemetry
  /\ checkpoints = {} /\ orders = {} /\ counts = {} /\ outbox = {} /\ published = {}
  /\ clock = 1
  /\ stamp = [s \in SKUs |-> 0]
  /\ at = "idle"
  /\ source = Nothing /\ audit = Nothing /\ extracted = Nothing /\ report = Nothing
  /\ outages = 0

-----------------------------------------------------------------------------
(* Commands, as services/api/inventory_service.py commits them: one transaction  *)
(* each, serialised by the lock of the SKU, stamped after the lock is held.      *)

Signed(m) == IF m.table = "stockentry" THEN m.quantity ELSE -m.quantity

Stock(rows, s) == MapThenSumSet(Signed, {m \in rows : m.sku = s})

\* What the seeds may leave: movements numbered by their sequence, which never took
\* out more than they had brought in.
ASSUME BeginningsAssumption ==
  \A b \in Beginnings :
    /\ IsFiniteSet(b.movements)
    /\ \A m \in b.movements :
         /\ m.id \in 1 .. Cardinality(b.movements)
         /\ m.table \in {"stockentry", "stockexit"}
         /\ m.sku \in SKUs /\ m.quantity \in Nat \ {0} /\ m.week \in 0 .. 2
    /\ \A m, n \in b.movements : m.id = n.id => m = n
    /\ \A s \in SKUs : Stock(b.movements, s) >= 0

\* A row of the API from before there was an outbox tells an entry that is there, or
\* an order that is gone and whose identifier no other order is given; what browsers
\* send is stored as theirs (map_event_to_row).
ASSUME HistoryAssumption ==
  /\ \A b \in Beginnings : \A r \in b.telemetry :
       r.service = "api" /\ r.type \in OfficialTypes =>
         \/ r.type = "outbound" /\ r.identity \notin Nat
         \/ r.type = "inbound" /\ \E m \in b.movements :
              /\ m.table = "stockentry" /\ r.identity = m.id /\ r.owner = OwnerOf[m.sku]
              /\ r.quantity = m.quantity /\ r.week = m.week
  /\ \A r \in Foreign : r.service # "api"

ASSUME BoundsAssumption == Quantities \subseteq Nat \ {0} /\ MaxOutages \in Nat

Begins(s) ==
  /\ stamp[s] = 0
  /\ Cardinality(checkpoints) + Cardinality(counts) < MaxCommands
  /\ stamp' = [stamp EXCEPT ![s] = clock]
  /\ UNCHANGED <<tables, published, telemetry, clock, flowVars>>

Ends(s) == /\ stamp[s] # 0
           /\ stamp' = [stamp EXCEPT ![s] = 0]
           /\ UNCHANGED <<published, telemetry, clock, flowVars>>

NewId == Cardinality(movements) + Cardinality(orders) + Cardinality(counts) + 1

Movement(id, table, s, q, order) ==
  [id |-> id, table |-> table, sku |-> s, quantity |-> q, week |-> stamp[s], order |-> order]

Crossing(s, before, after) ==
  ThresholdOf[s] # NoThreshold /\ before > ThresholdOf[s] /\ after <= ThresholdOf[s]

\* _record_threshold_evaluation
Checkpoint(m, before, crossed) ==
  [movement |-> m.id, sku |-> m.sku, before |-> before, after |-> before + Signed(m),
   threshold |-> ThresholdOf[m.sku], crossed |-> crossed,
   event |-> IF crossed THEN <<"threshold", m.id>> ELSE NoEvent, week |-> m.week]

\* create_stock_entry.  A SKU without a client leaves no event.
CommitsEntry(s, q) ==
  LET m == Movement(NewId, "stockentry", s, q, NoOrder)
  IN /\ Ends(s)
     /\ movements' = movements \cup {m}
     /\ checkpoints' = checkpoints \cup {Checkpoint(m, Stock(movements, s), FALSE)}
     /\ outbox' = IF OwnerOf[s] = NoOwner THEN outbox
                  ELSE outbox \cup {Event("inbound", m.id, OwnerOf[s], q, m.week)}
     /\ UNCHANGED <<orders, counts>>

\* Mutant: the stock is not compared with what goes out.
Suffices_Unchecked(before, m) == TRUE

\* InsufficientStockError otherwise.
Suffices(before, m) == before >= m.quantity

\* What an exit of one unit adds; announced are the events of its order.  A crossing
\* of a SKU without a client is refused (InventoryDataIntegrityError).
Exits(m, announced) ==
  LET before  == Stock(movements, m.sku)
      crossed == Crossing(m.sku, before, before - m.quantity)
  IN /\ Suffices(before, m)
     /\ crossed => OwnerOf[m.sku] # NoOwner
     /\ movements' = movements \cup {m}
     /\ checkpoints' = checkpoints \cup {Checkpoint(m, before, crossed)}
     /\ outbox' = outbox \cup announced \cup
                  IF crossed
                  THEN {Event("threshold", m.id, OwnerOf[m.sku], before - m.quantity, m.week)}
                  ELSE {}
     /\ UNCHANGED counts

\* create_stock_exit
CommitsExit(s) ==
  /\ Ends(s)
  /\ Exits(Movement(NewId, "stockexit", s, 1, NoOrder), {})
  /\ UNCHANGED orders

\* create_commercial_order with its first dispatch.
CommitsOrder(s) ==
  LET order == [id |-> NewId, owner |-> OwnerOf[s], week |-> stamp[s]]
  IN /\ OwnerOf[s] # NoOwner
     /\ Ends(s)
     /\ Exits(Movement(NewId + 1, "stockexit", s, 1, order.id),
              {Event("outbound", order.id, order.owner, 0, order.week)})
     /\ orders' = orders \cup {order}

\* append_commercial_order_dispatches
CommitsDispatch(s, order) ==
  /\ order.owner = OwnerOf[s]
  /\ Ends(s)
  /\ Exits(Movement(NewId, "stockexit", s, 1, order.id), {})
  /\ UNCHANGED orders

\* confirm_inventory_physical_count
CommitsCount(s, observed) ==
  LET expected == Stock(movements, s)
      c == [id |-> NewId, sku |-> s, expected |-> expected, observed |-> observed,
            week |-> stamp[s]]
  IN /\ OwnerOf[s] # NoOwner
     /\ Ends(s)
     /\ counts' = counts \cup {c}
     /\ outbox' = IF ~Discrepant(c) THEN outbox
                  ELSE outbox \cup {Event("discrepancy", c.id, OwnerOf[s],
                                          Distance(observed, expected), c.week)}
     /\ UNCHANGED <<movements, checkpoints, orders>>

RollsBack(s) == Ends(s) /\ UNCHANGED tables

Commits(s) ==
  \/ \E q \in Quantities : CommitsEntry(s, q)
  \/ CommitsExit(s)
  \/ CommitsOrder(s)
  \/ \E o \in orders : CommitsDispatch(s, o)
  \/ \E d \in {0, 1} : CommitsCount(s, Stock(movements, s) + d)
  \/ RollsBack(s)

-----------------------------------------------------------------------------
(* Telemetry. *)

\* Mutant: the acknowledgement of an event does not wait for its delivery.
Acknowledges_Early(e) ==
  /\ e.id \notin published
  /\ published' = published \cup {e.id}
  /\ UNCHANGED <<tables, telemetry, clock, stamp, flowVars>>

\* relay_inventory_outbox, for one event: the destination commits first.  Every run
\* of every week's flow starts with it.
Delivers(e) ==
  /\ e.id \notin published
  /\ telemetry' = telemetry \cup {RowOf(e)}
  /\ UNCHANGED <<tables, published, clock, stamp, flowVars>>

Acknowledges(e) ==
  /\ e.id \notin published
  /\ RowOf(e) \in telemetry
  /\ published' = published \cup {e.id}
  /\ UNCHANGED <<tables, telemetry, clock, stamp, flowVars>>

\* receive_events stores what passes the shape check, whatever its event_type.
ReceivesEvents(row) ==
  /\ telemetry' = telemetry \cup {row}
  /\ UNCHANGED <<tables, published, clock, stamp, flowVars>>

TurnsWeek == /\ clock = 1
             /\ clock' = 2
             /\ UNCHANGED <<tables, published, telemetry, stamp, flowVars>>

-----------------------------------------------------------------------------
(* The snapshots. *)

OfWeek(rows, w) == {r \in rows : r.week = w}

\* The source half of audit_operational_coverage: REPEATABLE READ.  Dispatches are
\* those of every week.
SourceSnapshot ==
  [movements   |-> OfWeek(movements, 1),
   orders      |-> OfWeek(orders, 1),
   dispatches  |-> {m \in movements : m.order # NoOrder},
   counts      |-> OfWeek(counts, 1),
   checkpoints |-> OfWeek(checkpoints, 1),
   outbox      |-> OfWeek(outbox, 1),
   published   |-> published]

\* The reporting half.
AuditedRows == {r \in OfWeek(telemetry, 1) : r.service = "api" /\ r.type \in OfficialTypes}

\* _EVENTS_SQL asks for the week and the types, not for the service.
WeeklyRows == {r \in OfWeek(telemetry, 1) : r.type \in OfficialTypes}

\* _MOVEMENT_LOOKUP_SQL: every week in which a key of the events occurs.
WeeksOf(rows) ==
  [k \in {MovementKey(r) : r \in {a \in rows : a.identity # NoIdentity}} |->
     {r.week : r \in {a \in telemetry : MovementKey(a) = k}}]

\* _COMMERCIAL_ORDER_SQL: the orders that the events name, joined with dispatches.
OrderRecords(rows) ==
  {[id |-> o.id, owner |-> o.owner,
    dispatches |-> Cardinality({m \in movements : m.order = o.id})] :
     o \in {p \in orders : /\ p.id \in {r.identity : r \in {a \in rows : a.type = "outbound"}}
                           /\ \E m \in movements : m.order = p.id}}

-----------------------------------------------------------------------------
(* What the indicators of the week are, from the facts alone: a reference for  *)
(* the properties.  A crossing is found by replaying the movements of its SKU. *)

BeforeMovement(m) == Stock({n \in movements : n.id < m.id}, m.sku)

ReallyCrossed(m) ==
  m.table = "stockexit" /\ Crossing(m.sku, BeforeMovement(m), BeforeMovement(m) - m.quantity)

Fact(id, sku, type, weight) == [id |-> id, owner |-> OwnerOf[sku], type |-> type, weight |-> weight]

Facts ==
  {Fact(m.id, m.sku, "inbound", m.quantity) :
     m \in {n \in OfWeek(movements, 1) : n.table = "stockentry"}}
  \cup {Fact(m.id, m.sku, "threshold", 1) : m \in {n \in OfWeek(movements, 1) : ReallyCrossed(n)}}
  \cup {Fact(c.id, c.sku, "discrepancy", 1) : c \in {d \in OfWeek(counts, 1) : Discrepant(d)}}
  \cup {[id |-> o.id, owner |-> o.owner, type |-> "outbound", weight |-> 1] : o \in OfWeek(orders, 1)}

WeightOf(f) == f.weight

Truth ==
  LET facts == Facts
  IN [o \in {f.owner : f \in facts} |->
        [t \in OfficialTypes |->
           MapThenSumSet(WeightOf, {f \in facts : f.owner = o /\ f.type = t})]]

-----------------------------------------------------------------------------
(* The weekly flow. *)

flowRest == <<tables, published, telemetry, clock, stamp>>

\* weekly_performance_flow of a closed week; its relay task has run (Delivers).
Starts == /\ at = "idle"
          /\ clock = 2
          /\ at' = "audit"
          /\ UNCHANGED <<flowRest, source, audit, extracted, report, outages>>

\* Truth is remembered beside the snapshot, for the properties only.
AuditsSource == /\ at = "audit"
                /\ at' = "audit_reporting"
                /\ source' = [snapshot |-> SourceSnapshot, truth |-> Truth]
                /\ UNCHANGED <<flowRest, audit, extracted, report, outages>>

AuditsReporting ==
  /\ at = "audit_reporting"
  /\ at' = "extract"
  /\ audit' = Audit(source.snapshot, AuditedRows)
  /\ source' = [source EXCEPT !.snapshot = Nothing]
  /\ UNCHANGED <<flowRest, extracted, report, outages>>

ExtractsEvents ==
  /\ at = "extract"
  /\ at' = "orders"
  /\ extracted' = [rows |-> WeeklyRows, evidence |-> WeeksOf(WeeklyRows), records |-> Nothing]
  /\ UNCHANGED <<flowRest, source, audit, report, outages>>

ExtractsOrders ==
  /\ at = "orders"
  /\ at' = "gate"
  /\ extracted' = [extracted EXCEPT !.records = OrderRecords(extracted.rows)]
  /\ UNCHANGED <<flowRest, source, audit, report, outages>>

Result == Transform(extracted.rows, extracted.evidence, extracted.records)

\* _pre_write_issues: validate_weekly_publication_batch, blocking_quality_issues and
\* _coverage_issues find nothing.
MayPublish(result) ==
  /\ result.aggregates # <<>>
  /\ ~result.issues
  /\ result.conflicts = {} /\ result.pending = {}
  /\ audit.complete
  /\ Covered(audit, extracted.rows)

Forgets == /\ at' = "idle"
           /\ source' = Nothing /\ audit' = Nothing /\ extracted' = Nothing

\* calculate_warehouse_client_indicators_flow and quality_gate_task.
Decides ==
  /\ at = "gate"
  /\ report' = IF MayPublish(Result)
               THEN [aggregates |-> Result.aggregates, truth |-> source.truth]
               ELSE report
  /\ Forgets
  /\ UNCHANGED <<flowRest, outages>>

\* A read fails: Prefect repeats the task from its first snapshot, or the flow ends.
ReadFails ==
  /\ at \in {"audit", "audit_reporting", "extract", "orders"}
  /\ outages < MaxOutages
  /\ outages' = outages + 1
  /\ \/ Forgets
     \/ /\ at' = IF at = "orders" THEN "extract" ELSE IF at = "audit_reporting" THEN "audit" ELSE at
        /\ source' = IF at' = "audit" THEN Nothing ELSE source
        /\ extracted' = Nothing
        /\ UNCHANGED audit
  /\ UNCHANGED <<flowRest, report>>

\* What the steps of Flow, and no others, do to the position of the flow.
StepAfter == [idle |-> "audit", audit |-> "audit_reporting", audit_reporting |-> "extract",
              extract |-> "orders", orders |-> "gate", gate |-> "idle"]

Advances == /\ at = "idle" => clock = 2
            /\ at' = StepAfter[at]
            /\ outages' = outages

Flow == Starts \/ AuditsSource \/ AuditsReporting \/ ExtractsEvents \/ ExtractsOrders \/ Decides

Next ==
  \/ \E s \in SKUs : Begins(s) \/ Commits(s)
  \/ \E e \in outbox : Delivers(e) \/ Acknowledges(e)
  \/ \E row \in Foreign : ReceivesEvents(row)
  \/ TurnsWeek
  \/ Flow
  \/ ReadFails

\* Live processes take their steps, and the flow of a week is run again and again:
\* nightly_export.py runs the latest closed week every night.
Fairness ==
  /\ \A s \in SKUs : WF_vars(Commits(s))
  /\ WF_vars(\E e \in outbox : Delivers(e) /\ telemetry' # telemetry)
  /\ WF_vars(\E e \in outbox : Acknowledges(e))
  /\ WF_vars(TurnsWeek)
  /\ WF_at(Advances)

Spec == Init /\ [][Next]_vars /\ Fairness

-----------------------------------------------------------------------------
(* Properties. *)

EventIds == {"inbound", "outbound", "threshold", "discrepancy"} \X Nat

\* The type invariant.
TypeOK ==
  /\ \A m \in movements : m.sku \in SKUs /\ m.week \in 0..2 /\ m.quantity \in Nat \ {0}
  /\ \A c \in checkpoints : c.movement \in {m.id : m \in movements} /\ c.after \in Nat
  /\ \A o \in orders : o.week \in {1, 2} /\ o.owner # NoOwner
  /\ \A c \in counts : c.sku \in SKUs /\ c.observed \in Nat
  /\ \A e \in outbox : e.id \in EventIds /\ e.owner # NoOwner
  /\ published \subseteq {e.id : e \in outbox}
  /\ telemetry \subseteq (UNION {b.telemetry : b \in Beginnings}) \cup Foreign \cup {RowOf(e) : e \in outbox}
  /\ clock \in {1, 2}
  /\ stamp \in [SKUs -> {0, 1, 2}]
  /\ at \in {"idle", "audit", "audit_reporting", "extract", "orders", "gate"}
  /\ outages \in 0..MaxOutages

\* A report that passed the gate says what happened: its numbers are those that the
\* movements, orders and counts themselves give, at the moment the audit read them.
\* Nothing is missing, counted twice or brought in from elsewhere, although four
\* snapshots were read while commands committed, relays delivered and reads failed.
CertifiedIsTrue == report # Nothing => report.aggregates = report.truth

\* Whatever telemetry holds, no indicator exceeds the facts: repeated rows of one fact,
\* rows of browsers, rows attributed to two weeks and orders that do not exist never
\* add to it, even in a result that the gate goes on to block.
NeverOvercounted ==
  at = "gate" =>
    LET numbers == Result.aggregates
        truth   == Truth
    IN \A o \in DOMAIN numbers : \A t \in OfficialTypes :
         numbers[o][t] > 0 => o \in DOMAIN truth /\ numbers[o][t] <= truth[o][t]

\* All facts of the week can be reported: they are complete, and nothing else is there.
Clean ==
  /\ clock = 2
  /\ \A s \in SKUs : stamp[s] # 1
  /\ {m.id : m \in OfWeek(movements, 1)} \subseteq {c.movement : c \in checkpoints}
  /\ {r.id : r \in telemetry} \subseteq {e.id : e \in outbox}
  /\ LET truth == Truth
     IN DOMAIN truth # {} /\ NoOwner \notin DOMAIN truth /\ ~Overflows(truth)

\* Every fact of a week is reported in the end, those that committed after midnight or
\* after a first report included, unless something in the week can never be covered.
EveryFactIsReported == <>[]Clean => <>[](report # Nothing /\ report.aggregates = Truth)
=============================================================================
