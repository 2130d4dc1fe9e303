------------------------ MODULE WeeklyCoverage_proofs ------------------------
(***************************************************************************)
(* Proofs about WeeklyCoverage for any SKUs, seeds and rows of telemetry:  *)
(* a report that passes the gate is what the movements, the orders and the *)
(* counts themselves say.                                                  *)
(***************************************************************************)
EXTENDS WeeklyCoverage, SumLemmas

-----------------------------------------------------------------------------
(* The inductive invariant. *)

\* Rows are numbered as they are inserted, and every number is used once.
Numbered(rows, next) ==
  /\ IsFiniteSet(rows)
  /\ \A r \in rows : r.id \in 1 .. next - 1
  /\ \A r, q \in rows : r.id = q.id => r = q

MovementsOK ==
  \A m \in movements : /\ m.table \in {"stockentry", "stockexit"}
                       /\ m.sku \in SKUs /\ m.quantity \in Nat \ {0} /\ m.week \in 0 .. 2

StockOK == \A s \in SKUs : Stock(movements, s) \in Nat

\* A checkpoint tells the stock that its movement found and left.
TrueCheckpoint(c) ==
  \E m \in movements :
    /\ m.id = c.movement
    /\ c.before = BeforeMovement(m) /\ c.after = BeforeMovement(m) + Signed(m)
    /\ c.after \in Nat
    /\ c.threshold = ThresholdOf[m.sku]

EventOK(e) == /\ e.type \in OfficialTypes /\ e.source \in Nat
              /\ e.id = <<e.type, e.source>>
              /\ e.owner # NoOwner /\ e.quantity \in Nat

TablesOK ==
  /\ Numbered(movements, NewId) /\ Numbered(orders, NewId) /\ Numbered(counts, NewId)
  /\ MovementsOK /\ StockOK
  /\ \A c \in checkpoints : TrueCheckpoint(c)
  /\ \A o \in orders : o.week \in {1, 2} /\ o.owner # NoOwner
  /\ \A c \in counts : c.sku \in SKUs /\ c.observed \in Nat /\ c.expected \in Nat
  /\ IsFiniteSet(outbox) /\ \A e \in outbox : EventOK(e)

AroundOK ==
  /\ published \subseteq {e.id : e \in outbox}
  /\ telemetry \subseteq
       (UNION {b.telemetry : b \in Beginnings}) \cup Foreign \cup {RowOf(e) : e \in outbox}
  /\ clock \in {1, 2}
  /\ stamp \in [SKUs -> {0, 1, 2}]
  /\ at \in {"idle", "audit", "audit_reporting", "extract", "orders", "gate"}
  /\ outages \in 0 .. MaxOutages

\* What the audit asks of the operational snapshot alone.
Explained(s) == /\ EntriesAnnounced(s) /\ OrdersAnnounced(s) /\ MovementsEvaluated(s)
                /\ CountsAnnounced(s) /\ NothingElse(s)

RowsOf(events) == {RowOf(e) : e \in events}

\* An order with something dispatched for it.
Dispatched(id, owner) == \E o \in orders : /\ o.id = id /\ o.owner = owner
                                           /\ \E m \in movements : m.order = o.id

\* The source snapshot that waits for the reporting half of the audit.
SourceOK ==
  at = "audit_reporting" =>
    /\ source = [snapshot |-> source.snapshot, truth |-> source.truth]
    /\ source.snapshot.outbox \subseteq outbox
    /\ Explained(source.snapshot) =>
         /\ source.truth = Totals(RowsOf(source.snapshot.outbox))
         /\ \A e \in source.snapshot.outbox :
              e.type = "outbound" => Dispatched(e.source, e.owner)

\* A complete audit holds the rows of the events of its snapshot.
AuditOK ==
  at \in {"extract", "orders", "gate"} /\ audit.complete =>
    /\ \E events \in SUBSET outbox :
         /\ audit.events = RowsOf(events)
         /\ \A e \in events : e.type = "outbound" => Dispatched(e.source, e.owner)
    /\ source.truth = Totals(audit.events)

\* The records of the orders that the audited rows name.
RecordsOK ==
  /\ at = "orders" =>
       extracted = [rows |-> extracted.rows, evidence |-> extracted.evidence, records |-> Nothing]
  /\ at = "gate" /\ audit.complete /\ extracted.rows = audit.events =>
       \A r \in extracted.rows : r.type = "outbound" => Verified(r, extracted.records)

IInv == /\ TablesOK /\ AroundOK
        /\ SourceOK /\ AuditOK /\ RecordsOK
        /\ CertifiedIsTrue

-----------------------------------------------------------------------------
(* The sums of the model: of signed quantities, and of weights. *)

SignedSums(S, it) ==
  it = [s \in SUBSET S |-> IF s = {} THEN 0 ELSE Signed(Chosen(s)) + it[s \ {Chosen(s)}]]

LEMMA SignedIsASum ==
  ASSUME NEW S, IsFiniteSet(S)
  PROVE  MapThenSumSet(Signed, S) = SumOf([m \in S |-> Signed(m)], S)
<1> DEFINE f == [m \in S |-> Signed(m)]
           it == CHOOSE it : SignedSums(S, it)
<1>1. MapThenSumSet(Signed, S) = it[S]
  BY DEF MapThenSumSet, MapThenFoldSet, SignedSums, Chosen
<1>2. ASSUME NEW a PROVE SignedSums(S, a) <=> Sums(f, S, a)
  <2>1. \A s \in SUBSET S : s # {} => Signed(Chosen(s)) = f[Chosen(s)] BY ChosenIsIn
  <2>2. [s \in SUBSET S |-> IF s = {} THEN 0 ELSE Signed(Chosen(s)) + a[s \ {Chosen(s)}]] =
        [s \in SUBSET S |-> IF s = {} THEN 0 ELSE f[Chosen(s)] + a[s \ {Chosen(s)}]]
    BY <2>1
  <2> QED BY <2>2 DEF SignedSums, Sums
<1> HIDE DEF f
<1>3. PICK a : Sums(f, S, a) BY SumsExist
<1>4. Sums(f, S, it) BY <1>2, <1>3
<1> QED BY <1>1, <1>4, SumsGiveTheSum DEF f

WeightSums(S, it) ==
  it = [s \in SUBSET S |-> IF s = {} THEN 0 ELSE Weight(Chosen(s)) + it[s \ {Chosen(s)}]]

LEMMA WeightIsASum ==
  ASSUME NEW S, IsFiniteSet(S)
  PROVE  MapThenSumSet(Weight, S) = SumOf([m \in S |-> Weight(m)], S)
<1> DEFINE f == [m \in S |-> Weight(m)]
           it == CHOOSE it : WeightSums(S, it)
<1>1. MapThenSumSet(Weight, S) = it[S]
  BY DEF MapThenSumSet, MapThenFoldSet, WeightSums, Chosen
<1>2. ASSUME NEW a PROVE WeightSums(S, a) <=> Sums(f, S, a)
  <2>1. \A s \in SUBSET S : s # {} => Weight(Chosen(s)) = f[Chosen(s)] BY ChosenIsIn
  <2>2. [s \in SUBSET S |-> IF s = {} THEN 0 ELSE Weight(Chosen(s)) + a[s \ {Chosen(s)}]] =
        [s \in SUBSET S |-> IF s = {} THEN 0 ELSE f[Chosen(s)] + a[s \ {Chosen(s)}]]
    BY <2>1
  <2> QED BY <2>2 DEF WeightSums, Sums
<1> HIDE DEF f
<1>3. PICK a : Sums(f, S, a) BY SumsExist
<1>4. Sums(f, S, it) BY <1>2, <1>3
<1> QED BY <1>1, <1>4, SumsGiveTheSum DEF f

FactSums(S, it) ==
  it = [s \in SUBSET S |-> IF s = {} THEN 0 ELSE WeightOf(Chosen(s)) + it[s \ {Chosen(s)}]]

LEMMA FactsAreASum ==
  ASSUME NEW S, IsFiniteSet(S)
  PROVE  MapThenSumSet(WeightOf, S) = SumOf([m \in S |-> WeightOf(m)], S)
<1> DEFINE f == [m \in S |-> WeightOf(m)]
           it == CHOOSE it : FactSums(S, it)
<1>1. MapThenSumSet(WeightOf, S) = it[S]
  BY DEF MapThenSumSet, MapThenFoldSet, FactSums, Chosen
<1>2. ASSUME NEW a PROVE FactSums(S, a) <=> Sums(f, S, a)
  <2>1. \A s \in SUBSET S : s # {} => WeightOf(Chosen(s)) = f[Chosen(s)] BY ChosenIsIn
  <2>2. [s \in SUBSET S |-> IF s = {} THEN 0 ELSE WeightOf(Chosen(s)) + a[s \ {Chosen(s)}]] =
        [s \in SUBSET S |-> IF s = {} THEN 0 ELSE f[Chosen(s)] + a[s \ {Chosen(s)}]]
    BY <2>1
  <2> QED BY <2>2 DEF FactSums, Sums
<1> HIDE DEF f
<1>3. PICK a : Sums(f, S, a) BY SumsExist
<1>4. Sums(f, S, it) BY <1>2, <1>3
<1> QED BY <1>1, <1>4, SumsGiveTheSum DEF f

SkuRows(rows, s) == {m \in rows : m.sku = s}

LEMMA StockIsASum ==
  ASSUME NEW rows, NEW s
  PROVE  Stock(rows, s) = MapThenSumSet(Signed, SkuRows(rows, s))
BY DEF Stock, SkuRows

\* A movement adds to the stock of its SKU what it brings, and to no other.
LEMMA StockWith ==
  ASSUME NEW rows, IsFiniteSet(rows), NEW m, m \notin rows,
         \A n \in rows \cup {m} : Signed(n) \in Int
  PROVE  /\ Stock(rows \cup {m}, m.sku) = Stock(rows, m.sku) + Signed(m)
         /\ \A s : s # m.sku => Stock(rows \cup {m}, s) = Stock(rows, s)
         /\ Stock(rows, m.sku) \in Int
<1> DEFINE S == SkuRows(rows \cup {m}, m.sku)
           R == SkuRows(rows, m.sku)
           f == [n \in S |-> Signed(n)]
           g == [n \in R |-> Signed(n)]
<1>1. IsFiniteSet(R) /\ R \subseteq rows BY FS_Subset DEF SkuRows
<1>2. S = R \cup {m} /\ S \ {m} = R /\ m \in S BY DEF SkuRows
<1>3. IsFiniteSet(S)
  <2>1. IsFiniteSet(R \cup {m}) BY <1>1, FS_AddElement
  <2> QED BY <1>2, <2>1
<1>4. /\ \A n \in S : f[n] \in Int
      /\ \A n \in R : g[n] \in Int /\ g[n] = f[n]
      /\ f[m] = Signed(m)
  BY <1>1, <1>2
<1>5. Stock(rows \cup {m}, m.sku) = SumOf(f, S)
  <2>1. Stock(rows \cup {m}, m.sku) = MapThenSumSet(Signed, S) BY StockIsASum
  <2> QED BY <1>3, <2>1, SignedIsASum
<1>6. Stock(rows, m.sku) = SumOf(g, R)
  <2>1. Stock(rows, m.sku) = MapThenSumSet(Signed, R) BY StockIsASum
  <2> QED BY <1>1, <2>1, SignedIsASum
<1>7. ASSUME NEW s, s # m.sku PROVE Stock(rows \cup {m}, s) = Stock(rows, s)
  <2>1. SkuRows(rows \cup {m}, s) = SkuRows(rows, s) BY <1>7 DEF SkuRows
  <2> QED BY <2>1, StockIsASum, Zenon
<1> HIDE DEF f, g, S, R
<1>8. SumOf(f, S) = f[m] + SumOf(f, S \ {m}) BY <1>2, <1>3, <1>4, SumOfWithout
<1>9. SumOf(f, S \ {m}) = SumOf(f, R) BY <1>2, Zenon
<1>10. SumOf(g, R) = SumOf(f, R) /\ SumOf(g, R) \in Int BY <1>1, <1>4, SumOfSame, SumOfType
<1>11. Signed(m) \in Int OBVIOUS
<1>12. SumOf(f, S) = SumOf(g, R) + Signed(m) BY <1>4, <1>8, <1>9, <1>10, <1>11
<1> QED BY <1>5, <1>6, <1>7, <1>10, <1>12

-----------------------------------------------------------------------------
(* Facts and rows that correspond one to one have the same totals. *)

FactsFor(facts, o, t) == {f \in facts : f.owner = o /\ f.type = t}

TotalOfFacts(facts, o, t) == MapThenSumSet(WeightOf, {f \in facts : f.owner = o /\ f.type = t})

TruthOf(facts) ==
  [o \in {f.owner : f \in facts} |-> [t \in OfficialTypes |-> TotalOfFacts(facts, o, t)]]

LEMMA SameTotals ==
  ASSUME NEW F, NEW R, IsFiniteSet(F), NEW h,
         \A f \in F : /\ h[f] \in R /\ h[f].owner = f.owner /\ h[f].type = f.type
                      /\ Weight(h[f]) = f.weight /\ f.weight \in Int,
         \A r \in R : \E f \in F : h[f] = r,
         \A f, g \in F : h[f] = h[g] => f = g
  PROVE  TruthOf(F) = Totals(R)
<1>1. {f.owner : f \in F} = {r.owner : r \in R} OBVIOUS
<1>2. ASSUME NEW o, NEW t
      PROVE  TotalOfFacts(F, o, t) = Total(R, o, t)
  <2> DEFINE S == FactsFor(F, o, t)
             Q == {r \in R : r.owner = o /\ r.type = t}
             w == [f \in S |-> WeightOf(f)]
             v == [r \in Q |-> Weight(r)]
  <2>1. Q = {h[f] : f \in S} BY DEF FactsFor
  <2>2. IsFiniteSet(S) BY FS_Subset DEF FactsFor
  <2>3. IsFiniteSet(Q)
    <3> DEFINE H == [f \in S |-> h[f]]
    <3>1. H \in Surjection(S, Q) BY <2>1 DEF Surjection
    <3> HIDE DEF H, S, Q
    <3> QED BY <2>2, <3>1, FS_Surjection
  <2>4. MapThenSumSet(WeightOf, S) = SumOf(w, S)
    <3> HIDE DEF S
    <3> QED BY <2>2, FactsAreASum
  <2>5. MapThenSumSet(Weight, Q) = SumOf(v, Q)
    <3> HIDE DEF Q
    <3> QED BY <2>3, WeightIsASum
  <2>6. \A f \in S : w[f] \in Int /\ v[h[f]] = w[f] BY <2>1 DEF FactsFor, WeightOf
  <2>7. \A f, g \in S : h[f] = h[g] => f = g BY DEF FactsFor
  <2>8. SumOf(w, S) = SumOf(v, {h[f] : f \in S})
    <3> HIDE DEF S, w, v
    <3> QED BY <2>2, <2>6, <2>7, SumOfImage
  <2>9. SumOf(v, {h[f] : f \in S}) = SumOf(v, Q)
    <3> HIDE DEF S, Q, v
    <3> QED BY <2>1, Zenon
  <2>10. TotalOfFacts(F, o, t) = MapThenSumSet(WeightOf, S) BY DEF FactsFor, TotalOfFacts
  <2>11. Total(R, o, t) = MapThenSumSet(Weight, Q) BY DEF Total
  <2> HIDE DEF S, Q, w, v
  <2> QED BY <2>4, <2>5, <2>8, <2>9, <2>10, <2>11
<1>3. TruthOf(F) = [o \in {r.owner : r \in R} |-> [t \in OfficialTypes |-> Total(R, o, t)]]
  BY <1>1, <1>2 DEF TruthOf
<1> QED BY <1>3 DEF Totals

-----------------------------------------------------------------------------
(* What an audited snapshot says of the facts of its week. *)

\* Whether a movement crossed its threshold, its checkpoint tells.
LEMMA CheckpointTells ==
  ASSUME TablesOK, NEW m \in movements, NEW c \in checkpoints, c.movement = m.id,
         CheckpointAgrees(m, c)
  PROVE  Crossed(m, c) <=> ReallyCrossed(m)
<1>1. c.before = BeforeMovement(m) /\ c.threshold = ThresholdOf[m.sku]
  BY DEF TablesOK, TrueCheckpoint, Numbered
<1>2. m.table = "stockexit" => c.after = c.before - m.quantity BY DEF CheckpointAgrees
<1> QED BY <1>1, <1>2 DEF Crossed, ReallyCrossed, Crossing

Corresponds(f, e) == /\ e.type = f.type /\ e.source = f.id /\ e.owner = f.owner
                     /\ Weight(RowOf(e)) = f.weight /\ f.weight \in Int

LEMMA SnapshotFields ==
  /\ SourceSnapshot.movements = OfWeek(movements, 1)
  /\ SourceSnapshot.orders = OfWeek(orders, 1)
  /\ SourceSnapshot.counts = OfWeek(counts, 1)
  /\ SourceSnapshot.checkpoints = OfWeek(checkpoints, 1)
  /\ SourceSnapshot.outbox = OfWeek(outbox, 1)
BY DEF SourceSnapshot

\* What an event of the right type, source and owner says of a fact.
Announces(s, f) == \E e : /\ OutboxOf(s, f.type, f.id) = {e}
                          /\ Corresponds(f, e)

LEMMA FactIsAnnounced ==
  ASSUME NEW s, NEW id, NEW type \in OfficialTypes, NEW owner, NEW q \in Int, NEW week,
         NEW weight, weight = IF type = "inbound" THEN q ELSE 1,
         OutboxOf(s, type, id) = {Event(type, id, owner, q, week)},
         NEW f, f = [id |-> id, owner |-> owner, type |-> type, weight |-> weight]
  PROVE  /\ f = [id |-> f.id, owner |-> f.owner, type |-> f.type, weight |-> f.weight]
         /\ f.type \in OfficialTypes
         /\ Announces(s, f)
<1> DEFINE e == Event(type, id, owner, q, week)
<1>1. /\ e.type = type /\ e.source = id /\ e.owner = owner /\ e.quantity = q
  BY DEF Event
<1>2. RowOf(e).type = type /\ RowOf(e).quantity = q BY <1>1 DEF RowOf
<1>3. Weight(RowOf(e)) = weight BY <1>2 DEF Weight
<1>4. f.id = id /\ f.owner = owner /\ f.type = type /\ f.weight = weight OBVIOUS
<1> HIDE DEF e
<1>5. Corresponds(f, e) BY <1>1, <1>3, <1>4 DEF Corresponds
<1>6. OutboxOf(s, f.type, f.id) = {e} BY <1>4 DEF e
<1> QED BY <1>4, <1>5, <1>6 DEF Announces

\* The four kinds of facts, and what the audit finds for each of them.
LEMMA FactsAnnounced ==
  ASSUME TablesOK, NEW s, s = SourceSnapshot, Explained(s), NEW f \in Facts
  PROVE  /\ f = [id |-> f.id, owner |-> f.owner, type |-> f.type, weight |-> f.weight]
         /\ f.type \in OfficialTypes
         /\ Announces(s, f)
<1>1. CASE \E m \in OfWeek(movements, 1) : /\ m.table = "stockentry"
                                           /\ f = Fact(m.id, m.sku, "inbound", m.quantity)
  <2>1. PICK m \in OfWeek(movements, 1) : /\ m.table = "stockentry"
                                          /\ f = Fact(m.id, m.sku, "inbound", m.quantity)
    BY <1>1
  <2>2. OutboxOf(s, "inbound", m.id) = {Event("inbound", m.id, OwnerOf[m.sku], m.quantity, m.week)}
    BY <2>1, SnapshotFields DEF Explained, EntriesAnnounced, Entries
  <2>3. m.quantity \in Int BY DEF OfWeek, TablesOK, MovementsOK
  <2>4. "inbound" \in OfficialTypes BY DEF OfficialTypes
  <2> QED BY <2>1, <2>2, <2>3, <2>4, FactIsAnnounced DEF Fact
<1>2. CASE \E m \in OfWeek(movements, 1) : /\ ReallyCrossed(m)
                                           /\ f = Fact(m.id, m.sku, "threshold", 1)
  <2>1. PICK m \in OfWeek(movements, 1) : /\ ReallyCrossed(m)
                                          /\ f = Fact(m.id, m.sku, "threshold", 1)
    BY <1>2
  <2>2. PICK c \in s.checkpoints : /\ CheckpointsOf(s, m) = {c} /\ CheckpointAgrees(m, c)
                                   /\ CrossingAnnounced(s, m, c)
    BY SnapshotFields DEF Explained, MovementsEvaluated
  <2>3. c \in checkpoints /\ c.movement = m.id /\ m \in movements
    BY <2>2, SnapshotFields DEF CheckpointsOf, OfWeek
  <2>4. Crossed(m, c) BY <2>1, <2>2, <2>3, CheckpointTells
  <2>5. OutboxOf(s, "threshold", m.id) =
          {Event("threshold", m.id, OwnerOf[m.sku], c.after, m.week)}
    BY <2>2, <2>4 DEF CrossingAnnounced
  <2>6. c.after \in Int BY <2>3 DEF TablesOK, TrueCheckpoint
  <2>7. "threshold" \in OfficialTypes BY DEF OfficialTypes
  <2> QED BY <2>1, <2>5, <2>6, <2>7, FactIsAnnounced DEF Fact
<1>3. CASE \E k \in OfWeek(counts, 1) : /\ Discrepant(k)
                                        /\ f = Fact(k.id, k.sku, "discrepancy", 1)
  <2>1. PICK k \in OfWeek(counts, 1) : /\ Discrepant(k)
                                       /\ f = Fact(k.id, k.sku, "discrepancy", 1)
    BY <1>3
  <2>2. OutboxOf(s, "discrepancy", k.id) =
          {Event("discrepancy", k.id, OwnerOf[k.sku], Distance(k.observed, k.expected), k.week)}
    BY <2>1, SnapshotFields DEF Explained, CountsAnnounced
  <2>3. Distance(k.observed, k.expected) \in Int BY DEF Distance, OfWeek, TablesOK
  <2>4. "discrepancy" \in OfficialTypes BY DEF OfficialTypes
  <2> QED BY <2>1, <2>2, <2>3, <2>4, FactIsAnnounced DEF Fact
<1>4. CASE \E o \in OfWeek(orders, 1) :
             f = [id |-> o.id, owner |-> o.owner, type |-> "outbound", weight |-> 1]
  <2>1. PICK o \in OfWeek(orders, 1) :
             f = [id |-> o.id, owner |-> o.owner, type |-> "outbound", weight |-> 1]
    BY <1>4
  <2>2. OutboxOf(s, "outbound", o.id) = {Event("outbound", o.id, o.owner, 0, o.week)}
    BY SnapshotFields DEF Explained, OrdersAnnounced
  <2>3. "outbound" \in OfficialTypes BY DEF OfficialTypes
  <2> QED BY <2>1, <2>2, <2>3, FactIsAnnounced
<1> QED BY <1>1, <1>2, <1>3, <1>4 DEF Facts

\* And every event of the snapshot is of one of them.
LEMMA EventsAreFacts ==
  ASSUME TablesOK, NEW s, s = SourceSnapshot, Explained(s), NEW e \in s.outbox
  PROVE  \E f \in Facts : f.type = e.type /\ f.id = e.source
<1>1. <<e.type, e.source>> \in ExpectedKeys(s) BY DEF Explained, NothingElse
<1>2. CASE \E m \in Entries(s) : <<e.type, e.source>> = <<"inbound", m.id>>
  <2>1. PICK m \in Entries(s) : <<e.type, e.source>> = <<"inbound", m.id>> BY <1>2
  <2>2. Fact(m.id, m.sku, "inbound", m.quantity) \in Facts
    BY <2>1, SnapshotFields DEF Entries, Facts
  <2> QED BY <2>1, <2>2 DEF Fact
<1>3. CASE \E o \in s.orders : <<e.type, e.source>> = <<"outbound", o.id>>
  <2>1. PICK o \in s.orders : <<e.type, e.source>> = <<"outbound", o.id>> BY <1>3
  <2>2. [id |-> o.id, owner |-> o.owner, type |-> "outbound", weight |-> 1] \in Facts
    BY <2>1, SnapshotFields DEF Facts
  <2> QED BY <2>1, <2>2
<1>4. CASE \E m \in s.movements : /\ \E c \in CheckpointsOf(s, m) : Crossed(m, c)
                                  /\ <<e.type, e.source>> = <<"threshold", m.id>>
  <2>1. PICK m \in s.movements : /\ \E c \in CheckpointsOf(s, m) : Crossed(m, c)
                                 /\ <<e.type, e.source>> = <<"threshold", m.id>>
    BY <1>4
  <2>2. PICK c \in s.checkpoints : /\ CheckpointsOf(s, m) = {c} /\ CheckpointAgrees(m, c)
    BY <2>1 DEF Explained, MovementsEvaluated
  <2>3. c \in checkpoints /\ c.movement = m.id /\ m \in OfWeek(movements, 1) /\ m \in movements
    BY <2>1, <2>2, SnapshotFields DEF CheckpointsOf, OfWeek
  <2>4. ReallyCrossed(m) BY <2>1, <2>2, <2>3, CheckpointTells
  <2>5. Fact(m.id, m.sku, "threshold", 1) \in Facts BY <2>3, <2>4 DEF Facts
  <2> QED BY <2>1, <2>5 DEF Fact
<1>5. CASE \E k \in s.counts : Discrepant(k) /\ <<e.type, e.source>> = <<"discrepancy", k.id>>
  <2>1. PICK k \in s.counts : Discrepant(k) /\ <<e.type, e.source>> = <<"discrepancy", k.id>>
    BY <1>5
  <2>2. Fact(k.id, k.sku, "discrepancy", 1) \in Facts BY <2>1, SnapshotFields DEF Facts
  <2> QED BY <2>1, <2>2 DEF Fact
<1> QED BY <1>1, <1>2, <1>3, <1>4, <1>5 DEF ExpectedKeys

\* The totals of the events of an explained snapshot are the truth of its week.
LEMMA ExplainedIsTrue ==
  ASSUME TablesOK, NEW s, s = SourceSnapshot, Explained(s)
  PROVE  Truth = Totals(RowsOf(s.outbox))
<1> DEFINE F == Facts
           R == RowsOf(s.outbox)
           event == [f \in F |-> CHOOSE e : OutboxOf(s, f.type, f.id) = {e}]
           h == [f \in F |-> RowOf(event[f])]
<1>1. ASSUME NEW f \in F
      PROVE  /\ OutboxOf(s, f.type, f.id) = {event[f]} /\ Corresponds(f, event[f])
             /\ event[f] \in s.outbox
             /\ f = [id |-> f.id, owner |-> f.owner, type |-> f.type, weight |-> f.weight]
  <2>1. OutboxOf(s, f.type, f.id) = {event[f]} BY FactsAnnounced DEF Announces
  <2>2. Corresponds(f, event[f])
    <3>1. PICK e : OutboxOf(s, f.type, f.id) = {e} /\ Corresponds(f, e)
      BY FactsAnnounced DEF Announces
    <3>2. e = event[f] BY <2>1, <3>1
    <3> QED BY <3>1, <3>2
  <2>3. event[f] \in s.outbox BY <2>1 DEF OutboxOf
  <2> QED BY <2>1, <2>2, <2>3, FactsAnnounced
<1>2. ASSUME NEW e \in s.outbox PROVE \E f \in F : event[f] = e
  <2>1. PICK f \in F : f.type = e.type /\ f.id = e.source BY EventsAreFacts
  <2>2. e \in OutboxOf(s, f.type, f.id) BY <2>1 DEF OutboxOf
  <2> QED BY <1>1, <2>2
<1>3. \A f \in F : /\ h[f] \in R /\ h[f].owner = f.owner /\ h[f].type = f.type
                   /\ h[f].identity = f.id
                   /\ Weight(h[f]) = f.weight /\ f.weight \in Int
  BY <1>1 DEF RowsOf, RowOf, Corresponds
<1>4. \A r \in R : \E f \in F : h[f] = r
  <2> SUFFICES ASSUME NEW r \in R PROVE \E f \in F : h[f] = r
    OBVIOUS
  <2>1. PICK e \in s.outbox : r = RowOf(e) BY DEF RowsOf
  <2>2. PICK f \in F : event[f] = e BY <1>2
  <2>3. h[f] = RowOf(event[f]) OBVIOUS
  <2> HIDE DEF event, h, F
  <2> QED BY <2>1, <2>2, <2>3, Zenon
<1>5. \A f, g \in F : h[f] = h[g] => f = g
  <2> SUFFICES ASSUME NEW f \in F, NEW g \in F, h[f] = h[g] PROVE f = g
    OBVIOUS
  <2> HIDE DEF h, event, F
  <2> QED BY <1>1, <1>3
<1>6. IsFiniteSet(F)
  <2>1. IsFiniteSet(s.outbox) BY SnapshotFields, FS_Subset DEF TablesOK, OfWeek
  <2>2. IsFiniteSet(R)
    <3> DEFINE row == [e \in s.outbox |-> RowOf(e)]
    <3>1. row \in Surjection(s.outbox, R) BY DEF Surjection, RowsOf
    <3> HIDE DEF row, R
    <3> QED BY <2>1, <3>1, FS_Surjection
  <2>3. h \in Injection(F, R) BY <1>3, <1>5 DEF Injection, IsInjective
  <2> HIDE DEF h, R, F
  <2> QED BY <2>2, <2>3, FS_Injection
<1>7. Truth = TruthOf(F) BY DEF Truth, TruthOf, TotalOfFacts
<1> HIDE DEF h, R, F
<1>8. TruthOf(F) = Totals(R) BY <1>3, <1>4, <1>5, <1>6, SameTotals
<1> QED BY <1>7, <1>8 DEF R

-----------------------------------------------------------------------------
(* What the calculation makes of audited rows. *)

\* A calculation without a diagnostic lost nothing and merged nothing.
LEMMA CalculatesTheTotals ==
  ASSUME NEW rows, NEW evidence, NEW records,
         \A r \in rows : r.id = MovementKey(r),
         \A r \in rows : r.type = "outbound" => Verified(r, records),
         ~Transform(rows, evidence, records).issues,
         Transform(rows, evidence, records).conflicts = {}
  PROVE  Transform(rows, evidence, records).aggregates = Totals(rows)
<1> DEFINE events == Prepared(rows, evidence)
           totals == Totals(Counted(events, records))
<1>1. /\ ~Overflows(totals)
      /\ ConflictingIds(rows) = {} /\ Validated(rows) = UniqueRows(rows)
      /\ ConflictingKeys(rows, evidence) = {}
      /\ Transform(rows, evidence, records).aggregates = totals
  BY DEF Transform
<1>2. Validated(rows) = rows BY <1>1 DEF UniqueRows
<1>3. \A a, b \in rows : a.id = b.id => a = b BY <1>1 DEF ConflictingIds
<1>4. ASSUME NEW r \in rows PROVE Group(rows, MovementKey(r)) = {r}
  BY <1>2, <1>3 DEF Group
<1>5. KeysOf(rows) \ ConflictingKeys(rows, evidence) = {MovementKey(r) : r \in rows}
  BY <1>1, <1>2 DEF KeysOf
<1>6. ASSUME NEW r \in rows PROVE (CHOOSE q \in Group(rows, MovementKey(r)) : TRUE) = r
  BY <1>4
<1>7. events = rows
  <2>1. events = {CHOOSE q \in Group(rows, k) : TRUE : k \in {MovementKey(r) : r \in rows}}
    BY <1>5 DEF Prepared
  <2>2. events \subseteq rows BY <1>6, <2>1
  <2>3. ASSUME NEW r \in rows PROVE r \in events
    <3>1. MovementKey(r) \in {MovementKey(q) : q \in rows} OBVIOUS
    <3> HIDE DEF events
    <3> QED BY <1>6, <2>1, <3>1
  <2> HIDE DEF events
  <2> QED BY <2>2, <2>3
<1>8. Counted(events, records) = rows BY <1>7 DEF Counted
<1>9. totals = Totals(rows)
  <2> HIDE DEF events
  <2> QED BY <1>8, Zenon
<1> HIDE DEF totals
<1> QED BY <1>1, <1>9

\* Rows of outbox events are identified by their business key.
LEMMA RowsOfEvents ==
  ASSUME NEW events, \A e \in events : EventOK(e), NEW r \in RowsOf(events)
  PROVE  /\ r.id = MovementKey(r)
         /\ \E e \in events : /\ r = RowOf(e) /\ r.type = e.type /\ r.identity = e.source
                               /\ r.owner = e.owner /\ r.id = e.id
<1>1. PICK e \in events : r = RowOf(e) BY DEF RowsOf
<1>2. r.type = e.type /\ r.identity = e.source /\ r.owner = e.owner /\ r.id = e.id
  BY <1>1 DEF RowOf
<1> QED BY <1>1, <1>2 DEF EventOK, MovementKey

-----------------------------------------------------------------------------
(* The steps of the flow that read. *)

\* A complete audit holds what telemetry has, and that is the rows of the outbox.
LEMMA AuditIsExplained ==
  ASSUME NEW s, NEW rows, Audit(s, rows).complete
  PROVE  Explained(s) /\ rows = RowsOf(s.outbox) /\ Audit(s, rows).events = rows
<1>1. Explained(s) /\ Delivered(s, rows) BY DEF Audit, Explained
<1>2. Audit(s, rows).events = rows BY DEF Audit
<1>3. \A e \in s.outbox : RowOf(e) \in rows BY <1>1 DEF Delivered
<1>4. ASSUME NEW r \in rows PROVE \E e \in s.outbox : r = RowOf(e)
  <2>1. PICK e \in s.outbox : e.id = r.id BY <1>1 DEF Delivered
  <2>2. {q \in rows : q.id = e.id} = {RowOf(e)} BY <1>1 DEF Delivered
  <2> QED BY <2>1, <2>2
<1> QED BY <1>1, <1>2, <1>3, <1>4 DEF RowsOf

\* The orders of an explained snapshot have dispatches.
LEMMA ExplainedOrders ==
  ASSUME TablesOK, NEW s, s = SourceSnapshot, Explained(s), NEW e \in s.outbox,
         e.type = "outbound"
  PROVE  Dispatched(e.source, e.owner)
<1>1. PICK o \in s.orders : e.source = o.id
  <2>1. <<e.type, e.source>> \in ExpectedKeys(s) BY DEF Explained, NothingElse
  <2> QED BY <2>1 DEF ExpectedKeys
<1>2. OutboxOf(s, "outbound", o.id) = {Event("outbound", o.id, o.owner, 0, o.week)}
  BY DEF Explained, OrdersAnnounced
<1>3. e \in OutboxOf(s, "outbound", o.id) BY <1>1 DEF OutboxOf
<1>4. e.owner = o.owner BY <1>2, <1>3 DEF Event
<1>5. o \in orders BY SnapshotFields DEF OfWeek
<1>6. PICK m \in s.dispatches : m.order = o.id BY DEF Explained, OrdersAnnounced
<1>7. m \in movements BY <1>6 DEF SourceSnapshot
<1> QED BY <1>1, <1>4, <1>5, <1>6, <1>7 DEF Dispatched

\* An order that is dispatched has a record that verifies its event.
LEMMA DispatchedIsVerified ==
  ASSUME TablesOK, NEW rows, NEW r \in rows, r.type = "outbound",
         Dispatched(r.identity, r.owner)
  PROVE  Verified(r, OrderRecords(rows))
<1>1. PICK o \in orders : /\ o.id = r.identity /\ o.owner = r.owner
                          /\ \E m \in movements : m.order = o.id
  BY DEF Dispatched
<1> DEFINE D == {m \in movements : m.order = o.id}
           record == [id |-> o.id, owner |-> o.owner, dispatches |-> Cardinality(D)]
<1>2. record \in OrderRecords(rows) BY <1>1 DEF OrderRecords
<1>3. Cardinality(D) >= 1
  <2>1. IsFiniteSet(D) BY FS_Subset DEF TablesOK, Numbered
  <2>2. D # {} BY <1>1
  <2> HIDE DEF D
  <2>3. Cardinality(D) \in Nat /\ Cardinality(D) # 0
    BY <2>1, <2>2, FS_CardinalityType, FS_EmptySet
  <2> QED BY <2>3
<1>4. record.id = r.identity /\ record.owner = r.owner /\ record.dispatches >= 1
  BY <1>1, <1>3
<1> HIDE DEF record
<1> QED BY <1>2, <1>4 DEF Verified, OrdersNamed, IdentityMatches

-----------------------------------------------------------------------------
(* What a command adds to the tables. *)

LEMMA NewIdType ==
  ASSUME TablesOK
  PROVE  /\ Cardinality(movements) \in Nat /\ Cardinality(orders) \in Nat
         /\ Cardinality(counts) \in Nat /\ NewId \in Nat \ {0}
<1>1. IsFiniteSet(movements) /\ IsFiniteSet(orders) /\ IsFiniteSet(counts)
  BY DEF TablesOK, Numbered
<1>2. /\ Cardinality(movements) \in Nat /\ Cardinality(orders) \in Nat
      /\ Cardinality(counts) \in Nat
  BY <1>1, FS_CardinalityType
<1> QED BY <1>2 DEF NewId

LEMMA NumberedWith ==
  ASSUME NEW rows, NEW next \in Nat \ {0}, Numbered(rows, next), NEW next2 \in Nat,
         next <= next2, NEW r, r.id \in next .. next2 - 1
  PROVE  Numbered(rows \cup {r}, next2) /\ r \notin rows
<1>1. IsFiniteSet(rows \cup {r}) BY FS_AddElement DEF Numbered
<1>2. \A q \in rows : q.id \in 1 .. next - 1 /\ q.id \in 1 .. next2 - 1 BY DEF Numbered
<1>3. r.id \notin 1 .. next - 1 /\ r.id \in 1 .. next2 - 1 OBVIOUS
<1> QED BY <1>1, <1>2, <1>3 DEF Numbered

LEMMA NumberedKept ==
  ASSUME NEW rows, NEW next \in Nat, Numbered(rows, next), NEW next2 \in Nat, next <= next2
  PROVE  Numbered(rows, next2)
BY DEF Numbered

LEMMA OneMore ==
  ASSUME NEW rows, IsFiniteSet(rows), NEW r, r \notin rows
  PROVE  Cardinality(rows \cup {r}) = Cardinality(rows) + 1
BY FS_AddElement

\* A movement of a valid SKU that leaves a stock.
Moves(m) == /\ m.table \in {"stockentry", "stockexit"}
            /\ m.sku \in SKUs /\ m.quantity \in Nat \ {0} /\ m.week \in 0 .. 2
            /\ Stock(movements, m.sku) + Signed(m) \in Nat

LEMMA MovementAdded ==
  ASSUME TablesOK, NEW m, Moves(m), m.id \in Nat, m.id >= NewId,
         movements' = movements \cup {m}
  PROVE  /\ m \notin movements
         /\ MovementsOK' /\ StockOK'
         /\ BeforeMovement(m)' = Stock(movements, m.sku)
         /\ \A n \in movements : BeforeMovement(n)' = BeforeMovement(n)
<1>1. /\ IsFiniteSet(movements) /\ NewId \in Nat
      /\ \A n \in movements : n.id \in 1 .. NewId - 1
  BY NewIdType DEF TablesOK, Numbered
<1>2. m \notin movements /\ \A n \in movements : n.id \in Nat /\ n.id < m.id BY <1>1
<1>3. MovementsOK' BY DEF TablesOK, MovementsOK, Moves
<1>4. \A n \in movements \cup {m} : Signed(n) \in Int BY DEF TablesOK, MovementsOK, Moves, Signed
<1>5. /\ Stock(movements \cup {m}, m.sku) = Stock(movements, m.sku) + Signed(m)
      /\ \A s : s # m.sku => Stock(movements \cup {m}, s) = Stock(movements, s)
  BY <1>1, <1>2, <1>4, StockWith
<1>6. StockOK' BY <1>5 DEF TablesOK, StockOK, Moves
<1>7. {n \in movements' : n.id < m.id} = movements BY <1>2
<1>8. BeforeMovement(m)' = Stock(movements, m.sku) BY <1>7, Zenon DEF BeforeMovement
<1>9. ASSUME NEW n \in movements PROVE BeforeMovement(n)' = BeforeMovement(n)
  <2>1. {k \in movements' : k.id < n.id} = {k \in movements : k.id < n.id} BY <1>2
  <2> QED BY <2>1, Zenon DEF BeforeMovement
<1> QED BY <1>2, <1>3, <1>6, <1>8, <1>9

LEMMA CheckpointAdded ==
  ASSUME TablesOK, NEW m, Moves(m), m.id \in Nat, m.id >= NewId,
         movements' = movements \cup {m},
         NEW crossed, checkpoints' = checkpoints \cup {Checkpoint(m, Stock(movements, m.sku), crossed)}
  PROVE  \A c \in checkpoints' : TrueCheckpoint(c)'
<1>1. /\ BeforeMovement(m)' = Stock(movements, m.sku)
      /\ \A n \in movements : BeforeMovement(n)' = BeforeMovement(n)
  BY MovementAdded
<1>2. ASSUME NEW c \in checkpoints PROVE TrueCheckpoint(c)'
  <2>1. PICK n \in movements :
          /\ n.id = c.movement
          /\ c.before = BeforeMovement(n) /\ c.after = BeforeMovement(n) + Signed(n)
          /\ c.after \in Nat
          /\ c.threshold = ThresholdOf[n.sku]
    BY DEF TablesOK, TrueCheckpoint
  <2>2. n \in movements' /\ BeforeMovement(n)' = BeforeMovement(n) BY <1>1
  <2> QED BY <2>1, <2>2 DEF TrueCheckpoint
<1>3. ASSUME NEW c, c = Checkpoint(m, Stock(movements, m.sku), crossed)
      PROVE TrueCheckpoint(c)'
  <2>1. /\ c.movement = m.id /\ c.before = Stock(movements, m.sku)
        /\ c.after = Stock(movements, m.sku) + Signed(m) /\ c.threshold = ThresholdOf[m.sku]
    BY <1>3 DEF Checkpoint
  <2>2. c.after \in Nat BY <2>1 DEF Moves
  <2>3. m \in movements' OBVIOUS
  <2> QED BY <1>1, <2>1, <2>2, <2>3 DEF TrueCheckpoint
<1> QED BY <1>2, <1>3

-----------------------------------------------------------------------------
(* The commands keep the tables. *)

\* There is a fact, of whatever week, that a row of telemetry tells.
Happened(type, id, owner, quantity, week) ==
  \/ /\ type = "inbound"
     /\ \E m \in movements : /\ m.table = "stockentry" /\ m.id = id /\ OwnerOf[m.sku] = owner
                             /\ m.quantity = quantity /\ m.week = week
  \/ /\ type = "threshold"
     /\ \E m \in movements : /\ ReallyCrossed(m) /\ m.id = id /\ OwnerOf[m.sku] = owner
                             /\ m.week = week
  \/ /\ type = "discrepancy"
     /\ \E c \in counts : /\ Discrepant(c) /\ c.id = id /\ OwnerOf[c.sku] = owner
                          /\ c.week = week
  \/ /\ type = "outbound"
     /\ \E o \in orders : o.id = id /\ o.owner = owner /\ o.week = week

EventHappened(e) == Happened(e.type, e.source, e.owner, e.quantity, e.week)

\* Nothing that is there changes.
Extends == /\ movements \subseteq movements' /\ orders \subseteq orders'
           /\ counts \subseteq counts' /\ outbox \subseteq outbox'
           /\ \A n \in movements : BeforeMovement(n)' = BeforeMovement(n)

\* What a transaction adds, what it tells, and where the flow stands meanwhile.
Grow == /\ Extends
        /\ \A e \in outbox' : e \in outbox \/ EventHappened(e)'
        /\ UNCHANGED <<published, telemetry, clock, flowVars>>
        /\ stamp' \in [SKUs -> {0, 1, 2}]

LEMMA EndsGrow ==
  ASSUME AroundOK, NEW s \in SKUs, Ends(s)
  PROVE  /\ stamp[s] \in {1, 2}
         /\ stamp' \in [SKUs -> {0, 1, 2}]
         /\ UNCHANGED <<published, telemetry, clock, flowVars>>
BY DEF AroundOK, Ends

LEMMA EventIsOK ==
  ASSUME NEW type \in OfficialTypes, NEW row \in Nat, NEW owner, owner # NoOwner,
         NEW q \in Nat, NEW week
  PROVE  EventOK(Event(type, row, owner, q, week))
BY DEF EventOK, Event

\* The outbox grows by events that are sound.
LEMMA OutboxWith ==
  ASSUME TablesOK, NEW new, IsFiniteSet(new), \A e \in new : EventOK(e),
         outbox' = outbox \cup new
  PROVE  /\ outbox \subseteq outbox'
         /\ IsFiniteSet(outbox') /\ \A e \in outbox' : EventOK(e)
<1>1. IsFiniteSet(outbox \cup new) BY FS_Union DEF TablesOK
<1> QED BY <1>1 DEF TablesOK

LEMMA OneEvent ==
  ASSUME TablesOK, NEW e, EventOK(e), outbox' = outbox \cup {e}
  PROVE  /\ outbox \subseteq outbox'
         /\ IsFiniteSet(outbox') /\ \A f \in outbox' : EventOK(f)
<1>1. IsFiniteSet({e}) BY FS_Singleton
<1> QED BY <1>1, OutboxWith

LEMMA EntryKeeps ==
  ASSUME TablesOK, AroundOK, NEW s \in SKUs, NEW q \in Quantities, CommitsEntry(s, q)
  PROVE  TablesOK' /\ Grow
<1>1. PICK m : m = Movement(NewId, "stockentry", s, q, NoOrder)
  OBVIOUS
<1>2. /\ Ends(s) /\ UNCHANGED <<orders, counts>>
      /\ movements' = movements \cup {m}
      /\ checkpoints' = checkpoints \cup {Checkpoint(m, Stock(movements, s), FALSE)}
      /\ outbox' = IF OwnerOf[s] = NoOwner THEN outbox
                   ELSE outbox \cup {Event("inbound", m.id, OwnerOf[s], q, m.week)}
  BY <1>1 DEF CommitsEntry
<1>3. /\ stamp[s] \in {1, 2} /\ q \in Nat \ {0} /\ NewId \in Nat \ {0}
      /\ Stock(movements, s) \in Nat
  BY <1>2, EndsGrow, NewIdType, BoundsAssumption DEF TablesOK, StockOK
<1>4. /\ m.id = NewId /\ m.sku = s /\ m.quantity = q /\ m.table = "stockentry"
      /\ m.week = stamp[s]
  BY <1>1 DEF Movement
<1>5. Signed(m) = q BY <1>4 DEF Signed
<1>6. Moves(m) /\ m.id \in Nat /\ m.id >= NewId BY <1>3, <1>4, <1>5 DEF Moves
<1>7. MovementsOK' /\ StockOK' /\ m \notin movements BY <1>2, <1>6, MovementAdded
<1>8. \A c \in checkpoints' : TrueCheckpoint(c)' BY <1>2, <1>4, <1>6, CheckpointAdded
<1>9. NewId' = NewId + 1
  <2>1. Cardinality(movements') = Cardinality(movements) + 1
    BY <1>2, <1>7, OneMore DEF TablesOK, Numbered
  <2> QED BY <1>2, <2>1, NewIdType DEF NewId
<1>10. Numbered(movements', NewId') /\ Numbered(orders', NewId') /\ Numbered(counts', NewId')
  <2>1. NewId' \in Nat /\ NewId <= NewId' /\ m.id \in NewId .. NewId' - 1 BY <1>3, <1>4, <1>9
  <2> QED BY <1>2, <1>3, <2>1, NumberedWith, NumberedKept DEF TablesOK
<1>11. /\ outbox \subseteq outbox'
       /\ IsFiniteSet(outbox') /\ \A e \in outbox' : EventOK(e)
  <2>1. CASE OwnerOf[s] = NoOwner
    BY <1>2, <2>1 DEF TablesOK
  <2>2. CASE OwnerOf[s] # NoOwner
    <3>1. EventOK(Event("inbound", m.id, OwnerOf[s], q, m.week))
      BY <1>3, <1>6, <2>2, EventIsOK DEF OfficialTypes
    <3> QED BY <1>2, <2>2, <3>1, OneEvent
  <2> QED BY <2>1, <2>2
<1>12. \A e \in outbox' : e \in outbox \/ EventHappened(e)'
  <2> SUFFICES ASSUME NEW e \in outbox', e \notin outbox PROVE EventHappened(e)'
    OBVIOUS
  <2>1. e = Event("inbound", m.id, OwnerOf[s], q, m.week) BY <1>2
  <2>2. /\ e.type = "inbound" /\ e.source = m.id /\ e.owner = OwnerOf[m.sku]
        /\ e.quantity = m.quantity /\ e.week = m.week
    BY <1>4, <2>1 DEF Event
  <2>3. m \in movements' /\ m.table = "stockentry" BY <1>2, <1>4
  <2> QED BY <2>2, <2>3 DEF EventHappened, Happened
<1>13. \A n \in movements : BeforeMovement(n)' = BeforeMovement(n) BY <1>2, <1>6, MovementAdded
<1>14. Grow BY <1>2, <1>11, <1>12, <1>13, EndsGrow DEF Grow, Extends
<1> QED BY <1>2, <1>7, <1>8, <1>10, <1>11, <1>14 DEF TablesOK

\* Whatever goes out leaves a stock, a checkpoint and sound events.
LEMMA ExitKeeps ==
  ASSUME TablesOK, NEW m, m.table = "stockexit", m.sku \in SKUs, m.quantity \in Nat \ {0},
         m.week \in 0 .. 2, m.id \in Nat, m.id >= NewId,
         NEW announced, IsFiniteSet(announced), \A e \in announced : EventOK(e),
         Exits(m, announced)
  PROVE  /\ movements' = movements \cup {m} /\ m \notin movements /\ UNCHANGED counts
         /\ MovementsOK' /\ StockOK'
         /\ \A c \in checkpoints' : TrueCheckpoint(c)'
         /\ outbox \subseteq outbox'
         /\ IsFiniteSet(outbox') /\ \A e \in outbox' : EventOK(e)
         /\ \A n \in movements : BeforeMovement(n)' = BeforeMovement(n)
         /\ \A e \in outbox' : e \in outbox \cup announced \/ EventHappened(e)'
<1>1. PICK before : before = Stock(movements, m.sku)
  OBVIOUS
<1>2. PICK crossed : crossed = Crossing(m.sku, before, before - m.quantity)
  OBVIOUS
<1>3. PICK new : new = announced \cup
                   IF crossed
                   THEN {Event("threshold", m.id, OwnerOf[m.sku], before - m.quantity, m.week)}
                   ELSE {}
  OBVIOUS
<1>4. /\ before >= m.quantity
      /\ crossed => OwnerOf[m.sku] # NoOwner
      /\ movements' = movements \cup {m} /\ UNCHANGED counts
      /\ checkpoints' = checkpoints \cup {Checkpoint(m, Stock(movements, m.sku), crossed)}
      /\ outbox' = outbox \cup new
  BY <1>1, <1>2, <1>3 DEF Exits, Suffices
<1>5. before \in Nat BY <1>1 DEF TablesOK, StockOK
<1>6. Signed(m) = -m.quantity BY DEF Signed
<1>7. before - m.quantity \in Nat BY <1>4, <1>5
<1>8. Moves(m) BY <1>1, <1>5, <1>6, <1>7 DEF Moves
<1>9. IsFiniteSet(new) /\ \A e \in new : EventOK(e)
  <2>1. CASE ~crossed
    BY <1>3, <2>1
  <2>2. CASE crossed
    <3>1. PICK e : e = Event("threshold", m.id, OwnerOf[m.sku], before - m.quantity, m.week)
      OBVIOUS
    <3>2. EventOK(e) BY <1>4, <1>7, <2>2, <3>1, EventIsOK DEF OfficialTypes
    <3>3. new = announced \cup {e} BY <1>3, <2>2, <3>1
    <3>4. IsFiniteSet(announced \cup {e}) BY FS_AddElement
    <3> QED BY <3>2, <3>3, <3>4
  <2> QED BY <2>1, <2>2
<1>10. /\ m \notin movements /\ MovementsOK' /\ StockOK' /\ BeforeMovement(m)' = before
       /\ \A n \in movements : BeforeMovement(n)' = BeforeMovement(n)
  BY <1>1, <1>4, <1>8, MovementAdded
<1>11. \A c \in checkpoints' : TrueCheckpoint(c)' BY <1>4, <1>8, CheckpointAdded
<1>12. /\ outbox \subseteq outbox'
       /\ IsFiniteSet(outbox') /\ \A e \in outbox' : EventOK(e)
  BY <1>4, <1>9, OutboxWith
<1>13. \A e \in outbox' : e \in outbox \cup announced \/ EventHappened(e)'
  <2> SUFFICES ASSUME NEW e \in outbox', e \notin outbox \cup announced
               PROVE  EventHappened(e)'
    OBVIOUS
  <2>1. crossed /\ e = Event("threshold", m.id, OwnerOf[m.sku], before - m.quantity, m.week)
    BY <1>3, <1>4
  <2>2. /\ e.type = "threshold" /\ e.source = m.id /\ e.owner = OwnerOf[m.sku]
        /\ e.week = m.week
    BY <2>1 DEF Event
  <2>3. ReallyCrossed(m)' BY <1>2, <1>10, <2>1 DEF ReallyCrossed, Crossing
  <2>4. m \in movements' BY <1>4
  <2> QED BY <2>2, <2>3, <2>4 DEF EventHappened, Happened
<1> QED BY <1>4, <1>10, <1>11, <1>12, <1>13

\* An exit of an order that is there, or of none.
LEMMA DispatchKeeps ==
  ASSUME TablesOK, AroundOK, NEW s \in SKUs, NEW order, Ends(s),
         Exits(Movement(NewId, "stockexit", s, 1, order), {}), UNCHANGED orders
  PROVE  TablesOK' /\ Grow
<1>1. PICK m : m = Movement(NewId, "stockexit", s, 1, order)
  OBVIOUS
<1>2. stamp[s] \in {1, 2} /\ NewId \in Nat \ {0} BY EndsGrow, NewIdType
<1>3. /\ m.id = NewId /\ m.sku = s /\ m.quantity = 1 /\ m.table = "stockexit"
      /\ m.week = stamp[s]
  BY <1>1 DEF Movement
<1>4. IsFiniteSet({}) BY FS_EmptySet
<1>5. Exits(m, {}) BY <1>1
<1>6. /\ movements' = movements \cup {m} /\ m \notin movements /\ UNCHANGED counts
      /\ MovementsOK' /\ StockOK'
      /\ \A c \in checkpoints' : TrueCheckpoint(c)'
      /\ outbox \subseteq outbox'
      /\ IsFiniteSet(outbox') /\ \A e \in outbox' : EventOK(e)
      /\ \A n \in movements : BeforeMovement(n)' = BeforeMovement(n)
      /\ \A e \in outbox' : e \in outbox \/ EventHappened(e)'
  BY <1>2, <1>3, <1>4, <1>5, ExitKeeps
<1>7. NewId' = NewId + 1
  <2>1. Cardinality(movements') = Cardinality(movements) + 1
    BY <1>6, OneMore DEF TablesOK, Numbered
  <2> QED BY <1>6, <2>1, NewIdType DEF NewId
<1>8. Numbered(movements', NewId') /\ Numbered(orders', NewId') /\ Numbered(counts', NewId')
  <2>1. NewId' \in Nat /\ NewId <= NewId' /\ m.id \in NewId .. NewId' - 1 BY <1>2, <1>3, <1>7
  <2> QED BY <1>2, <1>6, <2>1, NumberedWith, NumberedKept DEF TablesOK
<1>9. Grow BY <1>6, EndsGrow DEF Grow, Extends
<1> QED BY <1>6, <1>8, <1>9 DEF TablesOK

LEMMA OrderKeeps ==
  ASSUME TablesOK, AroundOK, NEW s \in SKUs, CommitsOrder(s)
  PROVE  TablesOK' /\ Grow
<1>1. PICK o : o = [id |-> NewId, owner |-> OwnerOf[s], week |-> stamp[s]]
  OBVIOUS
<1>2. PICK m : m = Movement(NewId + 1, "stockexit", s, 1, o.id)
  OBVIOUS
<1>3. PICK e : e = Event("outbound", o.id, o.owner, 0, o.week)
  OBVIOUS
<1>4. OwnerOf[s] # NoOwner /\ Ends(s) /\ Exits(m, {e}) /\ orders' = orders \cup {o}
  BY <1>1, <1>2, <1>3 DEF CommitsOrder
<1>5. stamp[s] \in {1, 2} /\ NewId \in Nat \ {0} BY <1>4, EndsGrow, NewIdType
<1>6. /\ m.id = NewId + 1 /\ m.sku = s /\ m.quantity = 1 /\ m.table = "stockexit"
      /\ m.week = stamp[s]
  BY <1>2 DEF Movement
<1>7. IsFiniteSet({e}) BY FS_Singleton
<1>8. EventOK(e) BY <1>1, <1>3, <1>4, <1>5, EventIsOK DEF OfficialTypes
<1>9. m.id \in Nat /\ m.id >= NewId BY <1>5, <1>6
<1>10. /\ movements' = movements \cup {m} /\ m \notin movements /\ UNCHANGED counts
       /\ MovementsOK' /\ StockOK'
       /\ \A c \in checkpoints' : TrueCheckpoint(c)'
       /\ outbox \subseteq outbox'
       /\ IsFiniteSet(outbox') /\ \A f \in outbox' : EventOK(f)
       /\ \A n \in movements : BeforeMovement(n)' = BeforeMovement(n)
       /\ \A f \in outbox' : f \in outbox \cup {e} \/ EventHappened(f)'
  BY <1>4, <1>5, <1>6, <1>7, <1>8, <1>9, ExitKeeps
<1>11. o \notin orders BY <1>1, <1>5 DEF TablesOK, Numbered
<1>12. NewId' = NewId + 2
  <2>1. Cardinality(movements') = Cardinality(movements) + 1
    BY <1>10, OneMore DEF TablesOK, Numbered
  <2>2. Cardinality(orders') = Cardinality(orders) + 1
    BY <1>4, <1>11, OneMore DEF TablesOK, Numbered
  <2> QED BY <1>10, <2>1, <2>2, NewIdType DEF NewId
<1>13. Numbered(movements', NewId') /\ Numbered(orders', NewId') /\ Numbered(counts', NewId')
  <2>1. /\ NewId' \in Nat /\ NewId <= NewId'
        /\ m.id \in NewId .. NewId' - 1 /\ o.id \in NewId .. NewId' - 1
    BY <1>1, <1>5, <1>6, <1>12
  <2> QED BY <1>4, <1>5, <1>10, <2>1, NumberedWith, NumberedKept DEF TablesOK
<1>14. \A p \in orders' : p.week \in {1, 2} /\ p.owner # NoOwner
  BY <1>1, <1>4, <1>5 DEF TablesOK
<1>15. EventHappened(e)'
  <2>1. /\ e.type = "outbound" /\ e.source = o.id /\ e.owner = o.owner /\ e.week = o.week
    BY <1>3 DEF Event
  <2>2. o \in orders' BY <1>4
  <2> QED BY <2>1, <2>2 DEF EventHappened, Happened
<1>16. \A f \in outbox' : f \in outbox \/ EventHappened(f)' BY <1>10, <1>15
<1>17. Grow BY <1>4, <1>10, <1>16, EndsGrow DEF Grow, Extends
<1> QED BY <1>10, <1>13, <1>14, <1>17 DEF TablesOK

LEMMA CountKeeps ==
  ASSUME TablesOK, AroundOK, NEW s \in SKUs, NEW observed \in Nat, CommitsCount(s, observed)
  PROVE  TablesOK' /\ Grow
<1>1. PICK expected : expected = Stock(movements, s)
  OBVIOUS
<1>2. PICK c : c = [id |-> NewId, sku |-> s, expected |-> expected, observed |-> observed,
                    week |-> stamp[s]]
  OBVIOUS
<1>3. PICK e : e = Event("discrepancy", c.id, OwnerOf[s], Distance(observed, expected), c.week)
  OBVIOUS
<1>4. /\ OwnerOf[s] # NoOwner /\ Ends(s) /\ counts' = counts \cup {c}
      /\ outbox' = IF ~Discrepant(c) THEN outbox ELSE outbox \cup {e}
      /\ UNCHANGED <<movements, checkpoints, orders>>
  BY <1>1, <1>2, <1>3 DEF CommitsCount
<1>5. /\ stamp[s] \in {1, 2} /\ NewId \in Nat \ {0} /\ expected \in Nat
  BY <1>1, <1>4, EndsGrow, NewIdType DEF TablesOK, StockOK
<1>6. Distance(observed, expected) \in Nat BY <1>5 DEF Distance
<1>7. EventOK(e) BY <1>2, <1>3, <1>4, <1>5, <1>6, EventIsOK DEF OfficialTypes
<1>8. /\ outbox \subseteq outbox'
      /\ IsFiniteSet(outbox') /\ \A f \in outbox' : EventOK(f)
  <2>1. CASE Discrepant(c)
    BY <1>4, <1>7, <2>1, OneEvent
  <2>2. CASE ~Discrepant(c)
    BY <1>4, <2>2 DEF TablesOK
  <2> QED BY <2>1, <2>2
<1>9. c \notin counts BY <1>2, <1>5 DEF TablesOK, Numbered
<1>10. NewId' = NewId + 1
  <2>1. Cardinality(counts') = Cardinality(counts) + 1
    BY <1>4, <1>9, OneMore DEF TablesOK, Numbered
  <2> QED BY <1>4, <2>1, NewIdType DEF NewId
<1>11. Numbered(movements', NewId') /\ Numbered(orders', NewId') /\ Numbered(counts', NewId')
  <2>1. NewId' \in Nat /\ NewId <= NewId' /\ c.id \in NewId .. NewId' - 1 BY <1>2, <1>5, <1>10
  <2> QED BY <1>4, <1>5, <2>1, NumberedWith, NumberedKept DEF TablesOK
<1>12. MovementsOK' /\ StockOK' BY <1>4 DEF TablesOK, MovementsOK, StockOK
<1>13. \A k \in checkpoints' : TrueCheckpoint(k)'
  BY <1>4 DEF TablesOK, TrueCheckpoint, BeforeMovement
<1>14. \A k \in counts' : k.sku \in SKUs /\ k.observed \in Nat /\ k.expected \in Nat
  BY <1>2, <1>4, <1>5 DEF TablesOK
<1>15. \A f \in outbox' : f \in outbox \/ EventHappened(f)'
  <2> SUFFICES ASSUME NEW f \in outbox', f \notin outbox PROVE EventHappened(f)'
    OBVIOUS
  <2>1. f = e /\ Discrepant(c) BY <1>4
  <2>2. /\ f.type = "discrepancy" /\ f.source = c.id /\ f.owner = OwnerOf[c.sku]
        /\ f.week = c.week
    BY <1>2, <1>3, <2>1 DEF Event
  <2>3. c \in counts' BY <1>4
  <2> QED BY <2>1, <2>2, <2>3 DEF EventHappened, Happened
<1>16. \A n \in movements : BeforeMovement(n)' = BeforeMovement(n) BY <1>4 DEF BeforeMovement
<1>17. Grow BY <1>4, <1>8, <1>15, <1>16, EndsGrow DEF Grow, Extends
<1> QED BY <1>4, <1>8, <1>11, <1>12, <1>13, <1>14, <1>17 DEF TablesOK

LEMMA CommitsKeep ==
  ASSUME TablesOK, AroundOK, NEW s \in SKUs, Commits(s)
  PROVE  TablesOK' /\ Grow
<1>1. CASE \E q \in Quantities : CommitsEntry(s, q)
  BY <1>1, EntryKeeps
<1>2. CASE CommitsExit(s)
  BY <1>2, DispatchKeeps DEF CommitsExit
<1>3. CASE CommitsOrder(s)
  BY <1>3, OrderKeeps
<1>4. CASE \E o \in orders : CommitsDispatch(s, o)
  <2>1. PICK o \in orders : CommitsDispatch(s, o) BY <1>4
  <2> QED BY <2>1, DispatchKeeps DEF CommitsDispatch
<1>5. CASE \E d \in {0, 1} : CommitsCount(s, Stock(movements, s) + d)
  <2>1. PICK d \in {0, 1} : CommitsCount(s, Stock(movements, s) + d) BY <1>5
  <2>2. PICK observed : observed = Stock(movements, s) + d
    OBVIOUS
  <2>3. observed \in Nat BY <2>2 DEF TablesOK, StockOK
  <2>4. CommitsCount(s, observed) BY <2>1, <2>2
  <2> QED BY <2>3, <2>4, CountKeeps
<1>6. CASE RollsBack(s)
  <2>1. UNCHANGED tables /\ Ends(s) BY <1>6 DEF RollsBack
  <2>2. \A n \in movements : BeforeMovement(n)' = BeforeMovement(n)
    BY <2>1 DEF tables, BeforeMovement
  <2>3. Grow BY <2>1, <2>2, EndsGrow DEF Grow, Extends, tables
  <2> QED BY <2>1, <2>3 DEF TablesOK, tables, NewId, MovementsOK, StockOK, TrueCheckpoint, BeforeMovement
<1> QED BY <1>1, <1>2, <1>3, <1>4, <1>5, <1>6 DEF Commits

-----------------------------------------------------------------------------
(* The initial states. *)

LEMMA InitTables == ASSUME Init PROVE TablesOK
<1>1. PICK b \in Beginnings : movements = b.movements BY DEF Init
<1>2. checkpoints = {} /\ orders = {} /\ counts = {} /\ outbox = {} BY DEF Init
<1>3. /\ IsFiniteSet(movements)
      /\ \A m \in movements :
           /\ m.id \in 1 .. Cardinality(movements)
           /\ m.table \in {"stockentry", "stockexit"}
           /\ m.sku \in SKUs /\ m.quantity \in Nat \ {0} /\ m.week \in 0 .. 2
      /\ \A m, n \in movements : m.id = n.id => m = n
      /\ \A s \in SKUs : Stock(movements, s) >= 0
  BY <1>1, BeginningsAssumption
<1>4. NewId = Cardinality(movements) + 1 /\ Cardinality(movements) \in Nat
  BY <1>2, <1>3, FS_CardinalityType, FS_EmptySet DEF NewId
<1>5. IsFiniteSet({}) BY FS_EmptySet
<1>6. Numbered(movements, NewId) /\ Numbered(orders, NewId) /\ Numbered(counts, NewId)
  BY <1>2, <1>3, <1>4, <1>5 DEF Numbered
<1>7. StockOK
  <2> SUFFICES ASSUME NEW s \in SKUs PROVE Stock(movements, s) \in Nat
    BY DEF StockOK
  <2> DEFINE R == SkuRows(movements, s)
             f == [m \in R |-> Signed(m)]
  <2>1. IsFiniteSet(R) /\ R \subseteq movements BY <1>3, FS_Subset DEF SkuRows
  <2>2. \A m \in R : f[m] \in Int BY <1>3, <2>1 DEF Signed
  <2>3. Stock(movements, s) = MapThenSumSet(Signed, R) BY StockIsASum
  <2>4. MapThenSumSet(Signed, R) = SumOf(f, R) BY <2>1, SignedIsASum
  <2> HIDE DEF R, f
  <2>5. SumOf(f, R) \in Int BY <2>1, <2>2, SumOfType
  <2> QED BY <1>3, <2>3, <2>4, <2>5
<1>8. MovementsOK BY <1>3 DEF MovementsOK
<1> QED BY <1>2, <1>5, <1>6, <1>7, <1>8 DEF TablesOK

LEMMA InitAround == ASSUME Init PROVE AroundOK
BY BoundsAssumption DEF Init, AroundOK

LEMMA InvInit == Init => IInv
BY InitTables, InitAround DEF Init, IInv, SourceOK, AuditOK, RecordsOK, CertifiedIsTrue

-----------------------------------------------------------------------------
(* What the flow remembers stays true while the tables grow. *)

LEMMA DispatchedStays ==
  ASSUME movements \subseteq movements', orders \subseteq orders',
         NEW id, NEW owner, Dispatched(id, owner)
  PROVE  Dispatched(id, owner)'
BY DEF Dispatched

FlowOK == SourceOK /\ AuditOK /\ RecordsOK /\ CertifiedIsTrue

LEMMA FlowKept ==
  ASSUME FlowOK, UNCHANGED flowVars,
         movements \subseteq movements', orders \subseteq orders', outbox \subseteq outbox'
  PROVE  FlowOK'
<1>1. UNCHANGED <<at, source, audit, extracted, report>> BY DEF flowVars
<1>2. SourceOK'
  <2> SUFFICES ASSUME at = "audit_reporting" PROVE SourceOK'
    BY <1>1 DEF SourceOK
  <2>1. /\ source = [snapshot |-> source.snapshot, truth |-> source.truth]
        /\ source.snapshot.outbox \subseteq outbox'
    BY DEF FlowOK, SourceOK
  <2>2. ASSUME Explained(source.snapshot)
        PROVE  /\ source.truth = Totals(RowsOf(source.snapshot.outbox))
               /\ \A e \in source.snapshot.outbox :
                    e.type = "outbound" => Dispatched(e.source, e.owner)'
    BY <2>2, DispatchedStays DEF FlowOK, SourceOK
  <2> QED BY <1>1, <2>1, <2>2 DEF SourceOK
<1>3. AuditOK'
  <2> SUFFICES ASSUME at \in {"extract", "orders", "gate"}, audit.complete PROVE AuditOK'
    BY <1>1 DEF AuditOK
  <2>1. PICK events \in SUBSET outbox :
          /\ audit.events = RowsOf(events)
          /\ \A e \in events : e.type = "outbound" => Dispatched(e.source, e.owner)
    BY DEF FlowOK, AuditOK
  <2>2. \A e \in events : e.type = "outbound" => Dispatched(e.source, e.owner)'
    BY <2>1, DispatchedStays
  <2>3. events \in SUBSET outbox' OBVIOUS
  <2>4. source.truth = Totals(audit.events) BY DEF FlowOK, AuditOK
  <2> QED BY <1>1, <2>1, <2>2, <2>3, <2>4 DEF AuditOK
<1>4. RecordsOK' BY <1>1 DEF FlowOK, RecordsOK
<1>5. CertifiedIsTrue' BY <1>1 DEF FlowOK, CertifiedIsTrue
<1> QED BY <1>2, <1>3, <1>4, <1>5 DEF FlowOK

\* The commands, the relays and the browsers.
LEMMA AroundKept ==
  ASSUME AroundOK, Grow
  PROVE  AroundOK'
BY DEF AroundOK, Grow, Extends, flowVars

LEMMA OutsideKeeps ==
  ASSUME IInv, UNCHANGED tables, UNCHANGED flowVars, AroundOK'
  PROVE  IInv'
<1>1. UNCHANGED <<movements, checkpoints, orders, counts, outbox>> BY DEF tables
<1>2. TablesOK'
  BY <1>1 DEF IInv, TablesOK, NewId, MovementsOK, StockOK, TrueCheckpoint, BeforeMovement
<1>3. FlowOK' BY <1>1, FlowKept DEF IInv, FlowOK
<1> QED BY <1>2, <1>3 DEF IInv, FlowOK

-----------------------------------------------------------------------------
(* The steps of the flow. *)

LEMMA TablesUnchanged ==
  ASSUME TablesOK, UNCHANGED flowRest
  PROVE  TablesOK'
BY DEF flowRest, tables, TablesOK, NewId, MovementsOK, StockOK, TrueCheckpoint, BeforeMovement

LEMMA AroundFlow ==
  ASSUME AroundOK, UNCHANGED flowRest,
         at' \in {"idle", "audit", "audit_reporting", "extract", "orders", "gate"},
         outages' \in 0 .. MaxOutages
  PROVE  AroundOK'
BY DEF AroundOK, flowRest, tables

LEMMA StartsKeeps == ASSUME IInv, Starts PROVE FlowOK'
BY DEF IInv, Starts, FlowOK, SourceOK, AuditOK, RecordsOK, CertifiedIsTrue

LEMMA AuditsSourceKeeps == ASSUME IInv, AuditsSource PROVE FlowOK'
<1>1. PICK s : s = SourceSnapshot
  OBVIOUS
<1>2. /\ at' = "audit_reporting" /\ source' = [snapshot |-> s, truth |-> Truth]
      /\ UNCHANGED <<movements, orders, outbox, report>>
  BY <1>1 DEF AuditsSource, flowRest, tables
<1>3. s.outbox \subseteq outbox BY <1>1, SnapshotFields DEF OfWeek
<1>4. ASSUME Explained(s)
      PROVE  /\ Truth = Totals(RowsOf(s.outbox))
             /\ \A e \in s.outbox : e.type = "outbound" => Dispatched(e.source, e.owner)'
  <2>1. Truth = Totals(RowsOf(s.outbox)) BY <1>1, <1>4, ExplainedIsTrue DEF IInv
  <2>2. \A e \in s.outbox : e.type = "outbound" => Dispatched(e.source, e.owner)
    BY <1>1, <1>4, ExplainedOrders DEF IInv
  <2> QED BY <1>2, <2>1, <2>2, DispatchedStays
<1>5. SourceOK' BY <1>2, <1>3, <1>4 DEF SourceOK
<1> QED BY <1>2, <1>5 DEF IInv, FlowOK, AuditOK, RecordsOK, CertifiedIsTrue

LEMMA AuditsReportingKeeps == ASSUME IInv, AuditsReporting PROVE FlowOK'
<1>1. PICK s : s = source.snapshot
  OBVIOUS
<1>2. PICK rows : rows = AuditedRows
  OBVIOUS
<1>3. /\ at = "audit_reporting" /\ at' = "extract" /\ audit' = Audit(s, rows)
      /\ source' = [source EXCEPT !.snapshot = Nothing]
      /\ UNCHANGED <<movements, orders, outbox, report>>
  BY <1>1, <1>2 DEF AuditsReporting, flowRest, tables
<1>4. source'.truth = source.truth BY <1>3 DEF IInv, SourceOK
<1>5. ASSUME audit'.complete
      PROVE  /\ s.outbox \in SUBSET outbox'
             /\ audit'.events = RowsOf(s.outbox)
             /\ \A e \in s.outbox : e.type = "outbound" => Dispatched(e.source, e.owner)'
             /\ source'.truth = Totals(audit'.events)
  <2>1. Explained(s) /\ audit'.events = RowsOf(s.outbox)
    <3>1. Audit(s, rows).complete BY <1>3, <1>5
    <3>2. Explained(s) /\ rows = RowsOf(s.outbox) /\ Audit(s, rows).events = rows
      BY <3>1, AuditIsExplained
    <3> QED BY <1>3, <3>2
  <2>2. /\ s.outbox \subseteq outbox
        /\ source.truth = Totals(RowsOf(s.outbox))
        /\ \A e \in s.outbox : e.type = "outbound" => Dispatched(e.source, e.owner)
    BY <1>1, <1>3, <2>1 DEF IInv, SourceOK
  <2>3. \A e \in s.outbox : e.type = "outbound" => Dispatched(e.source, e.owner)'
    BY <1>3, <2>2, DispatchedStays
  <2> QED BY <1>3, <1>4, <2>1, <2>2, <2>3
<1>6. AuditOK' BY <1>5 DEF AuditOK
<1> QED BY <1>3, <1>6 DEF IInv, FlowOK, SourceOK, RecordsOK, CertifiedIsTrue

\* An audit that is kept.
LEMMA AuditKept ==
  ASSUME AuditOK, at \in {"extract", "orders"}, UNCHANGED <<flowRest, source, audit>>
  PROVE  AuditOK'
<1>1. UNCHANGED <<movements, orders, outbox>> BY DEF flowRest, tables
<1>2. SUFFICES ASSUME audit.complete PROVE AuditOK'
  BY DEF AuditOK
<1>3. PICK events \in SUBSET outbox :
        /\ audit.events = RowsOf(events)
        /\ \A e \in events : e.type = "outbound" => Dispatched(e.source, e.owner)
  BY <1>2 DEF AuditOK
<1>4. \A e \in events : e.type = "outbound" => Dispatched(e.source, e.owner)'
  BY <1>1, <1>3, DispatchedStays
<1>5. source.truth = Totals(audit.events) BY <1>2 DEF AuditOK
<1> QED BY <1>1, <1>3, <1>4, <1>5 DEF AuditOK

LEMMA ExtractsEventsKeeps == ASSUME IInv, ExtractsEvents PROVE FlowOK'
<1>1. AuditOK' BY AuditKept DEF IInv, ExtractsEvents
<1>2. /\ at' = "orders" /\ UNCHANGED report
      /\ extracted' = [rows |-> WeeklyRows, evidence |-> WeeksOf(WeeklyRows), records |-> Nothing]
  BY DEF ExtractsEvents
<1> QED BY <1>1, <1>2 DEF IInv, FlowOK, SourceOK, RecordsOK, CertifiedIsTrue

LEMMA ExtractsOrdersKeeps == ASSUME IInv, ExtractsOrders PROVE FlowOK'
<1>1. AuditOK' BY AuditKept DEF IInv, ExtractsOrders
<1>2. PICK rows : rows = extracted.rows
  OBVIOUS
<1>3. /\ at = "orders" /\ at' = "gate" /\ UNCHANGED <<report, audit>>
      /\ extracted' = [extracted EXCEPT !.records = OrderRecords(rows)]
  BY <1>2 DEF ExtractsOrders
<1>4. extracted'.rows = rows /\ extracted'.records = OrderRecords(rows)
  BY <1>2, <1>3 DEF IInv, RecordsOK
<1>5. ASSUME audit.complete, rows = audit.events
      PROVE  \A r \in rows : r.type = "outbound" => Verified(r, OrderRecords(rows))
  <2>1. PICK events \in SUBSET outbox :
          /\ audit.events = RowsOf(events)
          /\ \A e \in events : e.type = "outbound" => Dispatched(e.source, e.owner)
    BY <1>3, <1>5 DEF IInv, AuditOK
  <2>2. \A e \in events : EventOK(e) BY DEF IInv, TablesOK
  <2> SUFFICES ASSUME NEW r \in rows, r.type = "outbound"
               PROVE  Verified(r, OrderRecords(rows))
    OBVIOUS
  <2>3. PICK e \in events : /\ r.type = e.type /\ r.identity = e.source /\ r.owner = e.owner
    BY <1>5, <2>1, <2>2, RowsOfEvents
  <2>4. Dispatched(e.source, e.owner) BY <2>1, <2>3
  <2>5. Dispatched(r.identity, r.owner) BY <2>3, <2>4 DEF Dispatched
  <2> QED BY <2>5, DispatchedIsVerified DEF IInv
<1>6. RecordsOK' BY <1>3, <1>4, <1>5 DEF RecordsOK
<1> QED BY <1>1, <1>3, <1>6 DEF IInv, FlowOK, SourceOK, CertifiedIsTrue

\* A report that passes the gate.
LEMMA PassesTheTruth ==
  ASSUME IInv, at = "gate", MayPublish(Result)
  PROVE  Result.aggregates = source.truth
<1>1. PICK rows : rows = extracted.rows
  OBVIOUS
<1>2. PICK records : records = extracted.records
  OBVIOUS
<1>3. PICK evidence : evidence = extracted.evidence
  OBVIOUS
<1>4. Result = Transform(rows, evidence, records) BY <1>1, <1>2, <1>3 DEF Result
<1>5. /\ ~Transform(rows, evidence, records).issues
      /\ Transform(rows, evidence, records).conflicts = {}
      /\ audit.complete /\ rows = audit.events
  BY <1>1, <1>4 DEF MayPublish, Covered
<1>6. PICK events \in SUBSET outbox : rows = RowsOf(events) BY <1>5 DEF IInv, AuditOK
<1>7. \A e \in events : EventOK(e) BY DEF IInv, TablesOK
<1>8. \A r \in rows : r.id = MovementKey(r) BY <1>6, <1>7, RowsOfEvents
<1>9. \A r \in rows : r.type = "outbound" => Verified(r, records)
  BY <1>1, <1>2, <1>5 DEF IInv, RecordsOK
<1>10. Transform(rows, evidence, records).aggregates = Totals(rows)
  BY <1>5, <1>8, <1>9, CalculatesTheTotals
<1>11. source.truth = Totals(rows) BY <1>5 DEF IInv, AuditOK
<1> QED BY <1>4, <1>10, <1>11

LEMMA DecidesKeeps == ASSUME IInv, Decides PROVE FlowOK'
<1>1. at = "gate" /\ at' = "idle" BY DEF Decides, Forgets
<1>2. CertifiedIsTrue'
  <2>1. CASE MayPublish(Result)
    <3>1. report' = [aggregates |-> Result.aggregates, truth |-> source.truth]
      BY <2>1 DEF Decides
    <3> QED BY <1>1, <2>1, <3>1, PassesTheTruth DEF CertifiedIsTrue
  <2>2. CASE ~MayPublish(Result)
    <3>1. report' = report BY <2>2 DEF Decides
    <3> QED BY <3>1 DEF IInv, CertifiedIsTrue
  <2> QED BY <2>1, <2>2
<1> QED BY <1>1, <1>2 DEF FlowOK, SourceOK, AuditOK, RecordsOK

LEMMA ReadFailsKeeps == ASSUME IInv, ReadFails PROVE FlowOK'
<1>1. UNCHANGED <<flowRest, report>> BY DEF ReadFails
<1>2. CertifiedIsTrue' BY <1>1 DEF IInv, CertifiedIsTrue
<1>3. CASE at' \in {"idle", "audit"}
  BY <1>2, <1>3 DEF FlowOK, SourceOK, AuditOK, RecordsOK
<1>4. CASE at' \notin {"idle", "audit"}
  <2>1. at \in {"extract", "orders"} /\ at' = "extract" /\ UNCHANGED <<source, audit>>
    BY <1>4 DEF ReadFails, Forgets
  <2>2. AuditOK' BY <1>1, <2>1, AuditKept DEF IInv
  <2> QED BY <1>2, <2>1, <2>2 DEF FlowOK, SourceOK, RecordsOK
<1> QED BY <1>3, <1>4

LEMMA FlowKeeps == ASSUME IInv, Flow \/ ReadFails PROVE IInv'
<1>1. UNCHANGED flowRest
  BY DEF Flow, ReadFails, Starts, AuditsSource, AuditsReporting, ExtractsEvents, ExtractsOrders, Decides
<1>2. TablesOK' BY <1>1, TablesUnchanged DEF IInv
<1>3. at' \in {"idle", "audit", "audit_reporting", "extract", "orders", "gate"}
  BY DEF Flow, ReadFails, Starts, AuditsSource, AuditsReporting, ExtractsEvents, ExtractsOrders,
         Decides, Forgets, IInv, AroundOK
<1>4. outages' \in 0 .. MaxOutages
  <2>1. CASE ReadFails
    BY <2>1, BoundsAssumption DEF ReadFails, IInv, AroundOK
  <2>2. CASE Flow
    BY <2>2 DEF Flow, Starts, AuditsSource, AuditsReporting, ExtractsEvents, ExtractsOrders,
                Decides, IInv, AroundOK
  <2> QED BY <2>1, <2>2
<1>5. AroundOK' BY <1>1, <1>3, <1>4, AroundFlow DEF IInv
<1>6. FlowOK'
  BY StartsKeeps, AuditsSourceKeeps, AuditsReportingKeeps, ExtractsEventsKeeps,
     ExtractsOrdersKeeps, DecidesKeeps, ReadFailsKeeps DEF Flow
<1> QED BY <1>2, <1>5, <1>6 DEF IInv, FlowOK

-----------------------------------------------------------------------------
(* The invariant. *)

LEMMA InvNext == IInv /\ [Next]_vars => IInv'
<1> SUFFICES ASSUME IInv, [Next]_vars PROVE IInv'
  OBVIOUS
<1>1. CASE \E s \in SKUs : Begins(s)
  <2>1. PICK s \in SKUs : Begins(s) BY <1>1
  <2>2. AroundOK' BY <2>1 DEF Begins, IInv, AroundOK, tables, flowVars
  <2>3. UNCHANGED <<tables, flowVars>> BY <2>1 DEF Begins
  <2> QED BY <2>2, <2>3, OutsideKeeps
<1>2. CASE \E s \in SKUs : Commits(s)
  <2>1. PICK s \in SKUs : Commits(s) BY <1>2
  <2>2. TablesOK' /\ Grow BY <2>1, CommitsKeep DEF IInv
  <2>3. FlowOK' BY <2>2, FlowKept DEF Grow, Extends, IInv, FlowOK
  <2>4. AroundOK' BY <2>2, AroundKept DEF IInv
  <2> QED BY <2>2, <2>3, <2>4 DEF IInv, FlowOK
<1>3. CASE \E e \in outbox : Delivers(e) \/ Acknowledges(e)
  <2>1. PICK e \in outbox : Delivers(e) \/ Acknowledges(e) BY <1>3
  <2>2. UNCHANGED <<tables, flowVars, clock, stamp>> BY <2>1 DEF Delivers, Acknowledges
  <2>3. AroundOK'
    <3>1. CASE Delivers(e)
      BY <3>1 DEF Delivers, IInv, AroundOK, tables, flowVars
    <3>2. CASE Acknowledges(e)
      BY <3>2 DEF Acknowledges, IInv, AroundOK, tables, flowVars
    <3> QED BY <2>1, <3>1, <3>2
  <2> QED BY <2>2, <2>3, OutsideKeeps
<1>4. CASE \E row \in Foreign : ReceivesEvents(row)
  <2>1. PICK row \in Foreign : ReceivesEvents(row) BY <1>4
  <2>2. AroundOK' BY <2>1 DEF ReceivesEvents, IInv, AroundOK, tables, flowVars
  <2>3. UNCHANGED <<tables, flowVars>> BY <2>1 DEF ReceivesEvents
  <2> QED BY <2>2, <2>3, OutsideKeeps
<1>5. CASE TurnsWeek
  <2>1. AroundOK' BY <1>5 DEF TurnsWeek, IInv, AroundOK, tables, flowVars
  <2>2. UNCHANGED <<tables, flowVars>> BY <1>5 DEF TurnsWeek
  <2> QED BY <2>1, <2>2, OutsideKeeps
<1>6. CASE Flow \/ ReadFails
  BY <1>6, FlowKeeps
<1>7. CASE UNCHANGED vars
  <2>1. AroundOK' BY <1>7 DEF vars, IInv, AroundOK, tables, flowVars
  <2>2. UNCHANGED <<tables, flowVars>> BY <1>7 DEF vars
  <2> QED BY <2>1, <2>2, OutsideKeeps
<1> QED BY <1>1, <1>2, <1>3, <1>4, <1>5, <1>6, <1>7 DEF Next

\* What the tables, the flow and the audit know of each other, in every state.
THEOREM InductiveInvariant == Spec => []IInv
BY InvInit, InvNext, PTL DEF Spec

-----------------------------------------------------------------------------
(* The results. *)

\* Rows of the tables are sound, the outbox included, and what is published or held
\* by telemetry comes from somewhere.
THEOREM TypeInvariant == Spec => []TypeOK
<1>1. IInv => TypeOK
  <2> SUFFICES ASSUME IInv PROVE TypeOK
    OBVIOUS
  <2>1. \A m \in movements : m.sku \in SKUs /\ m.week \in 0..2 /\ m.quantity \in Nat \ {0}
    BY DEF IInv, TablesOK, MovementsOK
  <2>2. \A c \in checkpoints : c.movement \in {m.id : m \in movements} /\ c.after \in Nat
    BY DEF IInv, TablesOK, TrueCheckpoint
  <2>3. \A e \in outbox : e.id \in EventIds /\ e.owner # NoOwner
    <3>1. \A e \in outbox : EventOK(e) BY DEF IInv, TablesOK
    <3> QED BY <3>1 DEF EventOK, EventIds, OfficialTypes
  <2>4. /\ \A o \in orders : o.week \in {1, 2} /\ o.owner # NoOwner
        /\ \A c \in counts : c.sku \in SKUs /\ c.observed \in Nat
    BY DEF IInv, TablesOK
  <2> QED BY <2>1, <2>2, <2>3, <2>4 DEF IInv, AroundOK, TypeOK
<1> QED BY <1>1, InductiveInvariant, PTL

\* A report that passes the gate is the truth of the moment at which the audit read
\* the facts, whatever commits, is delivered, arrives or fails between its four reads.
THEOREM CertifiedReportsAreTrue == Spec => []CertifiedIsTrue
<1>1. IInv => CertifiedIsTrue BY DEF IInv
<1> QED BY <1>1, InductiveInvariant, PTL

-----------------------------------------------------------------------------
(* No more than what happened: the invariant. *)

EventsHappened == \A e \in outbox : EventHappened(e)

\* A row of the API tells a fact, or an order that is gone.
Truthful(r) ==
  r.service = "api" /\ r.type \in OfficialTypes =>
    \/ r.type = "outbound" /\ r.identity \notin Nat
    \/ Happened(r.type, r.identity, r.owner, r.quantity, r.week)

TelemetryTruthful == \A r \in telemetry : Truthful(r)

\* Extracted rows are of the week, and the records are those of orders.
ExtractedTruthful ==
  /\ at \in {"orders", "gate"} => \A r \in extracted.rows : Truthful(r) /\ r.week = 1
  /\ at = "gate" => \A o \in extracted.records : o.id \in Nat

HistoryInv == EventsHappened /\ TelemetryTruthful /\ ExtractedTruthful

-----------------------------------------------------------------------------
(* What happened has happened. *)

LEMMA HappenedStays ==
  ASSUME Extends, NEW type, NEW id, NEW owner, NEW quantity, NEW week,
         Happened(type, id, owner, quantity, week)
  PROVE  Happened(type, id, owner, quantity, week)'
<1>1. /\ movements \subseteq movements' /\ orders \subseteq orders' /\ counts \subseteq counts'
  BY DEF Extends
<1>2. ASSUME NEW m \in movements, ReallyCrossed(m) PROVE ReallyCrossed(m)'
  <2>1. BeforeMovement(m)' = BeforeMovement(m) BY DEF Extends
  <2> QED BY <1>2, <2>1 DEF ReallyCrossed, Crossing
<1> QED BY <1>1, <1>2 DEF Happened

LEMMA TruthfulStays ==
  ASSUME Extends, NEW r, Truthful(r)
  PROVE  Truthful(r)'
BY HappenedStays DEF Truthful

LEMMA NothingChanges ==
  ASSUME UNCHANGED tables
  PROVE  Extends
BY DEF tables, Extends, BeforeMovement

LEMMA EventsStay ==
  ASSUME EventsHappened, Extends, \A e \in outbox' : e \in outbox \/ EventHappened(e)'
  PROVE  EventsHappened'
BY HappenedStays DEF EventsHappened, EventHappened

LEMMA ExtractedStays ==
  ASSUME ExtractedTruthful, Extends, UNCHANGED flowVars
  PROVE  ExtractedTruthful'
<1>1. UNCHANGED <<at, extracted>> BY DEF flowVars
<1> QED BY <1>1, TruthfulStays DEF ExtractedTruthful

LEMMA TelemetryStays ==
  ASSUME TelemetryTruthful, Extends, \A r \in telemetry' : r \in telemetry \/ Truthful(r)'
  PROVE  TelemetryTruthful'
BY TruthfulStays DEF TelemetryTruthful

LEMMA HistoryInit == Init => HistoryInv
<1> SUFFICES ASSUME Init PROVE HistoryInv
  OBVIOUS
<1>1. PICK b \in Beginnings : movements = b.movements /\ telemetry = b.telemetry BY DEF Init
<1>2. TelemetryTruthful
  <2> SUFFICES ASSUME NEW r \in telemetry, r.service = "api", r.type \in OfficialTypes
               PROVE  \/ r.type = "outbound" /\ r.identity \notin Nat
                      \/ Happened(r.type, r.identity, r.owner, r.quantity, r.week)
    BY DEF TelemetryTruthful, Truthful
  <2>1. \/ r.type = "outbound" /\ r.identity \notin Nat
        \/ r.type = "inbound" /\ \E m \in b.movements :
              /\ m.table = "stockentry" /\ r.identity = m.id /\ r.owner = OwnerOf[m.sku]
              /\ r.quantity = m.quantity /\ r.week = m.week
    BY <1>1, HistoryAssumption
  <2> QED BY <1>1, <2>1 DEF Happened
<1> QED BY <1>2 DEF Init, HistoryInv, EventsHappened, ExtractedTruthful

LEMMA HistoryFlow ==
  ASSUME IInv, HistoryInv, Flow \/ ReadFails
  PROVE  HistoryInv'
<1>1. UNCHANGED flowRest
  BY DEF Flow, ReadFails, Starts, AuditsSource, AuditsReporting, ExtractsEvents, ExtractsOrders, Decides
<1>2. UNCHANGED <<tables, telemetry>> /\ Extends BY <1>1, NothingChanges DEF flowRest
<1>3. UNCHANGED outbox BY <1>2 DEF tables
<1>4. EventsHappened' BY <1>2, <1>3, EventsStay DEF HistoryInv
<1>5. TelemetryTruthful' BY <1>2, TelemetryStays DEF HistoryInv
<1>6. ExtractedTruthful'
  <2>1. CASE ExtractsEvents
    <3>1. /\ at' = "orders"
          /\ extracted' = [rows |-> WeeklyRows, evidence |-> WeeksOf(WeeklyRows), records |-> Nothing]
      BY <2>1 DEF ExtractsEvents
    <3>2. \A r \in WeeklyRows : r \in telemetry' /\ r.week = 1
      BY <1>2 DEF WeeklyRows, OfWeek
    <3>3. \A r \in WeeklyRows : Truthful(r)' BY <1>5, <3>2 DEF TelemetryTruthful
    <3> QED BY <3>1, <3>2, <3>3 DEF ExtractedTruthful
  <2>2. CASE ExtractsOrders
    <3>1. PICK rows : rows = extracted.rows
      OBVIOUS
    <3>2. /\ at = "orders"
          /\ extracted' = [extracted EXCEPT !.records = OrderRecords(rows)]
      BY <2>2, <3>1 DEF ExtractsOrders
    <3>3. extracted'.rows = rows /\ extracted'.records = OrderRecords(rows)
      BY <3>1, <3>2 DEF IInv, RecordsOK
    <3>4. \A o \in OrderRecords(rows) : o.id \in Nat
      <4>1. NewId \in Nat /\ \A o \in orders : o.id \in 1 .. NewId - 1
        BY NewIdType DEF IInv, TablesOK, Numbered
      <4>2. \A o \in orders : o.id \in Nat BY <4>1
      <4>3. ASSUME NEW o \in OrderRecords(rows) PROVE o.id \in Nat
        <5>1. PICK p \in orders :
                o = [id |-> p.id, owner |-> p.owner,
                     dispatches |-> Cardinality({m \in movements : m.order = p.id})]
          BY DEF OrderRecords
        <5>2. o.id = p.id BY <5>1
        <5> QED BY <4>2, <5>2
      <4> QED BY <4>3
    <3>5. \A r \in rows : Truthful(r)' /\ r.week = 1
      BY <1>2, <3>1, <3>2, TruthfulStays DEF HistoryInv, ExtractedTruthful
    <3> QED BY <3>3, <3>4, <3>5 DEF ExtractedTruthful
  <2>3. CASE Starts \/ AuditsSource \/ AuditsReporting \/ Decides \/ ReadFails
    <3>1. at' \notin {"orders", "gate"}
      BY <2>3 DEF Starts, AuditsSource, AuditsReporting, Decides, ReadFails, Forgets
    <3> QED BY <3>1 DEF ExtractedTruthful
  <2> QED BY <2>1, <2>2, <2>3 DEF Flow
<1> QED BY <1>4, <1>5, <1>6 DEF HistoryInv

LEMMA HistoryNext == IInv /\ HistoryInv /\ [Next]_vars => HistoryInv'
<1> SUFFICES ASSUME IInv, HistoryInv, [Next]_vars PROVE HistoryInv'
  OBVIOUS
<1>1. ASSUME UNCHANGED <<tables, flowVars>>,
             \A r \in telemetry' : r \in telemetry \/ Truthful(r)'
      PROVE  HistoryInv'
  <2>1. Extends /\ outbox' = outbox BY <1>1, NothingChanges DEF tables
  <2> QED BY <1>1, <2>1, EventsStay, TelemetryStays, ExtractedStays DEF HistoryInv
<1>2. CASE \E s \in SKUs : Commits(s)
  <2>1. Grow BY <1>2, CommitsKeep DEF IInv
  <2> QED BY <2>1, EventsStay, TelemetryStays, ExtractedStays DEF HistoryInv, Grow
<1>3. CASE \E e \in outbox : Delivers(e)
  <2>1. PICK e \in outbox : Delivers(e) BY <1>3
  <2>2. UNCHANGED <<tables, flowVars>> /\ telemetry' = telemetry \cup {RowOf(e)}
    BY <2>1 DEF Delivers
  <2>3. Truthful(RowOf(e))'
    <3>1. PICK r : r = RowOf(e)
      OBVIOUS
    <3>2. EventHappened(e) BY DEF HistoryInv, EventsHappened
    <3>3. EventHappened(e)' BY <2>2, <3>2, NothingChanges, HappenedStays DEF EventHappened
    <3>4. /\ r.type = e.type /\ r.identity = e.source /\ r.owner = e.owner
          /\ r.quantity = e.quantity /\ r.week = e.week
      BY <3>1 DEF RowOf
    <3>5. Truthful(r)' BY <3>3, <3>4 DEF Truthful, EventHappened
    <3> QED BY <3>1, <3>5
  <2> QED BY <1>1, <2>2, <2>3
<1>4. CASE \E row \in Foreign : ReceivesEvents(row)
  <2>1. PICK row \in Foreign : ReceivesEvents(row) BY <1>4
  <2>2. UNCHANGED <<tables, flowVars>> /\ telemetry' = telemetry \cup {row}
    BY <2>1 DEF ReceivesEvents
  <2>3. Truthful(row)' BY HistoryAssumption DEF Truthful
  <2> QED BY <1>1, <2>2, <2>3
<1>5. CASE \/ \E s \in SKUs : Begins(s)
           \/ \E e \in outbox : Acknowledges(e)
           \/ TurnsWeek
           \/ UNCHANGED vars
  <2>1. UNCHANGED <<tables, flowVars, telemetry>>
    BY <1>5 DEF Begins, Acknowledges, TurnsWeek, vars
  <2> QED BY <1>1, <2>1
<1>6. CASE Flow \/ ReadFails
  BY <1>6, HistoryFlow
<1> QED BY <1>2, <1>3, <1>4, <1>5, <1>6 DEF Next

\* Every event of the outbox, and every row of the API that is delivered or extracted,
\* tells what happened.
THEOREM RowsTellFacts == Spec => []HistoryInv
BY HistoryInit, HistoryNext, InductiveInvariant, PTL DEF Spec

-----------------------------------------------------------------------------
(* No more than what happened: the sums. *)

LEMMA TotalsNoMore ==
  ASSUME NEW F, IsFiniteSet(F), \A f \in F : f.weight \in Nat, NEW R, NEW h,
         \A r \in R : /\ h[r] \in F /\ h[r].owner = r.owner /\ h[r].type = r.type
                      /\ Weight(r) = h[r].weight,
         \A r, q \in R : h[r] = h[q] => r = q,
         NEW o, NEW t
  PROVE  Total(R, o, t) <= TotalOfFacts(F, o, t)
<1> DEFINE S == FactsFor(F, o, t)
           Q == {r \in R : r.owner = o /\ r.type = t}
           w == [f \in S |-> WeightOf(f)]
           v == [r \in Q |-> Weight(r)]
           I == {h[r] : r \in Q}
<1>1. I \subseteq S BY DEF FactsFor
<1>2. IsFiniteSet(S) BY FS_Subset DEF FactsFor
<1>3. IsFiniteSet(Q)
  <2> DEFINE H == [r \in Q |-> h[r]]
  <2>1. H \in Injection(Q, S) BY <1>1 DEF Injection, IsInjective
  <2> HIDE DEF H, Q, S
  <2> QED BY <1>2, <2>1, FS_Injection
<1>4. \A f \in S : w[f] \in Nat BY DEF FactsFor, WeightOf
<1>5. \A r \in Q : v[r] \in Int /\ w[h[r]] = v[r] BY <1>1, <1>4 DEF WeightOf
<1>6. \A r, q \in Q : h[r] = h[q] => r = q OBVIOUS
<1>7. TotalOfFacts(F, o, t) = SumOf(w, S)
  <2>1. TotalOfFacts(F, o, t) = MapThenSumSet(WeightOf, S) BY DEF TotalOfFacts, FactsFor
  <2>2. MapThenSumSet(WeightOf, S) = SumOf(w, S)
    <3> HIDE DEF S
    <3> QED BY <1>2, FactsAreASum
  <2> QED BY <2>1, <2>2
<1>8. Total(R, o, t) = SumOf(v, Q)
  <2>1. Total(R, o, t) = MapThenSumSet(Weight, Q) BY DEF Total
  <2>2. MapThenSumSet(Weight, Q) = SumOf(v, Q)
    <3> HIDE DEF Q
    <3> QED BY <1>3, WeightIsASum
  <2> QED BY <2>1, <2>2
<1> HIDE DEF w, v, S, Q
<1>9. SumOf(v, Q) = SumOf(w, I) BY <1>3, <1>5, <1>6, SumOfImage
<1> HIDE DEF I
<1>10. SumOf(w, I) <= SumOf(w, S) BY <1>1, <1>2, <1>4, SumOfFewer
<1> QED BY <1>7, <1>8, <1>9, <1>10

LEMMA FactsAreFinite ==
  ASSUME TablesOK
  PROVE  IsFiniteSet(Facts) /\ \A f \in Facts : f.weight \in Nat
<1> DEFINE A == {n \in OfWeek(movements, 1) : n.table = "stockentry"}
           B == {n \in OfWeek(movements, 1) : ReallyCrossed(n)}
           C == {d \in OfWeek(counts, 1) : Discrepant(d)}
           D == OfWeek(orders, 1)
           a == [m \in A |-> Fact(m.id, m.sku, "inbound", m.quantity)]
           b == [m \in B |-> Fact(m.id, m.sku, "threshold", 1)]
           c == [k \in C |-> Fact(k.id, k.sku, "discrepancy", 1)]
           d == [o \in D |-> [id |-> o.id, owner |-> o.owner, type |-> "outbound", weight |-> 1]]
           FA == {a[m] : m \in A}
           FB == {b[m] : m \in B}
           FC == {c[m] : m \in C}
           FD == {d[m] : m \in D}
<1>1. Facts = ((FA \cup FB) \cup FC) \cup FD BY DEF Facts
<1>2. IsFiniteSet(A) /\ IsFiniteSet(B) /\ IsFiniteSet(C) /\ IsFiniteSet(D)
  BY FS_Subset DEF TablesOK, Numbered, OfWeek
<1>3. (\A m \in A : a[m].weight \in Nat) /\ (\A m \in B : b[m].weight \in Nat)
  BY DEF Fact, OfWeek, TablesOK, MovementsOK
<1>4. (\A m \in C : c[m].weight \in Nat) /\ (\A m \in D : d[m].weight \in Nat)
  BY DEF Fact
<1> HIDE DEF A, B, C, D, a, b, c, d
<1>5. IsFiniteSet(FA) /\ IsFiniteSet(FB) /\ IsFiniteSet(FC) /\ IsFiniteSet(FD)
  BY <1>2, ImageIsFinite
<1>6. \A f \in FA \cup FB \cup FC \cup FD : f.weight \in Nat BY <1>3, <1>4
<1> HIDE DEF FA, FB, FC, FD
<1>7. IsFiniteSet(FA \cup FB) BY <1>5, FS_Union
<1>8. IsFiniteSet((FA \cup FB) \cup FC) BY <1>5, <1>7, FS_Union
<1>9. IsFiniteSet(((FA \cup FB) \cup FC) \cup FD) BY <1>5, <1>8, FS_Union
<1> QED BY <1>1, <1>6, <1>9

\* A fact of the week, for a row that tells one.
LEMMA FactOfRow ==
  ASSUME TablesOK, NEW r, Happened(r.type, r.identity, r.owner, r.quantity, 1)
  PROVE  \E f \in Facts : /\ f.type = r.type /\ f.id = r.identity /\ f.owner = r.owner
                          /\ f.weight = Weight(r)
<1>1. CASE r.type = "inbound"
  <2>1. PICK m \in movements : /\ m.table = "stockentry" /\ m.id = r.identity
                               /\ OwnerOf[m.sku] = r.owner /\ m.quantity = r.quantity
                               /\ m.week = 1
    BY <1>1 DEF Happened
  <2>2. Fact(m.id, m.sku, "inbound", m.quantity) \in Facts BY <2>1 DEF Facts, OfWeek
  <2> QED BY <1>1, <2>1, <2>2 DEF Fact, Weight
<1>2. CASE r.type = "threshold"
  <2>1. PICK m \in movements : /\ ReallyCrossed(m) /\ m.id = r.identity
                               /\ OwnerOf[m.sku] = r.owner /\ m.week = 1
    BY <1>2 DEF Happened
  <2>2. Fact(m.id, m.sku, "threshold", 1) \in Facts BY <2>1 DEF Facts, OfWeek
  <2> QED BY <1>2, <2>1, <2>2 DEF Fact, Weight
<1>3. CASE r.type = "discrepancy"
  <2>1. PICK c \in counts : /\ Discrepant(c) /\ c.id = r.identity /\ OwnerOf[c.sku] = r.owner
                            /\ c.week = 1
    BY <1>3 DEF Happened
  <2>2. Fact(c.id, c.sku, "discrepancy", 1) \in Facts BY <2>1 DEF Facts, OfWeek
  <2> QED BY <1>3, <2>1, <2>2 DEF Fact, Weight
<1>4. CASE r.type = "outbound"
  <2>1. PICK o \in orders : o.id = r.identity /\ o.owner = r.owner /\ o.week = 1
    BY <1>4 DEF Happened
  <2>2. [id |-> o.id, owner |-> o.owner, type |-> "outbound", weight |-> 1] \in Facts
    BY <2>1 DEF Facts, OfWeek
  <2> QED BY <1>4, <2>1, <2>2 DEF Weight
<1> QED BY <1>1, <1>2, <1>3, <1>4 DEF Happened

\* Consolidation leaves one row for each identity.
LEMMA PreparedRows ==
  ASSUME NEW rows, NEW evidence
  PROVE  /\ \A r \in Prepared(rows, evidence) : r \in rows /\ ValidEvent(r)
         /\ \A r, q \in Prepared(rows, evidence) : MovementKey(r) = MovementKey(q) => r = q
<1> DEFINE K == KeysOf(rows) \ ConflictingKeys(rows, evidence)
           pick == [k \in K |-> CHOOSE r \in Group(rows, k) : TRUE]
<1>1. ASSUME NEW k \in K PROVE pick[k] \in Group(rows, k)
  <2>1. Group(rows, k) # {} BY DEF KeysOf, Group
  <2> QED BY <2>1
<1>2. Prepared(rows, evidence) = {pick[k] : k \in K} BY DEF Prepared
<1>3. \A k \in K : /\ pick[k] \in rows /\ ValidEvent(pick[k])
                  /\ MovementKey(pick[k]) = k
  BY <1>1 DEF Group, Validated, UniqueRows
<1> HIDE DEF pick, K
<1> QED BY <1>2, <1>3

\* Whatever telemetry holds, the numbers that reach the gate do not exceed the facts:
\* not by repeated rows, rows of browsers, rows of two weeks or orders that are gone.
THEOREM NothingIsOvercounted == Spec => []NeverOvercounted
<1>1. IInv /\ HistoryInv => NeverOvercounted
  <2> SUFFICES ASSUME IInv, HistoryInv, at = "gate" PROVE NeverOvercounted
    BY DEF NeverOvercounted
  <2>1. PICK rows, records, evidence :
          rows = extracted.rows /\ records = extracted.records /\ evidence = extracted.evidence
    OBVIOUS
  <2> DEFINE P == Prepared(rows, evidence)
             E == Counted(P, records)
             F == Facts
             h == [r \in E |-> CHOOSE f \in F : /\ f.type = r.type /\ f.id = r.identity
                                              /\ f.owner = r.owner /\ f.weight = Weight(r)]
  <2>2. /\ \A r \in P : r \in rows /\ ValidEvent(r)
        /\ \A r, q \in P : MovementKey(r) = MovementKey(q) => r = q
    BY PreparedRows
  <2>3. ASSUME NEW r \in E PROVE Happened(r.type, r.identity, r.owner, r.quantity, 1)
    <3>1. r \in P /\ (r.type # "outbound" \/ Verified(r, records)) BY DEF Counted
    <3>2. r \in rows /\ r.service = "api" /\ r.type \in OfficialTypes
      BY <2>2, <3>1 DEF ValidEvent
    <3>3. Truthful(r) /\ r.week = 1 BY <2>1, <3>2 DEF HistoryInv, ExtractedTruthful
    <3>4. r.type = "outbound" => r.identity \in Nat
      BY <2>1, <3>1 DEF Verified, OrdersNamed, HistoryInv, ExtractedTruthful
    <3> QED BY <3>2, <3>3, <3>4 DEF Truthful
  <2>4. ASSUME NEW r \in E
        PROVE  /\ h[r] \in F /\ h[r].type = r.type /\ h[r].id = r.identity
               /\ h[r].owner = r.owner /\ h[r].weight = Weight(r)
    <3>1. \E f \in F : /\ f.type = r.type /\ f.id = r.identity
                       /\ f.owner = r.owner /\ f.weight = Weight(r)
      BY <2>3, FactOfRow DEF IInv
    <3> QED BY <3>1
  <2>5. ASSUME NEW r \in E, NEW q \in E, h[r] = h[q] PROVE r = q
    <3>1. MovementKey(r) = MovementKey(q)
      <4>1. h[r].type = r.type /\ h[r].id = r.identity BY <2>4
      <4>2. h[q].type = q.type /\ h[q].id = q.identity BY <2>4
      <4> HIDE DEF h
      <4> QED BY <2>5, <4>1, <4>2 DEF MovementKey
    <3>2. r \in P /\ q \in P BY DEF Counted
    <3> QED BY <2>2, <3>1, <3>2
  <2>6. IsFiniteSet(F) /\ \A f \in F : f.weight \in Nat BY FactsAreFinite DEF IInv
  <2>7. Truth = TruthOf(F) BY DEF Truth, TruthOf, TotalOfFacts
  <2>8. Result.aggregates = <<>> \/ Result.aggregates = Totals(E)
    BY <2>1 DEF Result, Transform
  <2> HIDE DEF h, F, E
  <2>9. \A o, t : Total(E, o, t) <= TotalOfFacts(F, o, t) BY <2>4, <2>5, <2>6, TotalsNoMore
  <2>10. ASSUME NEW o \in DOMAIN Result.aggregates, NEW t \in OfficialTypes
         PROVE  o \in DOMAIN Truth /\ Result.aggregates[o][t] <= Truth[o][t]
    <3>1. CASE Result.aggregates = <<>>
      BY <2>10, <3>1
    <3>2. CASE Result.aggregates = Totals(E)
      <4>1. o \in {r.owner : r \in E} /\ Totals(E)[o][t] = Total(E, o, t)
        BY <2>10, <3>2 DEF Totals
      <4>2. o \in {f.owner : f \in F} BY <2>4, <4>1
      <4>3. o \in DOMAIN TruthOf(F) /\ TruthOf(F)[o][t] = TotalOfFacts(F, o, t)
        BY <4>2 DEF TruthOf
      <4> QED BY <2>7, <2>9, <3>2, <4>1, <4>3
    <3> QED BY <2>8, <3>1, <3>2
  <2> QED BY <2>10 DEF NeverOvercounted
<1> QED BY <1>1, InductiveInvariant, RowsTellFacts, PTL
=============================================================================
