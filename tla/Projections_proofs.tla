------------------------ MODULE Projections_proofs --------------------------
(***************************************************************************)
(* Proofs about Projections for any threads, SKUs and times to live: the   *)
(* tables only grow, so what a request read earlier bounds what is there.  *)
(***************************************************************************)
EXTENDS Projections, TLAPS

-----------------------------------------------------------------------------
(* The inductive invariant. *)

SkuTables == UNION {[S -> {0, 1}] : S \in SUBSET SKUs}
Counts == [SKUs -> Nat]
Tables == SkuTables \cup Counts \cup [EventTypes -> Nat]

\* Only a SKU of the catalogue has movements, and no more leaves than came in.
DbOK ==
  /\ db \in [skus : SkuTables, entries : Counts, exits : Counts, events : [EventTypes -> Nat]]
  /\ \A s \in SKUs : /\ db.exits[s] <= db.entries[s]
                     /\ db.entries[s] > 0 => s \in DOMAIN db.skus

CacheOK ==
  /\ DOMAIN cache = Cached
  /\ \A k \in Cached :
       \/ cache[k] = Nothing
       \/ /\ cache[k] = [value |-> cache[k].value, life |-> cache[k].life]
          /\ cache[k].life \in 0 .. TTL[k]

\* What a query returned was in the table, and nothing leaves a table.
Past(table, rows) ==
  /\ table \in {"entries", "exits"} => rows \in Counts /\ \A s \in SKUs : rows[s] <= db[table][s]
  /\ table = "skus" => rows \in SkuTables /\ DOMAIN rows \subseteq DOMAIN db.skus

Invalidating(t) == /\ doing[t].op = "invalidate"
                   /\ doing[t] = Invalidates(doing[t].keys)
                   /\ doing[t].keys \in Seq(Cached) /\ doing[t].keys # <<>>

Reading(t) ==
  LET op   == doing[t].op
      seen == doing[t].seen
  IN /\ doing[t] = [op |-> op, seen |-> seen]
     /\ op \in DOMAIN QueriesOf
     /\ seen \in Seq(Tables)
     /\ Len(seen) <= Len(QueriesOf[op])
     /\ \A i \in 1 .. Len(seen) : Past(QueriesOf[op][i], seen[i])

ThreadOK(t) == doing[t] = Idle \/ Invalidating(t) \/ Reading(t)

DoingOK == DOMAIN doing = Threads /\ \A t \in Threads : ThreadOK(t)

IInv == DbOK /\ CacheOK /\ DoingOK

-----------------------------------------------------------------------------
(* The queries of the requests. *)

LEMMA Queries ==
  /\ DOMAIN QueriesOf = {"products", "product", "orders", "report"}
  /\ \A op \in {"products", "product"} :
       /\ Len(QueriesOf[op]) = 3 /\ QueriesOf[op][1] = "skus"
       /\ QueriesOf[op][2] = "entries" /\ QueriesOf[op][3] = "exits"
  /\ Len(QueriesOf["orders"]) = 3 /\ QueriesOf["orders"][1] = "entries"
  /\ QueriesOf["orders"][2] = "exits" /\ QueriesOf["orders"][3] = "skus"
  /\ Len(QueriesOf["report"]) = 4
  /\ \A i \in 1 .. 4 : QueriesOf["report"][i] = "events"
BY DEF QueriesOf

LEMMA QueriedTables ==
  ASSUME NEW op \in DOMAIN QueriesOf
  PROVE  /\ Len(QueriesOf[op]) \in Nat
         /\ \A i \in 1 .. Len(QueriesOf[op]) :
              QueriesOf[op][i] \in {"skus", "entries", "exits", "events"}
<1>1. CASE op \in {"products", "product"}
  BY <1>1, Queries
<1>2. CASE op = "orders"
  BY <1>2, Queries
<1>3. CASE op = "report"
  BY <1>3, Queries
<1> QED BY <1>1, <1>2, <1>3, Queries

-----------------------------------------------------------------------------
(* Steps that write. *)

\* Every table keeps what it has.
Grows ==
  /\ \A s \in SKUs : db.entries[s] <= db'.entries[s] /\ db.exits[s] <= db'.exits[s]
  /\ DOMAIN db.skus \subseteq DOMAIN db'.skus

LEMMA CreatesDb ==
  ASSUME DbOK, NEW t \in Threads, NEW s \in SKUs, CreatesProduct(t, s)
  PROVE  DbOK' /\ Grows
<1> DEFINE skus == [p \in DOMAIN db.skus \cup {s} |-> IF p = s THEN 0 ELSE db.skus[p]]
<1>1. db' = [db EXCEPT !.skus = skus] BY DEF CreatesProduct
<1>2. PICK S \in SUBSET SKUs : db.skus \in [S -> {0, 1}] BY DEF DbOK, SkuTables
<1>3. skus \in [S \cup {s} -> {0, 1}] /\ S \cup {s} \in SUBSET SKUs BY <1>2
<1>4. skus \in SkuTables /\ DOMAIN db.skus \subseteq DOMAIN skus BY <1>2, <1>3 DEF SkuTables
<1> HIDE DEF skus
<1>5. db'.skus = skus /\ db'.entries = db.entries /\ db'.exits = db.exits
  BY <1>1 DEF DbOK
<1>6. db' \in [skus : SkuTables, entries : Counts, exits : Counts,
               events : [EventTypes -> Nat]]
  BY <1>1, <1>4 DEF DbOK
<1>7. \A p \in SKUs : db.entries[p] \in Nat /\ db.exits[p] \in Nat BY DEF DbOK, Counts
<1> QED BY <1>4, <1>5, <1>6, <1>7 DEF DbOK, Grows
LEMMA ConfiguresDb ==
  ASSUME DbOK, NEW t \in Threads, NEW s \in SKUs, ConfiguresThreshold(t, s)
  PROVE  DbOK' /\ Grows
<1>1. db' = [db EXCEPT !.skus = [db.skus EXCEPT ![s] = 1]] BY DEF ConfiguresThreshold, DbOK
<1>2. PICK S \in SUBSET SKUs : db.skus \in [S -> {0, 1}] BY DEF DbOK, SkuTables
<1>3. [db.skus EXCEPT ![s] = 1] \in [S -> {0, 1}] BY <1>2
<1> DEFINE skus == [db.skus EXCEPT ![s] = 1]
<1>4. skus \in SkuTables /\ DOMAIN db.skus \subseteq DOMAIN skus BY <1>2, <1>3 DEF SkuTables
<1> HIDE DEF skus
<1>5. db'.skus = skus /\ db'.entries = db.entries /\ db'.exits = db.exits
  BY <1>1 DEF DbOK, skus
<1>6. db' \in [skus : SkuTables, entries : Counts, exits : Counts,
               events : [EventTypes -> Nat]]
  BY <1>1, <1>4 DEF DbOK, skus
<1>7. \A p \in SKUs : db.entries[p] \in Nat /\ db.exits[p] \in Nat BY DEF DbOK, Counts
<1> QED BY <1>4, <1>5, <1>6, <1>7 DEF DbOK, Grows

LEMMA MovesDb ==
  ASSUME DbOK, NEW t \in Threads, NEW s \in SKUs, NEW table \in {"entries", "exits"},
         Moves(t, table, s)
  PROVE  DbOK' /\ Grows
<1>1. \A p \in SKUs : db.entries[p] \in Nat /\ db.exits[p] \in Nat BY DEF DbOK, Counts
<1>2. s \in DOMAIN db.skus BY DEF Moves
<1>3. CASE table = "entries"
  <2> DEFINE entries == [db.entries EXCEPT ![s] = @ + 1]
  <2>1. db' = [db EXCEPT !.entries = entries] BY <1>3 DEF Moves, DbOK
  <2>2. entries \in Counts BY <1>1 DEF DbOK, Counts
  <2>3. \A p \in SKUs : entries[p] = IF p = s THEN db.entries[p] + 1 ELSE db.entries[p]
    BY DEF DbOK, Counts
  <2> HIDE DEF entries
  <2>4. db'.skus = db.skus /\ db'.entries = entries /\ db'.exits = db.exits
    BY <2>1 DEF DbOK
  <2>5. db' \in [skus : SkuTables, entries : Counts, exits : Counts,
                 events : [EventTypes -> Nat]]
    BY <2>1, <2>2 DEF DbOK
  <2> QED BY <1>1, <1>2, <2>3, <2>4, <2>5 DEF DbOK, Grows
<1>4. CASE table = "exits"
  <2> DEFINE exits == [db.exits EXCEPT ![s] = @ + 1]
  <2>1. db' = [db EXCEPT !.exits = exits] /\ db.entries[s] > db.exits[s]
    BY <1>4 DEF Moves, DbOK
  <2>2. exits \in Counts BY <1>1 DEF DbOK, Counts
  <2>3. \A p \in SKUs : exits[p] = IF p = s THEN db.exits[p] + 1 ELSE db.exits[p]
    BY DEF DbOK, Counts
  <2> HIDE DEF exits
  <2>4. db'.skus = db.skus /\ db'.entries = db.entries /\ db'.exits = exits
    BY <2>1 DEF DbOK
  <2>5. db' \in [skus : SkuTables, entries : Counts, exits : Counts,
                 events : [EventTypes -> Nat]]
    BY <2>1, <2>2 DEF DbOK
  <2> QED BY <1>1, <2>1, <2>3, <2>4, <2>5 DEF DbOK, Grows
<1> QED BY <1>3, <1>4

LEMMA ReceivesDb ==
  ASSUME DbOK, NEW e \in EventTypes, ReceivesEvent(e)
  PROVE  DbOK' /\ Grows
<1> DEFINE events == [db.events EXCEPT ![e] = @ + 1]
<1>1. db' = [db EXCEPT !.events = events] BY DEF ReceivesEvent, DbOK
<1>2. events \in [EventTypes -> Nat] BY DEF DbOK
<1> HIDE DEF events
<1>3. db'.skus = db.skus /\ db'.entries = db.entries /\ db'.exits = db.exits
  BY <1>1 DEF DbOK
<1>4. db' \in [skus : SkuTables, entries : Counts, exits : Counts,
               events : [EventTypes -> Nat]]
  BY <1>1, <1>2 DEF DbOK
<1>5. \A p \in SKUs : db.entries[p] \in Nat /\ db.exits[p] \in Nat BY DEF DbOK, Counts
<1> QED BY <1>3, <1>4, <1>5 DEF DbOK, Grows

LEMMA SameDb ==
  ASSUME DbOK, db' = db
  PROVE  DbOK' /\ Grows
<1>1. \A p \in SKUs : db.entries[p] \in Nat /\ db.exits[p] \in Nat BY DEF DbOK, Counts
<1> QED BY <1>1 DEF DbOK, Grows

\* What was read before a step that only adds is still there after it.
LEMMA PastStays ==
  ASSUME DbOK, DbOK', Grows, NEW table, NEW rows, Past(table, rows)
  PROVE  Past(table, rows)'
<1>1. \A s \in SKUs : /\ db.entries[s] \in Nat /\ db.exits[s] \in Nat
                      /\ db'.entries[s] \in Nat /\ db'.exits[s] \in Nat
  BY DEF DbOK, Counts
<1>2. CASE table = "entries"
  <2>1. rows \in Counts /\ \A s \in SKUs : rows[s] \in Nat /\ rows[s] <= db.entries[s]
    BY <1>2 DEF Past, Counts
  <2>2. \A s \in SKUs : rows[s] <= db'.entries[s] BY <1>1, <2>1 DEF Grows
  <2> QED BY <1>2, <2>1, <2>2 DEF Past
<1>3. CASE table = "exits"
  <2>1. rows \in Counts /\ \A s \in SKUs : rows[s] \in Nat /\ rows[s] <= db.exits[s]
    BY <1>3 DEF Past, Counts
  <2>2. \A s \in SKUs : rows[s] <= db'.exits[s] BY <1>1, <2>1 DEF Grows
  <2> QED BY <1>3, <2>1, <2>2 DEF Past
<1>4. CASE table \notin {"entries", "exits"} BY <1>4 DEF Past, Grows
<1> QED BY <1>2, <1>3, <1>4

LEMMA ThreadStays ==
  ASSUME DbOK, DbOK', Grows, NEW t \in Threads, ThreadOK(t), doing'[t] = doing[t]
  PROVE  ThreadOK(t)'
<1>1. CASE doing[t] = Idle BY <1>1 DEF ThreadOK, Idle
<1>2. CASE Invalidating(t) BY <1>2 DEF ThreadOK, Invalidating, Invalidates
<1>3. CASE Reading(t)
  <2> DEFINE op == doing[t].op
             seen == doing[t].seen
  <2>1. \A i \in 1 .. Len(seen) : Past(QueriesOf[op][i], seen[i]) BY <1>3 DEF Reading
  <2>2. PICK o, n : o = op /\ n = seen OBVIOUS
  <2>3. \A i \in 1 .. Len(n) : Past(QueriesOf[o][i], n[i])' BY <2>1, <2>2, PastStays
  <2>4. doing'[t].op = o /\ doing'[t].seen = n BY <2>2
  <2>5. /\ doing[t] = [op |-> o, seen |-> n]
        /\ o \in DOMAIN QueriesOf
        /\ n \in Seq(Tables)
        /\ Len(n) <= Len(QueriesOf[o])
    BY <1>3, <2>2 DEF Reading
  <2> QED BY <2>3, <2>4, <2>5 DEF ThreadOK, Reading, Past
<1> QED BY <1>1, <1>2, <1>3 DEF ThreadOK
\* A step of one thread.
LEMMA OneThread ==
  ASSUME DbOK, DbOK', Grows, DoingOK, NEW t \in Threads, NEW x,
         doing' = [doing EXCEPT ![t] = x], ThreadOK(t)'
  PROVE  DoingOK'
<1>1. \A u \in Threads \ {t} : ThreadOK(u)' BY ThreadStays DEF DoingOK
<1> QED BY <1>1 DEF DoingOK

LEMMA Rest ==
  ASSUME DbOK, DbOK', Grows, DoingOK, doing' = doing
  PROVE  DoingOK'
BY ThreadStays DEF DoingOK

LEMMA Ends ==
  ASSUME DoingOK, NEW t \in Threads, doing' = [doing EXCEPT ![t] = Idle]
  PROVE  ThreadOK(t)'
BY DEF DoingOK, ThreadOK, Idle

LEMMA CachedLists == Cached = {"products", "orders", "report"}
BY TTLAssumption DEF Cached

LEMMA GoesInvalidating ==
  ASSUME DoingOK, NEW t \in Threads, NEW keys \in Seq(Cached), keys # <<>>,
         doing' = [doing EXCEPT ![t] = Invalidates(keys)]
  PROVE  ThreadOK(t)'
BY DEF DoingOK, ThreadOK, Invalidating, Invalidates

LEMMA WritesKeeps ==
  ASSUME IInv, NEW t \in Threads, Writes(t)
  PROVE  IInv'
<1>1. PICK s \in SKUs : \/ CreatesProduct(t, s)
                        \/ ConfiguresThreshold(t, s)
                        \/ \E table \in {"entries", "exits"} : Moves(t, table, s)
  BY DEF Writes
<1>2. DbOK' /\ Grows BY <1>1, CreatesDb, ConfiguresDb, MovesDb DEF IInv
<1>3. <<"products">> \in Seq(Cached) /\ <<"products", "orders">> \in Seq(Cached)
  BY CachedLists
<1>4. PICK keys \in Seq(Cached) : keys # <<>> /\ doing' = [doing EXCEPT ![t] = Invalidates(keys)]
  BY <1>1, <1>3 DEF CreatesProduct, ConfiguresThreshold, Moves
<1>5. DoingOK' BY <1>2, <1>4, GoesInvalidating, OneThread DEF IInv
<1>6. CacheOK'
  <2>1. cache' = cache BY <1>1 DEF CreatesProduct, ConfiguresThreshold, Moves
  <2> QED BY <2>1 DEF IInv, CacheOK
<1> QED BY <1>2, <1>5, <1>6 DEF IInv

LEMMA ReceivesKeeps ==
  ASSUME IInv, NEW e \in EventTypes, ReceivesEvent(e)
  PROVE  IInv'
<1>1. DbOK' /\ Grows BY ReceivesDb DEF IInv
<1>2. doing' = doing /\ cache' = cache BY DEF ReceivesEvent
<1>3. DoingOK' BY <1>1, <1>2, Rest DEF IInv
<1> QED BY <1>1, <1>2, <1>3 DEF IInv, CacheOK

\* A list is forgotten, or kept for its time to live.
LEMMA CacheSteps ==
  ASSUME CacheOK
  PROVE  /\ cache' = cache => CacheOK'
         /\ \A k : cache' = [cache EXCEPT ![k] = Nothing] => CacheOK'
         /\ \A k, value : k \in Cached /\ cache' = Stored(cache, k, value) => CacheOK'
<1>1. \A k \in Cached : TTL[k] \in Nat BY TTLAssumption DEF Cached
<1>2. cache' = cache => CacheOK' BY DEF CacheOK
<1>3. ASSUME NEW k, cache' = [cache EXCEPT ![k] = Nothing] PROVE CacheOK'
  BY <1>3 DEF CacheOK
<1>4. ASSUME NEW k, NEW value, k \in Cached, cache' = Stored(cache, k, value) PROVE CacheOK'
  <2>1. cache' = [cache EXCEPT ![k] = [value |-> value, life |-> TTL[k]]]
    BY <1>4 DEF Stored
  <2>2. cache'[k] = [value |-> value, life |-> TTL[k]] /\ DOMAIN cache' = Cached
    BY <1>4, <2>1 DEF CacheOK
  <2>3. \A j \in Cached \ {k} : cache'[j] = cache[j] BY <2>1 DEF CacheOK
  <2>4. TTL[k] \in 0 .. TTL[k] BY <1>1, <1>4
  <2> QED BY <2>2, <2>3, <2>4 DEF CacheOK
<1> QED BY <1>2, <1>3, <1>4

LEMMA TickKeeps ==
  ASSUME IInv, Tick
  PROVE  IInv'
<1>1. DbOK' /\ Grows BY SameDb DEF IInv, Tick
<1>2. DoingOK' BY <1>1, Rest DEF IInv, Tick
<1>3. CacheOK'
  <2>1. cache' = [k \in Cached |-> IF Live(k) THEN [cache[k] EXCEPT !.life = @ - 1]
                                   ELSE cache[k]]
    BY DEF Tick
  <2>2. \A k \in Cached : TTL[k] \in Nat BY TTLAssumption DEF Cached
  <2>3. ASSUME NEW k \in Cached
        PROVE  \/ cache'[k] = Nothing
               \/ /\ cache'[k] = [value |-> cache'[k].value, life |-> cache'[k].life]
                  /\ cache'[k].life \in 0 .. TTL[k]
    <3>1. CASE Live(k)
      <4>1. /\ cache[k] = [value |-> cache[k].value, life |-> cache[k].life]
            /\ cache[k].life \in 0 .. TTL[k] /\ cache[k].life > 0
        BY <3>1 DEF IInv, CacheOK, Live
      <4>2. cache'[k] = [cache[k] EXCEPT !.life = cache[k].life - 1] BY <2>1, <3>1
      <4>3. cache'[k] = [value |-> cache[k].value, life |-> cache[k].life - 1]
        BY <4>1, <4>2
      <4>4. cache[k].life - 1 \in 0 .. TTL[k] BY <2>2, <4>1
      <4> QED BY <4>3, <4>4
    <3>2. CASE ~ Live(k)
      <4>1. cache'[k] = cache[k] BY <2>1, <3>2
      <4> QED BY <4>1 DEF IInv, CacheOK
    <3> QED BY <3>1, <3>2
  <2> QED BY <2>1, <2>3 DEF CacheOK
<1> QED BY <1>1, <1>2, <1>3 DEF IInv

LEMMA StartsKeeps ==
  ASSUME IInv, NEW t \in Threads, NEW op \in DOMAIN QueriesOf, StartsReading(t, op)
  PROVE  IInv'
<1>1. DbOK' /\ Grows BY SameDb DEF IInv, StartsReading
<1>2. doing' = [doing EXCEPT ![t] = [op |-> op, seen |-> <<>>]] BY DEF StartsReading
<1>3. doing'[t] = [op |-> op, seen |-> <<>>] BY <1>2 DEF IInv, DoingOK
<1>4. Reading(t)' BY <1>3, QueriedTables DEF Reading
<1>5. DoingOK' BY <1>1, <1>2, <1>4, OneThread DEF IInv, ThreadOK
<1>6. CacheOK' BY CacheSteps DEF IInv, StartsReading, Missed
<1> QED BY <1>1, <1>5, <1>6 DEF IInv

\* A query returns what is in its table.
LEMMA QueryReturns ==
  ASSUME DbOK, NEW table \in {"skus", "entries", "exits", "events"}
  PROVE  db[table] \in Tables /\ Past(table, db[table])
<1>1. \A s \in SKUs : db.entries[s] \in Nat /\ db.exits[s] \in Nat BY DEF DbOK, Counts
<1>2. CASE table = "skus" BY <1>2 DEF DbOK, Past, Tables
<1>3. CASE table = "entries" BY <1>1, <1>3 DEF DbOK, Past, Tables
<1>4. CASE table = "exits" BY <1>1, <1>4 DEF DbOK, Past, Tables
<1>5. CASE table = "events" BY <1>5 DEF DbOK, Past, Tables
<1> QED BY <1>2, <1>3, <1>4, <1>5
\* What a thread has read after its next query.
LEMMA ReadsMore ==
  ASSUME IInv, NEW t \in Threads, Reads(t)
  PROVE  \E op \in DOMAIN QueriesOf : \E seen \in Seq(Tables) :
           /\ doing[t] = [op |-> op, seen |-> seen]
           /\ Len(seen) < Len(QueriesOf[op])
           /\ \A i \in 1 .. Len(seen) : Past(QueriesOf[op][i], seen[i])
           /\ doing' = [doing EXCEPT ![t].seen = Append(seen, db[QueriesOf[op][Len(seen) + 1]])]
           /\ db' = db /\ cache' = cache
<1>1. doing[t].op \in DOMAIN QueriesOf BY DEF Reads
<1>2. Reading(t)
  <2>1. doing[t] # Idle BY <1>1, Queries DEF Idle
  <2>2. ~ Invalidating(t) BY <1>1, Queries DEF Invalidating
  <2> QED BY <2>1, <2>2 DEF IInv, DoingOK, ThreadOK
<1>3. PICK op, seen : op = doing[t].op /\ seen = doing[t].seen OBVIOUS
<1>4. /\ op \in DOMAIN QueriesOf /\ seen \in Seq(Tables)
      /\ doing[t] = [op |-> op, seen |-> seen]
      /\ \A i \in 1 .. Len(seen) : Past(QueriesOf[op][i], seen[i])
  BY <1>2, <1>3 DEF Reading
<1>5. /\ Len(seen) < Len(QueriesOf[op])
      /\ doing' = [doing EXCEPT ![t].seen = Append(seen, db[QueriesOf[op][Len(seen) + 1]])]
      /\ db' = db /\ cache' = cache
  BY <1>3 DEF Reads, IInv, DoingOK
<1> QED BY <1>4, <1>5

LEMMA ReadsKeeps ==
  ASSUME IInv, NEW t \in Threads, Reads(t)
  PROVE  /\ IInv' /\ Reading(t)' /\ db' = db
         /\ QueriesOf[doing'[t].op][Len(doing'[t].seen)] # "events" =>
              doing'[t].seen[Len(doing'[t].seen)]
                = db[QueriesOf[doing'[t].op][Len(doing'[t].seen)]]
<1>1. PICK op \in DOMAIN QueriesOf, seen \in Seq(Tables) :
        /\ doing[t] = [op |-> op, seen |-> seen]
        /\ Len(seen) < Len(QueriesOf[op])
        /\ \A i \in 1 .. Len(seen) : Past(QueriesOf[op][i], seen[i])
        /\ doing' = [doing EXCEPT ![t].seen = Append(seen, db[QueriesOf[op][Len(seen) + 1]])]
        /\ db' = db /\ cache' = cache
  BY ReadsMore
<1>2. PICK table, rows : table = QueriesOf[op][Len(seen) + 1] /\ rows = db[table] OBVIOUS
<1>3. Len(seen) \in Nat /\ Len(QueriesOf[op]) \in Nat BY QueriedTables
<1>4. table \in {"skus", "entries", "exits", "events"} BY <1>1, <1>2, <1>3, QueriedTables
<1>5. rows \in Tables /\ Past(table, rows) BY <1>2, <1>4, QueryReturns DEF IInv
<1>6. PICK more : more = Append(seen, rows) OBVIOUS
<1>7. /\ more \in Seq(Tables) /\ Len(more) = Len(seen) + 1
      /\ \A i \in 1 .. Len(seen) : more[i] = seen[i]
      /\ more[Len(seen) + 1] = rows
  BY <1>5, <1>6
<1>8. \A i \in 1 .. Len(more) : Past(QueriesOf[op][i], more[i])
  <2> SUFFICES ASSUME NEW i \in 1 .. Len(more) PROVE Past(QueriesOf[op][i], more[i])
    OBVIOUS
  <2>1. CASE i = Len(seen) + 1 BY <1>2, <1>5, <1>7, <2>1
  <2>2. CASE i \in 1 .. Len(seen) BY <1>1, <1>7, <2>2
  <2> QED BY <1>3, <1>7, <2>1, <2>2
<1>9. DbOK' /\ Grows BY <1>1, SameDb DEF IInv
<1>10. \A i \in 1 .. Len(more) : Past(QueriesOf[op][i], more[i])'
  BY <1>8, <1>9, PastStays DEF IInv
<1>11. doing' = [doing EXCEPT ![t] = [op |-> op, seen |-> more]]
  <2>1. doing' = [doing EXCEPT ![t].seen = more] BY <1>1, <1>2, <1>6
  <2>2. doing' = [doing EXCEPT ![t] = [doing[t] EXCEPT !.seen = more]] BY <2>1
  <2>3. [doing[t] EXCEPT !.seen = more] = [op |-> op, seen |-> more] BY <1>1
  <2> QED BY <2>2, <2>3
<1>12. doing'[t] = [op |-> op, seen |-> more] BY <1>11 DEF IInv, DoingOK
<1>13. Reading(t)'
  <2>1. Len(more) <= Len(QueriesOf[op]) BY <1>1, <1>3, <1>7
  <2> QED BY <1>7, <1>10, <1>12, <2>1 DEF Reading, Past
<1>14. DoingOK' BY <1>9, <1>11, <1>13, OneThread DEF IInv, ThreadOK
<1>15. CacheOK' BY <1>1, CacheSteps DEF IInv
<1> QED BY <1>1, <1>2, <1>7, <1>9, <1>12, <1>13, <1>14, <1>15 DEF IInv

LEMMA AnswersKeeps ==
  ASSUME IInv, NEW t \in Threads, Answers(t)
  PROVE  IInv'
<1>1. DbOK' /\ Grows BY SameDb DEF IInv, Answers
<1>2. DoingOK' BY <1>1, Ends, OneThread DEF IInv, Answers
<1>3. PICK op, value : op = doing[t].op /\ value = Compose(op, doing[t].seen) OBVIOUS
<1>4. cache' = cache \/ (op \in Cached /\ cache' = Stored(cache, op, value))
  BY <1>3 DEF Answers
<1>5. CacheOK' BY <1>4, CacheSteps DEF IInv
<1> QED BY <1>1, <1>2, <1>5 DEF IInv

LEMMA InvalidatesKeeps ==
  ASSUME IInv, NEW t \in Threads, InvalidatesNext(t)
  PROVE  IInv'
<1>1. DbOK' /\ Grows BY SameDb DEF IInv, InvalidatesNext
<1>2. doing[t].op = "invalidate" BY DEF InvalidatesNext
<1>3. Invalidating(t)
  <2>1. doing[t] # Idle BY <1>2 DEF Idle
  <2>2. ~ Reading(t) BY <1>2, Queries DEF Reading
  <2> QED BY <2>1, <2>2 DEF IInv, DoingOK, ThreadOK
<1>4. PICK keys \in Seq(Cached) : keys = doing[t].keys BY <1>3 DEF Invalidating
<1>5. ThreadOK(t)' /\ DoingOK'
  <2>1. CASE Len(keys) = 1
    <3>1. doing' = [doing EXCEPT ![t] = Idle] BY <1>4, <2>1 DEF InvalidatesNext
    <3> QED BY <1>1, <3>1, Ends, OneThread DEF IInv
  <2>2. CASE Len(keys) # 1 /\ keys # <<>>
    <3>1. doing' = [doing EXCEPT ![t] = Invalidates(Tail(keys))]
      BY <1>4, <2>2 DEF InvalidatesNext
    <3>2. Tail(keys) \in Seq(Cached) /\ Tail(keys) # <<>>
      <4>1. Len(keys) \in Nat /\ Len(keys) # 0 BY <2>2
      <4>2. Tail(keys) \in Seq(Cached) /\ Len(Tail(keys)) = Len(keys) - 1 BY <2>2
      <4>3. Len(Tail(keys)) # 0 BY <2>2, <4>1, <4>2
      <4>4. Len(<<>>) = 0 OBVIOUS
      <4>5. Tail(keys) # <<>> BY ONLY <4>3, <4>4, Zenon
      <4> QED BY <4>2, <4>5
    <3>3. PICK rest \in Seq(Cached) : rest = Tail(keys) /\ rest # <<>> BY <3>2
    <3>4. doing' = [doing EXCEPT ![t] = Invalidates(rest)] BY <3>1, <3>3
    <3>5. ThreadOK(t)' BY <3>3, <3>4, GoesInvalidating DEF IInv
    <3> QED BY <1>1, <3>4, <3>5, OneThread DEF IInv
  <2>3. keys # <<>> BY <1>3, <1>4 DEF Invalidating
  <2> QED BY <2>1, <2>2, <2>3
<1>6. PICK k : cache' = [cache EXCEPT ![k] = Nothing] BY DEF InvalidatesNext
<1>7. CacheOK' BY <1>6, CacheSteps DEF IInv
<1> QED BY <1>1, <1>5, <1>7 DEF IInv

LEMMA RestartsKeeps ==
  ASSUME IInv, Restarts
  PROVE  IInv'
<1>1. DbOK' BY SameDb DEF IInv, Restarts
<1>2. DoingOK' BY DEF Restarts, DoingOK, ThreadOK, Idle
<1>3. CacheOK' BY DEF Restarts, CacheOK
<1> QED BY <1>1, <1>2, <1>3 DEF IInv

LEMMA HitKeeps ==
  ASSUME IInv, NEW t \in Threads, NEW k \in Cached, AnswersFromCache(t, k)
  PROVE  IInv'
<1>1. db' = db /\ doing' = doing /\ cache' = cache BY DEF AnswersFromCache, Hit
<1>2. DbOK' /\ Grows BY <1>1, SameDb DEF IInv
<1> QED BY <1>1, <1>2, Rest, CacheSteps DEF IInv

LEMMA InvInit == Init => IInv
<1> SUFFICES ASSUME Init PROVE IInv
  OBVIOUS
<1>1. db = [skus |-> <<>>, entries |-> [s \in SKUs |-> 0], exits |-> [s \in SKUs |-> 0],
            events |-> [e \in EventTypes |-> 0]]
  BY DEF Init
<1>2. <<>> \in [{} -> {0, 1}] OBVIOUS
<1>3. <<>> \in SkuTables BY <1>2 DEF SkuTables
<1>4. DbOK BY <1>1, <1>3 DEF DbOK, Counts
<1>5. CacheOK BY DEF Init, CacheOK
<1>6. DoingOK BY DEF Init, DoingOK, ThreadOK
<1> QED BY <1>4, <1>5, <1>6 DEF IInv

LEMMA FailsKeeps ==
  ASSUME IInv, NEW t \in Threads, SessionFails(t)
  PROVE  IInv'
<1>1. DbOK' /\ Grows BY SameDb DEF IInv, SessionFails
<1>2. DoingOK' BY <1>1, OneThread, Ends DEF IInv, SessionFails
<1>3. CacheOK' BY DEF IInv, SessionFails, CacheOK
<1> QED BY <1>1, <1>2, <1>3 DEF IInv

LEMMA InvNext == IInv /\ [Next]_vars => IInv'
<1> SUFFICES ASSUME IInv, [Next]_vars PROVE IInv'
  OBVIOUS
<1>1. ASSUME NEW t \in Threads, NEW k \in Cached, AnswersFromCache(t, k) PROVE IInv'
  BY <1>1, HitKeeps
<1>2. ASSUME NEW t \in Threads, NEW op \in DOMAIN QueriesOf, StartsReading(t, op) PROVE IInv'
  BY <1>2, StartsKeeps
<1>3. ASSUME NEW t \in Threads, Proceeds(t) PROVE IInv'
  BY <1>3, ReadsKeeps, AnswersKeeps, InvalidatesKeeps DEF Proceeds
<1>4. ASSUME NEW t \in Threads, Writes(t) PROVE IInv' BY <1>4, WritesKeeps
<1>5. ASSUME NEW e \in EventTypes, ReceivesEvent(e) PROVE IInv' BY <1>5, ReceivesKeeps
<1>6. CASE Tick BY <1>6, TickKeeps
<1>7. CASE Restarts BY <1>7, RestartsKeeps
<1>8. CASE UNCHANGED vars
  <2>1. db' = db /\ doing' = doing /\ cache' = cache BY <1>8 DEF vars
  <2>2. DbOK' /\ Grows BY <2>1, SameDb DEF IInv
  <2> QED BY <2>1, <2>2, Rest, CacheSteps DEF IInv
<1>9. ASSUME NEW t \in Threads, SessionFails(t) PROVE IInv' BY <1>9, FailsKeeps
<1> QED BY <1>1, <1>2, <1>3, <1>4, <1>5, <1>6, <1>7, <1>8, <1>9 DEF Next

\* The tables only grow, and every thread holds what they were.
THEOREM InductiveInvariant == Spec => []IInv
BY InvInit, InvNext, PTL DEF Spec

-----------------------------------------------------------------------------
(* What the lists are worth. *)

\* Stock is never negative, a list is kept for no longer than its time to live,
\* and a request makes the queries of its list (services/api/cache.py, db.py).
THEOREM TypeInvariant == Spec => []TypeOK
<1>1. IInv => TypeOK
  <2> SUFFICES ASSUME IInv PROVE TypeOK
    OBVIOUS
  <2>1. DOMAIN db.skus \subseteq SKUs BY DEF IInv, DbOK, SkuTables
  <2>2. \A s \in SKUs : db.exits[s] \in 0 .. db.entries[s] BY DEF IInv, DbOK, Counts
  <2>3. db.events \in [EventTypes -> Nat] BY DEF IInv, DbOK
  <2>4. \A k \in Cached : cache[k] = Nothing \/ cache[k].life \in 0 .. TTL[k]
    BY DEF IInv, CacheOK
  <2>5. \A t \in Threads :
          \/ doing[t].op \in {"idle", "invalidate"}
          \/ /\ doing[t].op \in DOMAIN QueriesOf
             /\ Len(doing[t].seen) <= Len(QueriesOf[doing[t].op])
    BY DEF IInv, DoingOK, ThreadOK, Idle, Invalidating, Reading
  <2> QED BY <2>1, <2>2, <2>3, <2>4, <2>5 DEF TypeOK
<1> QED BY <1>1, InductiveInvariant, PTL

LEMMA ComposedProducts ==
  ASSUME NEW op \in {"products", "product"}, NEW seen \in Seq(Tables), Len(seen) = 3
  PROVE  Compose(op, seen) = Products(seen[1], seen[2], seen[3])
<1>1. DOMAIN seen = 1 .. 3 OBVIOUS
<1>2. /\ (CHOOSE i \in DOMAIN seen : QueriesOf[op][i] = "skus") = 1
      /\ (CHOOSE i \in DOMAIN seen : QueriesOf[op][i] = "entries") = 2
      /\ (CHOOSE i \in DOMAIN seen : QueriesOf[op][i] = "exits") = 3
  BY <1>1, Queries
<1>3. op # "orders" /\ op # "report" OBVIOUS
<1> QED BY <1>2, <1>3 DEF Compose

LEMMA ComposedOrders ==
  ASSUME NEW seen \in Seq(Tables), Len(seen) = 3
  PROVE  Compose("orders", seen) = Orders(seen[1], seen[2], seen[3])
<1>1. DOMAIN seen = 1 .. 3 OBVIOUS
<1>2. /\ (CHOOSE i \in DOMAIN seen : QueriesOf["orders"][i] = "entries") = 1
      /\ (CHOOSE i \in DOMAIN seen : QueriesOf["orders"][i] = "exits") = 2
      /\ (CHOOSE i \in DOMAIN seen : QueriesOf["orders"][i] = "skus") = 3
  BY <1>1, Queries
<1> QED BY <1>2 DEF Compose

\* The last query of a list sees the tables as they are, the others as they were.
LEMMA ListIsSafe ==
  ASSUME IInv, NEW t \in Threads, Reads(t), HasRead(t)'
  PROVE  LET op   == doing[t].op
             list == Compose(op, doing'[t].seen)
         IN CASE op \in {"products", "product"} ->
                   \A s \in DOMAIN list : list[s].stock <= db.entries[s] - db.exits[s]
              [] op = "orders" -> ~Incomplete(list)
              [] OTHER -> TRUE
<1>1. PICK op, seen : op = doing[t].op /\ seen = doing'[t].seen OBVIOUS
<1>2. doing'[t].op = op
  <2>1. PICK o \in DOMAIN QueriesOf, n \in Seq(Tables) :
          /\ doing[t] = [op |-> o, seen |-> n]
          /\ Len(n) < Len(QueriesOf[o])
          /\ \A i \in 1 .. Len(n) : Past(QueriesOf[o][i], n[i])
          /\ doing' = [doing EXCEPT ![t].seen = Append(n, db[QueriesOf[o][Len(n) + 1]])]
          /\ db' = db /\ cache' = cache
    BY ReadsMore
  <2>2. doing'[t] = [doing[t] EXCEPT !.seen = Append(n, db[QueriesOf[o][Len(n) + 1]])]
    BY <2>1 DEF IInv, DoingOK
  <2> QED BY <1>1, <2>1, <2>2
<1>3. /\ Reading(t)' /\ db' = db
      /\ QueriesOf[op][Len(seen)] # "events" => seen[Len(seen)] = db[QueriesOf[op][Len(seen)]]
  BY <1>1, <1>2, ReadsKeeps
<1>4. Len(seen) = Len(QueriesOf[op]) BY <1>1, <1>2 DEF HasRead
<1>5. /\ seen \in Seq(Tables)
      /\ \A i \in 1 .. Len(seen) : Past(QueriesOf[op][i], seen[i])
  BY <1>1, <1>2, <1>3 DEF Reading, Past
<1>6. \A s \in SKUs : db.entries[s] \in Nat /\ db.exits[s] \in Nat BY DEF IInv, DbOK, Counts
<1>7. ASSUME op \in {"products", "product"}
      PROVE  \A s \in DOMAIN Compose(op, seen) :
               Compose(op, seen)[s].stock <= db.entries[s] - db.exits[s]
  <2>1. Len(seen) = 3 BY <1>4, <1>7, Queries
  <2>2. Compose(op, seen) = Products(seen[1], seen[2], seen[3])
    BY <1>5, <1>7, <2>1, ComposedProducts
  <2>3. seen[3] = db.exits BY <1>3, <1>7, <2>1, Queries
  <2>4. seen[2] \in Counts /\ \A s \in SKUs : seen[2][s] <= db.entries[s]
    BY <1>5, <1>7, <2>1, Queries DEF Past
  <2>5. DOMAIN seen[1] \subseteq SKUs
    <3>1. seen[1] \in SkuTables BY <1>5, <1>7, <2>1, Queries DEF Past
    <3> QED BY <3>1 DEF SkuTables
  <2>6. \A s \in SKUs : seen[2][s] \in Nat BY <2>4 DEF Counts
  <2>7. ASSUME NEW s \in DOMAIN seen[1]
        PROVE  seen[2][s] - seen[3][s] <= db.entries[s] - db.exits[s]
    BY <1>6, <2>3, <2>4, <2>5, <2>6
  <2> QED BY <2>2, <2>7 DEF Products
<1>8. ASSUME op = "orders" PROVE ~ Incomplete(Compose(op, seen))
  <2>1. Len(seen) = 3 BY <1>4, <1>8, Queries
  <2>2. Compose(op, seen) = Orders(seen[1], seen[2], seen[3])
    BY <1>5, <1>8, <2>1, ComposedOrders
  <2>3. seen[3] = db.skus BY <1>3, <1>8, <2>1, Queries
  <2>4. /\ seen[1] \in Counts /\ \A s \in SKUs : seen[1][s] <= db.entries[s]
        /\ seen[2] \in Counts /\ \A s \in SKUs : seen[2][s] <= db.exits[s]
    BY <1>5, <1>8, <2>1, Queries DEF Past
  <2>5. ASSUME NEW s \in SKUs, seen[1][s] + seen[2][s] > 0 PROVE s \in DOMAIN seen[3]
    <3>1. seen[1][s] \in Nat /\ seen[2][s] \in Nat BY <2>4 DEF Counts
    <3>2. db.exits[s] <= db.entries[s] /\ (db.entries[s] > 0 => s \in DOMAIN db.skus)
      BY DEF IInv, DbOK
    <3>3. seen[1][s] <= db.entries[s] /\ seen[2][s] <= db.exits[s] BY <2>4
    <3>4. db.entries[s] > 0 BY <1>6, <2>5, <3>1, <3>2, <3>3
    <3> QED BY <2>3, <3>2, <3>4
  <2> QED BY <2>2, <2>5 DEF Incomplete, Orders
<1> QED BY <1>1, <1>7, <1>8

\* A list of products torn by commands that commit between its queries shows no more
\* stock than there is, and a list of orders never lacks the SKU of a movement it has
\* (get_current_stocks reads entries before exits, list_orders reads SKUs last).
THEOREM TornListsShowNoMore == Spec => TornListsAreSafe
<1>1. IInv =>
        \A t \in Threads :
          LET op   == doing[t].op
              list == Compose(op, doing'[t].seen)
          IN Reads(t) /\ HasRead(t)' =>
               CASE op \in {"products", "product"} ->
                      \A s \in DOMAIN list : list[s].stock <= db.entries[s] - db.exits[s]
                 [] op = "orders" -> ~Incomplete(list)
                 [] OTHER -> TRUE
  BY ListIsSafe
<1> QED BY <1>1, InductiveInvariant, PTL DEF TornListsAreSafe
=============================================================================
