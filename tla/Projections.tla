---------------------------- MODULE Projections -----------------------------
(***************************************************************************)
(* What the API shows of the stock, and the caches it shows it from        *)
(* (services/api/cache.py, routes/inventory.py, routes/telemetry.py,       *)
(* services/telemetry/analysis.py).  Requests run in the threads of one    *)
(* process.  A list is put together from several queries, each of which    *)
(* sees what is committed when it runs, and is then kept for a while.  A   *)
(* command invalidates the lists after it has committed, and may do so     *)
(* while another thread still holds what it read before.                   *)
(***************************************************************************)
EXTENDS Integers, Sequences, SequencesExt, Functions

CONSTANTS Threads,
          SKUs,
          EventTypes,  \* event_type of the telemetry the reports count
          Failures,    \* OPERATIONAL_FAILURE_ALLOWLIST
          TTL,         \* ticks that each list may be kept
          Mixes,       \* bound: the requests that the clients of one behaviour make
          MaxMoves,    \* bound: movements
          MaxEvents,   \* bound: rows of telemetry
          Nothing

ASSUME TTLAssumption == TTL \in [{"products", "orders", "report"} -> Nat \ {0}]

VARIABLES db,     \* the committed tables
          cache,  \* products_cache, orders_cache, report_cache
          doing,  \* what each thread does
          asked   \* the requests that are made

vars == <<db, cache, doing, asked>>

\* Mutant: what is read first is read last.
QueriesOf_Reordered == [products |-> <<"skus", "exits", "entries">>,
                        product  |-> <<"skus", "exits", "entries">>,
                        orders   |-> <<"skus", "entries", "exits">>,
                        report   |-> <<"events", "events", "events", "events">>]

\* The queries of each request, in their order, by the table they aggregate.
QueriesOf == [products |-> <<"skus", "entries", "exits">>,
              product  |-> <<"skus", "entries", "exits">>,
              orders   |-> <<"entries", "exits", "skus">>,
              report   |-> <<"events", "events", "events", "events">>]

Cached == DOMAIN TTL

Idle == [op |-> "idle"]

\* skus gives the threshold of each SKU; movements are of one unit.
Init ==
  /\ db = [skus |-> <<>>, entries |-> [s \in SKUs |-> 0], exits |-> [s \in SKUs |-> 0],
           events |-> [e \in EventTypes |-> 0]]
  /\ cache = [k \in Cached |-> Nothing]
  /\ doing = [t \in Threads |-> Idle]
  /\ asked \in Mixes

-----------------------------------------------------------------------------
(* TTLCache. *)

Live(k) == cache[k] # Nothing /\ cache[k].life > 0

\* Mutant: an entry that is read is kept for longer.
Hit_Renews(c, k) == [c EXCEPT ![k].life = TTL[k]]

Hit(c, k) == c

\* get removes what has expired.
Missed(c, k) == [c EXCEPT ![k] = Nothing]

\* Mutant: an entry outlives its expires_at.
Stored_Longer(c, k, value) == [c EXCEPT ![k] = [value |-> value, life |-> TTL[k] + 1]]

Stored(c, k, value) == [c EXCEPT ![k] = [value |-> value, life |-> TTL[k]]]

\* Time passes.
Tick ==
  /\ cache' = [k \in Cached |-> IF Live(k) THEN [cache[k] EXCEPT !.life = @ - 1] ELSE cache[k]]
  /\ UNCHANGED <<db, doing, asked>>

-----------------------------------------------------------------------------
(* What a request makes of its queries. *)

\* _sku_to_response over get_current_stocks; get_current_stock for one SKU.
Products(skus, entries, exits) ==
  [s \in DOMAIN skus |-> [threshold |-> skus[s], stock |-> entries[s] - exits[s]]]

\* list_orders
Orders(entries, exits, skus) ==
  [inbound |-> entries, outbound |-> exits, names |-> DOMAIN skus]

\* The four metrics, each of a query of its own.
EventVolume(events) == events

OperationalFailures(events) == Restrict(events, Failures)

StockInsufficiency(events) == events["inventory_stock_insufficient"]

\* A rate, when there is something to divide by.
AuthFailureRate(events) ==
  LET failed == events["auth_login_failed"]
      total  == failed + events["auth_login_succeeded"]
  IN IF total > 0 THEN <<failed, total>> ELSE <<0, 0>>

\* build_telemetry_report
Report(seen) ==
  [volume |-> EventVolume(seen[1]), failures |-> OperationalFailures(seen[2]),
   insufficient |-> StockInsufficiency(seen[3]), rate |-> AuthFailureRate(seen[4])]

Compose(op, seen) ==
  LET of(table) == seen[CHOOSE i \in DOMAIN seen : QueriesOf[op][i] = table]
  IN CASE op = "orders" -> Orders(of("entries"), of("exits"), of("skus"))
       [] op = "report" -> Report(seen)
       [] OTHER         -> Products(of("skus"), of("entries"), of("exits"))

\* What the request would make of the tables as they are.
Current(op) == Compose(op, [i \in DOMAIN QueriesOf[op] |-> db[QueriesOf[op][i]]])

\* InventoryDataIntegrityError: a movement of a SKU that the list has not.
Incomplete(list) ==
  \E s \in SKUs : list.inbound[s] + list.outbound[s] > 0 /\ s \notin list.names

-----------------------------------------------------------------------------
(* Reading requests. *)

\* list_products, list_orders_endpoint, get_telemetry_report on a hit.
AnswersFromCache(t, k) ==
  /\ doing[t] = Idle
  /\ Live(k)
  /\ cache' = Hit(cache, k)
  /\ UNCHANGED <<db, doing, asked>>

\* The same on a miss, and get_product, which has no cache.
StartsReading(t, op) ==
  /\ doing[t] = Idle
  /\ op \in asked
  /\ op \in Cached => ~Live(op)
  /\ doing' = [doing EXCEPT ![t] = [op |-> op, seen |-> <<>>]]
  /\ cache' = IF op \in Cached THEN Missed(cache, op) ELSE cache
  /\ UNCHANGED <<db, asked>>

Reads(t) ==
  /\ doing[t].op \in DOMAIN QueriesOf
  /\ Len(doing[t].seen) < Len(QueriesOf[doing[t].op])
  /\ LET table == QueriesOf[doing[t].op][Len(doing[t].seen) + 1]
     IN doing' = [doing EXCEPT ![t].seen = Append(@, db[table])]
  /\ UNCHANGED <<db, cache, asked>>

HasRead(t) ==
  /\ doing[t].op \in DOMAIN QueriesOf
  /\ Len(doing[t].seen) = Len(QueriesOf[doing[t].op])

Answers(t) ==
  /\ HasRead(t)
  /\ LET op    == doing[t].op
         value == Compose(op, doing[t].seen)
     IN cache' = IF op \notin Cached \/ (op = "orders" /\ Incomplete(value)) THEN cache
                 ELSE Stored(cache, op, value)
  /\ doing' = [doing EXCEPT ![t] = Idle]
  /\ UNCHANGED <<db, asked>>

-----------------------------------------------------------------------------
(* Commands.  Each commits and then owes the invalidation of what it changed;  *)
(* one that is refused changes neither.                                        *)

Total(counts) == FoldFunction(LAMBDA n, total : n + total, 0, counts)

Invalidates(keys) == [op |-> "invalidate", keys |-> keys]

MayWrite(t) == doing[t] = Idle

\* create_product
CreatesProduct(t, s) ==
  /\ MayWrite(t)
  /\ s \notin DOMAIN db.skus
  /\ db' = [db EXCEPT !.skus = [p \in DOMAIN @ \cup {s} |-> IF p = s THEN 0 ELSE @[p]]]
  /\ doing' = [doing EXCEPT ![t] = Invalidates(<<"products">>)]
  /\ UNCHANGED <<cache, asked>>

\* update_sku_threshold, once for each SKU.
ConfiguresThreshold(t, s) ==
  /\ MayWrite(t)
  /\ s \in DOMAIN db.skus
  /\ db.skus[s] = 0
  /\ db' = [db EXCEPT !.skus[s] = 1]
  /\ doing' = [doing EXCEPT ![t] = Invalidates(<<"products", "orders">>)]
  /\ UNCHANGED <<cache, asked>>

\* create_stock_entry, create_stock_exit and the orders that dispatch.
Moves(t, table, s) ==
  /\ MayWrite(t)
  /\ s \in DOMAIN db.skus
  /\ Total(db.entries) + Total(db.exits) < MaxMoves
  /\ table = "exits" => db.entries[s] > db.exits[s]
  /\ db' = [db EXCEPT ![table][s] = @ + 1]
  /\ doing' = [doing EXCEPT ![t] = Invalidates(<<"products", "orders">>)]
  /\ UNCHANGED <<cache, asked>>

\* invalidate_products_cache, then invalidate_orders_cache.
InvalidatesNext(t) ==
  /\ doing[t].op = "invalidate"
  /\ cache' = [cache EXCEPT ![Head(doing[t].keys)] = Nothing]
  /\ doing' = [doing EXCEPT ![t] = IF Len(doing[t].keys) = 1 THEN Idle
                                   ELSE Invalidates(Tail(doing[t].keys))]
  /\ UNCHANGED <<db, asked>>

\* The database fails a request.  A read ends without a list.  A command whose COMMIT is
\* not answered, or that cannot refresh its row after it, ends before it invalidates.
SessionFails(t) ==
  /\ \/ doing[t].op \in DOMAIN QueriesOf /\ ~HasRead(t)
     \/ doing[t].op = "invalidate" /\ Head(doing[t].keys) = "products"
  /\ doing' = [doing EXCEPT ![t] = Idle]
  /\ UNCHANGED <<db, cache, asked>>

\* Telemetry arrives; nothing invalidates the report.
ReceivesEvent(e) ==
  /\ Total(db.events) < MaxEvents
  /\ db' = [db EXCEPT !.events[e] = @ + 1]
  /\ UNCHANGED <<cache, doing, asked>>

\* The process is replaced, whatever its threads were doing.
Restarts ==
  /\ cache' = [k \in Cached |-> Nothing]
  /\ doing' = [t \in Threads |-> Idle]
  /\ UNCHANGED <<db, asked>>

Writes(t) ==
  \E s \in SKUs : \/ CreatesProduct(t, s)
                  \/ ConfiguresThreshold(t, s)
                  \/ \E table \in {"entries", "exits"} : Moves(t, table, s)

Proceeds(t) == Reads(t) \/ Answers(t) \/ InvalidatesNext(t)

Next ==
  \/ \E t \in Threads :
       \/ \E k \in Cached : AnswersFromCache(t, k)
       \/ \E op \in DOMAIN QueriesOf : StartsReading(t, op)
       \/ Proceeds(t)
       \/ SessionFails(t)
       \/ Writes(t)
  \/ \E e \in EventTypes : ReceivesEvent(e)
  \/ Tick
  \/ Restarts

\* A request that was taken up goes on until it ends or fails, and time passes.  None for
\* requests, commands, failures and restarts.
Spec ==
  /\ Init /\ [][Next]_vars
  /\ WF_vars(Tick)
  /\ \A t \in Threads : WF_vars(Proceeds(t))

-----------------------------------------------------------------------------
(* Properties. *)

\* The type invariant.  Stock itself is never negative; what a list shows of it may be.
TypeOK ==
  /\ DOMAIN db.skus \subseteq SKUs
  /\ \A s \in SKUs : db.exits[s] \in 0..db.entries[s]
  /\ db.events \in [EventTypes -> Nat]
  /\ \A k \in Cached : cache[k] = Nothing \/ cache[k].life \in 0..TTL[k]
  /\ \A t \in Threads : \/ doing[t].op \in {"idle", "invalidate"}
                        \/ /\ doing[t].op \in DOMAIN QueriesOf
                           /\ Len(doing[t].seen) <= Len(QueriesOf[doing[t].op])

\* Commands that commit between the queries of a list tear it, and never for the worse.
\* A list of products may show less stock than there is, never more than there is when
\* the list is complete: get_current_stocks reads entries before exits.  A list of orders
\* never lacks the SKU of a movement it has: list_orders reads SKUs last, so that
\* InventoryDataIntegrityError is not raised for data that are sound.
TornListsAreSafe ==
  [][\A t \in Threads :
       LET op   == doing[t].op
           list == Compose(op, doing'[t].seen)
       IN Reads(t) /\ HasRead(t)' =>
            CASE op \in {"products", "product"} ->
                   \A s \in DOMAIN list : list[s].stock <= db.entries[s] - db.exits[s]
              [] op = "orders" -> ~Incomplete(list)
              [] OTHER -> TRUE]_vars

\* A list that was stored after the command which changed it had invalidated it, or that no
\* command invalidated because its session failed after the COMMIT, or composed of tables at
\* different moments, is not shown for ever: once nothing is written, everything the caches
\* still show is what the database holds.
EventuallyFresh ==
  (<>[][UNCHANGED db]_vars) => <>[](\A k \in Cached : Live(k) => cache[k].value = Current(k))
=============================================================================
