--------------------------- MODULE InventoryStore ---------------------------
(***************************************************************************)
(* The operational database of the inventory: its rows, its locks, and     *)
(* what one committed command changes (services/api/inventory_models.py,   *)
(* inventory_outbox.py and the helpers of inventory_service.py).           *)
(*                                                                         *)
(* Identifiers of orders, dispatches, counts and SKUs are naturals, in the *)
(* order in which the code sorts them to take locks.                       *)
(***************************************************************************)
EXTENDS Integers, FiniteSets, FiniteSetsExt

CONSTANTS SKUs,          \* SKU.id
          Ids,           \* order_id, dispatch_id and count_id
          ClientOf,      \* the client and warehouse of each SKU
          NoClient,      \* the client_id of legacy SKUs
          InitialStock,  \* units of each SKU received before the run
          InitialThreshold,
          NoThreshold,
          NoOne          \* nobody holds a lock

ASSUME StockAssumption ==
  /\ InitialStock \in [SKUs -> Nat]
  /\ InitialThreshold \in [SKUs -> Nat \cup {NoThreshold}]

VARIABLES stock,        \* SUM(stockentry.quantity) - SUM(stockexit.quantity)
          threshold,    \* sku.minimum_stock_threshold
          orders,       \* rows of commercial_order
          dispatches,   \* rows of stockexit that belong to an order
          counts,       \* rows of inventory_physical_count
          checkpoints,  \* rows of inventory_threshold_evaluation
          outbox,       \* rows of inventory_event_outbox
          now,          \* datetime.now of the movements
          keyLock,      \* pg_advisory_xact_lock of an identifier
          skuLock       \* FOR UPDATE of a row of sku

rowVars  == <<stock, threshold, orders, dispatches, counts, checkpoints, outbox>>
lockVars == <<keyLock, skuLock>>
storeVars == <<rowVars, now, lockVars>>

StoreInit ==
  /\ stock = InitialStock
  /\ threshold = InitialThreshold
  /\ orders = {} /\ dispatches = {} /\ counts = {} /\ checkpoints = {} /\ outbox = {}
  /\ now = 0
  /\ keyLock = [i \in Ids |-> NoOne]
  /\ skuLock = [s \in SKUs |-> NoOne]

-----------------------------------------------------------------------------
(* Locks. *)

LockKey(h, i) == /\ keyLock[i] = NoOne
                 /\ keyLock' = [keyLock EXCEPT ![i] = h]
                 /\ UNCHANGED skuLock

\* Mutant: the rows are selected without FOR UPDATE.
LockSku_NoWait(h, s) == /\ skuLock' = [skuLock EXCEPT ![s] = h]
                        /\ UNCHANGED keyLock

\* _lock_skus, for one row of the ordered query.
LockSku(h, s) == /\ skuLock[s] = NoOne
                 /\ skuLock' = [skuLock EXCEPT ![s] = h]
                 /\ UNCHANGED keyLock

\* The transaction of h ends.
Unlock(h) == /\ keyLock' = [i \in Ids |-> IF keyLock[i] = h THEN NoOne ELSE keyLock[i]]
             /\ skuLock' = [s \in SKUs |-> IF skuLock[s] = h THEN NoOne ELSE skuLock[s]]

-----------------------------------------------------------------------------
(* Movements of stock.  A movement is known by the number its row is sorted   *)
(* by: the dispatch_id within an order, its time for a movement on its own.   *)
(* With its time, which no other command shares, that number identifies it.   *)

Sum(moves, s) == MapThenSumSet(LAMBDA m : m.change, {m \in moves : m.sku = s})

\* The row of a dispatch of an order.
Dispatch(item, order) ==
  [id |-> item.id, order |-> order, sku |-> item.sku, quantity |-> item.quantity]

OrderMoves(items) ==
  {[source |-> i.id, sku |-> i.sku, change |-> -i.quantity] : i \in items}

\* Mutant: every movement of a command starts from the stock that was read.
Before_NotRunning(m, moves, seen) == seen.stock[m.sku]

\* The stock before movement m of a command: what was read, and the movements of
\* the command that come first.
Before(m, moves, seen) ==
  seen.stock[m.sku] + Sum({n \in moves : n.source < m.source}, m.sku)

\* _threshold_event: the movement takes the stock down to its threshold or past it.
Crosses(m, moves, seen) ==
  LET before == Before(m, moves, seen)
      limit  == seen.threshold[m.sku]
  IN m.change < 0 /\ limit # NoThreshold /\ before > limit /\ before + m.change <= limit

\* _record_threshold_evaluation.
Checkpoint(m, moves, seen) ==
  [source |-> m.source, at |-> seen.now, sku |-> m.sku, before |-> Before(m, moves, seen),
   after |-> Before(m, moves, seen) + m.change, crossed |-> Crosses(m, moves, seen)]

Event(type, source, seen) == [type |-> type, source |-> source, at |-> seen.now]

ThresholdEvents(moves, seen) ==
  {Event("stock_threshold_triggered", m.source, seen) :
     m \in {n \in moves : Crosses(n, moves, seen)}}

\* The movements of a command, their checkpoints and their events.
Move(moves, events, seen) ==
  /\ stock' = [s \in SKUs |-> stock[s] + Sum(moves, s)]
  /\ checkpoints' = checkpoints \cup {Checkpoint(m, moves, seen) : m \in moves}
  /\ outbox' = outbox \cup events \cup ThresholdEvents(moves, seen)

AddDispatches(order, items, events, seen) ==
  /\ Move(OrderMoves(items), events, seen)
  /\ dispatches' = dispatches \cup {Dispatch(i, order) : i \in items}
=============================================================================
