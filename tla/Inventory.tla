----------------------------- MODULE Inventory ------------------------------
(***************************************************************************)
(* The inventory as a whole: handlers that serve commands and relays that  *)
(* carry the events they leave in the outbox.                              *)
(***************************************************************************)
EXTENDS InventoryService, OutboxRelay

vars == <<storeVars, serviceVars, relayVars>>

Init == StoreInit /\ ServiceInit /\ RelayInit

Next == \/ ServiceNext /\ UNCHANGED relayVars
        \/ RelayNext /\ UNCHANGED <<storeVars, serviceVars>>

Spec == Init /\ [][Next]_vars

-----------------------------------------------------------------------------

\* Every row and every lock stays in its domain.  Stock is natural: no interleaving of
\* exits, orders and added dispatches sells more of a SKU than there is, and no checkpoint
\* breaks ck_threshold_evaluation_quantities_nonnegative.
TypeOK ==
  /\ stock \in [SKUs -> Nat]
  /\ threshold \in [SKUs -> Nat \cup {NoThreshold}]
  /\ orders \subseteq [id : Ids, client : {c.client : c \in {d \in Commands : d.op = "create"}}]
  /\ dispatches \subseteq [id : Ids, order : Ids, sku : SKUs, quantity : Nat]
  /\ counts \subseteq [id : Ids, sku : SKUs, observed : Nat, expected : Nat]
  /\ checkpoints \subseteq [source : Nat, at : Nat, sku : SKUs, before : Nat, after : Nat,
                            crossed : BOOLEAN]
  /\ keyLock \in [Ids -> Handlers \cup {NoOne}]
  /\ skuLock \in [SKUs -> Handlers \cup {NoOne}]
  /\ \A h \in Handlers :
       \/ handler[h] = Idle
       \/ handler[h] \in [at : {"keys", "skus"}, cmd : Commands,
                          todo : SUBSET (Ids \cup SKUs), new : SUBSET Items]
       \/ /\ handler[h].at = "write"
          /\ handler[h].cmd \in Commands /\ handler[h].new \subseteq Items
          /\ handler[h].seen.now \in Nat
          /\ \A s \in SkusOf(Cmd(h), handler[h].new) :
               /\ handler[h].seen.stock[s] \in Nat
               /\ handler[h].seen.threshold[s] \in Nat \cup {NoThreshold}
  /\ answers \in [Commands -> SUBSET Answers]
  /\ published \subseteq outbox
  /\ \A b \in Relays : relay[b] = Waiting \/ relay[b].event \in outbox

\* What a committed row says of the stock, the stock was at that moment: the
\* checkpoints of one command lead from the stock before it to the stock after
\* it, and a count expected what there was.
RowsTellTheStock ==
  [][/\ \A s \in SKUs :
          LET new == {k \in checkpoints' \ checkpoints : k.sku = s} IN
          new # {} => /\ \E k \in new : k.before = stock[s]
                      /\ \E k \in new : k.after = stock'[s]
     /\ \A k \in counts' \ counts : k.expected = stock[k.sku]]_vars

\* A stock that comes down to its threshold is announced exactly once, however many
\* dispatches took it there, and nothing else is.
CrossingIsAnnounced ==
  [][\A s \in SKUs :
       Cardinality({k \in checkpoints' \ checkpoints : k.sku = s /\ k.crossed}) =
       IF /\ threshold[s] # NoThreshold
          /\ stock[s] > threshold[s] /\ stock'[s] <= threshold[s]
       THEN 1 ELSE 0]_vars

\* The effect of a command with identifiers is recorded, for the client that sent
\* it, and nothing was added to the order since.
Recorded(c) ==
  CASE c.op = "create" -> /\ [id |-> c.order, client |-> c.client] \in orders
                          /\ OrderRows(c.order) = {Dispatch(i, c.order) : i \in c.items}
    [] c.op = "append" -> \A i \in c.items : Dispatch(i, c.order) \in dispatches
    [] c.op = "count"  -> \E k \in counts : k.id = c.id /\ k.sku = c.sku
                                              /\ k.observed = c.observed
    [] OTHER -> FALSE

\* "idempotent physical counts, and idempotent commercial orders"
\* (services/README.md): a command whose effect is recorded, whether its client
\* was told or not, is not refused when it is sent again or served twice at once.
RetryAgrees ==
  [][\A c \in Commands :
       Recorded(c) => answers'[c] \ answers[c] \subseteq {"done", "error"}]_vars

\* The outbox tells every fact once: an order when it is created and never again,
\* a crossing, a count that disagrees.
EventsOf(type, source) == {e \in outbox : e.type = type /\ e.source = source}
OneEventPerFact ==
  /\ \A o \in orders : Cardinality(EventsOf("outbound_order_created", o.id)) = 1
  /\ \A k \in checkpoints :
       k.crossed <=> [type |-> "stock_threshold_triggered",
                      source |-> k.source, at |-> k.at] \in outbox
  /\ \A k \in counts :
       Cardinality(EventsOf("inventory_discrepancy_detected", k.id)) =
       IF k.observed = k.expected THEN 0 ELSE 1

\* An event is acknowledged in the outbox only once the telemetry has it.
AcknowledgedIsDelivered == published \subseteq telemetry

\* The handler whose lock h waits for, NoOne if h can go on.
Blocker(h) ==
  IF handler[h].at \in {"keys", "skus"} /\ handler[h].todo # {}
  THEN IF handler[h].at = "keys" THEN keyLock[Min(handler[h].todo)]
                                 ELSE skuLock[Min(handler[h].todo)]
  ELSE NoOne

\* No handlers wait for each other's locks, whatever identifiers and SKUs their
\* commands name and in whatever order the requests name them.
NoDeadlock ==
  \A H \in (SUBSET Handlers) \ {{}} : \E h \in H : Blocker(h) \notin H
=============================================================================
