-------------------------- MODULE InventoryService --------------------------
(***************************************************************************)
(* The commands of the inventory (services/api/inventory_service.py).  A   *)
(* handler serves one request in one transaction: it takes the locks of    *)
(* the identifiers, looks for what an earlier attempt recorded, takes the  *)
(* locks of the SKUs, reads the stock, writes and commits.  A client that  *)
(* got no answer, or a bad one, sends its command again.                   *)
(***************************************************************************)
EXTENDS InventoryStore

CONSTANTS Handlers,    \* threads that serve requests
          Commands,    \* commands the clients send
          MaxRequests  \* bound: requests received

VARIABLES handler,   \* what each handler is doing
          answers,   \* history: what was answered to each command
          requests   \* requests received

serviceVars == <<handler, answers, requests>>

Ops == {"entry", "exit", "threshold", "create", "append", "count"}
Answers == {"done", "refused", "conflict", "missing", "error"}
Items == UNION {c.items : c \in {d \in Commands : d.op \in {"create", "append"}}}

ASSUME CommandAssumption ==
  /\ SKUs \subseteq Nat /\ Ids \subseteq Nat
  /\ \A c \in Commands :
       /\ c.op \in Ops
       /\ c.op \in {"entry", "exit", "threshold", "count"} => c.sku \in SKUs
       /\ c.op \in {"entry", "exit"} => c.quantity \in Nat \ {0}
       /\ c.op = "threshold" => c.threshold \in Nat \cup {NoThreshold}
       /\ c.op \in {"create", "append"} =>
            c.order \in Ids /\ c.items # {} /\ IsFiniteSet(c.items)
       /\ c.op = "count" => c.id \in Ids /\ c.observed \in Nat
  /\ \A i \in Items : i.id \in Ids /\ i.sku \in SKUs /\ i.quantity \in Nat \ {0}
  /\ \A c \in Commands : c.op \in {"create", "append"} =>
       \A i, j \in c.items : i.id = j.id => i = j

\* The pool of threads is finite, and "nobody" is none of them.
ASSUME HandlersAssumption == IsFiniteSet(Handlers) /\ NoOne \notin Handlers

Idle == [at |-> "idle"]

ServiceInit == /\ handler = [h \in Handlers |-> Idle]
               /\ answers = [c \in Commands |-> {}]
               /\ requests = 0

Cmd(h) == handler[h].cmd

\* The identifiers a command serializes on.
Keys(c) == CASE c.op \in {"create", "append"} -> {c.order} \cup {i.id : i \in c.items}
             [] c.op = "count" -> {c.id}
             [] OTHER -> {}

\* The SKUs a command locks; for an order, those of its new items.
SkusOf(c, new) == IF c.op \in {"create", "append"} THEN {i.sku : i \in new} ELSE {c.sku}

-----------------------------------------------------------------------------

\* A request arrives.  A movement or a threshold has no identifier to look up.
Receive(h, c) ==
  /\ handler[h] = Idle
  /\ requests < MaxRequests
  /\ requests' = requests + 1
  /\ handler' = [handler EXCEPT ![h] =
       IF Keys(c) = {}
       THEN [at |-> "skus", cmd |-> c, todo |-> SkusOf(c, {}), new |-> {}]
       ELSE [at |-> "keys", cmd |-> c, todo |-> Keys(c), new |-> {}]]
  /\ UNCHANGED <<storeVars, answers>>

\* Mutant: the identifiers are not locked.
LocksKey_Never(h) ==
  /\ handler[h].at = "keys"
  /\ handler[h].todo # {}
  /\ handler' = [handler EXCEPT ![h].todo = {}]
  /\ UNCHANGED <<storeVars, answers, requests>>

\* _lock_idempotency_keys, one identifier after the other.
LocksKey(h) ==
  /\ handler[h].at = "keys"
  /\ handler[h].todo # {}
  /\ LockKey(h, Min(handler[h].todo))
  /\ handler' = [handler EXCEPT ![h].todo = @ \ {Min(@)}]
  /\ UNCHANGED <<rowVars, now, answers, requests>>

\* The transaction ends and the client is answered.
Finish(h, answer) ==
  /\ Unlock(h)
  /\ handler' = [handler EXCEPT ![h] = Idle]
  /\ answers' = [answers EXCEPT ![Cmd(h)] = @ \cup {answer}]
  /\ UNCHANGED requests

GoOn(h, new) ==
  /\ handler' = [handler EXCEPT ![h] =
       [at |-> "skus", cmd |-> Cmd(h), todo |-> SkusOf(Cmd(h), new), new |-> new]]
  /\ UNCHANGED <<lockVars, answers, requests>>

OrderRows(o) == {d \in dispatches : d.order = o}
Known(items) == {i \in items : \E d \in dispatches : d.id = i.id}

\* create_commercial_order, the look-up: the same order again is answered, any
\* other use of its identifiers is a conflict.
LookForOrder(h) ==
  LET c == Cmd(h)
      rows == {o \in orders : o.id = c.order}
  IN IF rows # {}
     THEN Finish(h, IF /\ \A o \in rows : o.client = c.client
                       /\ OrderRows(c.order) = {Dispatch(i, c.order) : i \in c.items}
                    THEN "done" ELSE "conflict")
     ELSE IF Known(c.items) # {} THEN Finish(h, "conflict")
     ELSE GoOn(h, c.items)

\* append_commercial_order_dispatches, the look-up: only new dispatches go on.
LookForDispatches(h) ==
  LET c == Cmd(h)
  IN IF ~\E o \in orders : o.id = c.order THEN Finish(h, "missing")
     ELSE IF \E i \in Known(c.items) : Dispatch(i, c.order) \notin dispatches
     THEN Finish(h, "conflict")
     ELSE IF Known(c.items) = c.items THEN Finish(h, "done")
     ELSE GoOn(h, c.items \ Known(c.items))

\* confirm_inventory_physical_count, the look-up.
LookForCount(h) ==
  LET c == Cmd(h)
      rows == {k \in counts : k.id = c.id}
  IN IF rows = {} THEN GoOn(h, {})
     ELSE Finish(h, IF \A k \in rows : k.sku = c.sku /\ k.observed = c.observed
                    THEN "done" ELSE "conflict")

Look(h) ==
  /\ handler[h].at = "keys"
  /\ handler[h].todo = {}
  /\ CASE Cmd(h).op = "create" -> LookForOrder(h)
       [] Cmd(h).op = "append" -> LookForDispatches(h)
       [] Cmd(h).op = "count"  -> LookForCount(h)
  /\ UNCHANGED <<rowVars, now>>

\* Mutant: the rows are locked in the order of the request.
LocksSku_AnyOrder(h) ==
  /\ handler[h].at = "skus"
  /\ \E s \in handler[h].todo :
       /\ LockSku(h, s)
       /\ handler' = [handler EXCEPT ![h].todo = @ \ {s}]
  /\ UNCHANGED <<rowVars, now, answers, requests>>

LocksSku(h) ==
  /\ handler[h].at = "skus"
  /\ handler[h].todo # {}
  /\ LockSku(h, Min(handler[h].todo))
  /\ handler' = [handler EXCEPT ![h].todo = @ \ {Min(@)}]
  /\ UNCHANGED <<rowVars, now, answers, requests>>

\* A movement on its own is sorted by its time.
OneMove(c, change, seen) == {[source |-> seen.now, sku |-> c.sku, change |-> change]}

\* An order belongs to the client and warehouse of its SKUs.
OrderClient(c) == IF c.op = "create" THEN c.client
                  ELSE (CHOOSE o \in orders : o.id = c.order).client

\* Mutant: an order checks each of its dispatches alone against the stock.
Refusal_EachAlone(c, new, seen) ==
  CASE c.op = "exit" /\ c.quantity > seen.stock[c.sku] -> "refused"
    [] c.op \in {"create", "append"} /\ \E i \in new :
         i.quantity > seen.stock[i.sku] -> "refused"
    [] OTHER -> "none"

\* Why a command is not carried out, "none" if it is: the stock must cover what it
\* takes, and an event needs the client of its SKU.
Refusal(c, new, seen) ==
  CASE c.op = "exit" /\ c.quantity > seen.stock[c.sku] -> "refused"
    [] c.op = "exit" /\ ClientOf[c.sku] = NoClient
         /\ ThresholdEvents(OneMove(c, -c.quantity, seen), seen) # {} -> "error"
    [] c.op = "count" /\ ClientOf[c.sku] = NoClient -> "error"
    [] c.op \in {"create", "append"} /\ \E i \in new :
         \/ ClientOf[i.sku] # OrderClient(c)
         \/ seen.stock[i.sku] + Sum(OrderMoves(new), i.sku) < 0 -> "refused"
    [] OTHER -> "none"

\* With the locks held: the stock and the thresholds are read.
Read(h) ==
  /\ handler[h].at = "skus"
  /\ handler[h].todo = {}
  /\ LET c == Cmd(h)
         new == handler[h].new
         seen == [stock     |-> [s \in SkusOf(c, new) |-> stock[s]],
                  threshold |-> [s \in SkusOf(c, new) |-> threshold[s]],
                  now       |-> now + 1]
         refusal == Refusal(c, new, seen)
     IN \/ /\ refusal = "none"
           /\ handler' = [handler EXCEPT ![h] =
                [at |-> "write", cmd |-> c, new |-> new, seen |-> seen]]
           /\ now' = now + 1
           /\ UNCHANGED <<lockVars, answers, requests>>
        \/ /\ refusal # "none"
           /\ Finish(h, refusal)
           /\ UNCHANGED now
  /\ UNCHANGED rowVars

RecordEntry(c, seen) ==
  /\ Move(OneMove(c, c.quantity, seen),
          IF ClientOf[c.sku] = NoClient THEN {}
          ELSE {Event("inbound_order_created", seen.now, seen)}, seen)
  /\ UNCHANGED <<threshold, orders, dispatches, counts>>

RecordExit(c, seen) ==
  /\ Move(OneMove(c, -c.quantity, seen), {}, seen)
  /\ UNCHANGED <<threshold, orders, dispatches, counts>>

RecordThreshold(c) ==
  /\ threshold' = [threshold EXCEPT ![c.sku] = c.threshold]
  /\ UNCHANGED <<stock, orders, dispatches, counts, checkpoints, outbox>>

RecordOrder(c, new, seen) ==
  /\ \A o \in orders : o.id # c.order
  /\ Known(new) = {}
  /\ orders' = orders \cup {[id |-> c.order, client |-> c.client]}
  /\ AddDispatches(c.order, new, {Event("outbound_order_created", c.order, seen)}, seen)
  /\ UNCHANGED <<threshold, counts>>

\* Mutant: dispatches added to an order announce the order again.
RecordDispatches_Announced(c, new, seen) ==
  /\ Known(new) = {}
  /\ AddDispatches(c.order, new, {Event("outbound_order_created", c.order, seen)}, seen)
  /\ UNCHANGED <<threshold, orders, counts>>

RecordDispatches(c, new, seen) ==
  /\ Known(new) = {}
  /\ AddDispatches(c.order, new, {}, seen)
  /\ UNCHANGED <<threshold, orders, counts>>

RecordCount(c, seen) ==
  /\ \A k \in counts : k.id # c.id
  /\ counts' = counts \cup {[id |-> c.id, sku |-> c.sku, observed |-> c.observed,
                             expected |-> seen.stock[c.sku]]}
  /\ outbox' = IF c.observed = seen.stock[c.sku] THEN outbox
               ELSE outbox \cup {Event("inventory_discrepancy_detected", c.id, seen)}
  /\ UNCHANGED <<stock, threshold, orders, dispatches, checkpoints>>

\* The rows are inserted and committed together.  The reply to the COMMIT may be
\* lost: the handler answers an error for what was done.
Commits(h) ==
  /\ handler[h].at = "write"
  /\ LET c == Cmd(h)
         new == handler[h].new
         seen == handler[h].seen
     IN CASE c.op = "entry"     -> RecordEntry(c, seen)
          [] c.op = "exit"      -> RecordExit(c, seen)
          [] c.op = "threshold" -> RecordThreshold(c)
          [] c.op = "create"    -> RecordOrder(c, new, seen)
          [] c.op = "append"    -> RecordDispatches(c, new, seen)
          [] c.op = "count"     -> RecordCount(c, seen)
  /\ \E answer \in {"done", "error"} : Finish(h, answer)
  /\ UNCHANGED now

\* The handler is lost, an insertion fails, or the COMMIT does: all is rolled back.
Fails(h) ==
  /\ handler[h] # Idle
  /\ Finish(h, "error")
  /\ UNCHANGED <<rowVars, now>>

Serve(h) == \/ LocksKey(h) \/ Look(h) \/ LocksSku(h) \/ Read(h) \/ Commits(h)

ServiceNext == \E h \in Handlers : \/ \E c \in Commands : Receive(h, c)
                                  \/ Serve(h) \/ Fails(h)
=============================================================================
