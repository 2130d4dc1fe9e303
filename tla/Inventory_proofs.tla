-------------------------- MODULE Inventory_proofs --------------------------
(***************************************************************************)
(* Proofs about Inventory for any handlers, relays, commands and SKUs:     *)
(* the order of the locks, what a handler still knows when it writes, what *)
(* the rows tell of each other, and then the stock that they add up to.    *)
(***************************************************************************)
EXTENDS Inventory, SumLemmas

-----------------------------------------------------------------------------
(* The inductive invariant. *)

\* What a handler is doing.
HandlerOK(h) ==
  \/ handler[h] = Idle
  \/ /\ handler[h].at = "keys"
     /\ handler[h].cmd \in Commands
     /\ handler[h].todo \subseteq Keys(handler[h].cmd)
     /\ Keys(handler[h].cmd) # {}
     /\ handler[h] = [at |-> "keys", cmd |-> handler[h].cmd, todo |-> handler[h].todo,
                      new |-> {}]
  \/ /\ handler[h].at = "skus"
     /\ handler[h].cmd \in Commands
     /\ handler[h].new \subseteq Items
     /\ handler[h].todo \subseteq SkusOf(handler[h].cmd, handler[h].new)
     /\ handler[h] = [at |-> "skus", cmd |-> handler[h].cmd, todo |-> handler[h].todo,
                      new |-> handler[h].new]
  \/ /\ handler[h].at = "write"
     /\ handler[h].cmd \in Commands
     /\ handler[h].new \subseteq Items

\* Locks are taken in increasing order, identifiers before SKUs; the identifiers
\* of a command are held from its look-up to its end.
LocksInOrder(h) ==
  /\ \A i \in Ids : keyLock[i] = h =>
       /\ handler[h].at \in {"keys", "skus", "write"}
       /\ handler[h].at = "keys" => \A j \in handler[h].todo : i < j
  /\ \A s \in SKUs : skuLock[s] = h =>
       /\ handler[h].at \in {"skus", "write"}
       /\ handler[h].at = "skus" => \A t \in handler[h].todo : s < t
  /\ handler[h].at = "keys" =>
       \A i \in Keys(handler[h].cmd) \ handler[h].todo : keyLock[i] = h
  /\ handler[h].at \in {"skus", "write"} =>
       \A i \in Keys(handler[h].cmd) : keyLock[i] = h

\* What the look-up of a command found: nothing of what it will insert is there.
Fresh(c, new) ==
  /\ c.op = "create" => /\ new = c.items /\ Known(new) = {}
                        /\ \A o \in orders : o.id # c.order
  /\ c.op = "append" => /\ new \subseteq c.items /\ new # {} /\ Known(new) = {}
                        /\ \E o \in orders : o.id = c.order
  /\ c.op = "count" => \A k \in counts : k.id # c.id

\* It is still so when the handler writes.
StillNew(h) ==
  handler[h].at \in {"skus", "write"} => Fresh(handler[h].cmd, handler[h].new)

\* The time of a command is its own.
OwnTime(h) ==
  handler[h].at = "write" =>
    /\ handler[h].seen.now \in 0 .. now
    /\ \A e \in outbox : e.at # handler[h].seen.now
    /\ \A k \in checkpoints : k.at # handler[h].seen.now
    /\ \A g \in Handlers \ {h} :
         handler[g].at = "write" => handler[g].seen.now # handler[h].seen.now

Knowledge == \A h \in Handlers : StillNew(h) /\ OwnTime(h)

Locks == /\ keyLock \in [Ids -> Handlers \cup {NoOne}]
         /\ skuLock \in [SKUs -> Handlers \cup {NoOne}]
         /\ DOMAIN handler = Handlers
         /\ \A h \in Handlers : HandlerOK(h) /\ LocksInOrder(h)

\* One event for each order, and no order without its event or the other way round.
OrderFacts ==
  /\ \A o, p \in orders : o.id = p.id => o = p
  /\ \A d \in dispatches : \E o \in orders : o.id = d.order
  /\ \A o \in orders : \E e \in outbox : e.type = "outbound_order_created" /\ e.source = o.id
  /\ \A e \in outbox : e.type = "outbound_order_created" =>
       /\ \E o \in orders : o.id = e.source
       /\ \A f \in outbox : f.type = e.type /\ f.source = e.source => f = e

CountFacts ==
  /\ \A k, l \in counts : k.id = l.id => k = l
  /\ \A k \in counts : k.observed # k.expected =>
       \E e \in outbox : e.type = "inventory_discrepancy_detected" /\ e.source = k.id
  /\ \A e \in outbox : e.type = "inventory_discrepancy_detected" =>
       /\ \E k \in counts : k.id = e.source /\ k.observed # k.expected
       /\ \A f \in outbox : f.type = e.type /\ f.source = e.source => f = e

CrossingEvent(source, at) ==
  [type |-> "stock_threshold_triggered", source |-> source, at |-> at]

CheckpointFacts ==
  /\ now \in Nat
  /\ \A e \in outbox : e.at \in 0 .. now
  /\ \A k \in checkpoints : k.at \in 0 .. now
  /\ \A k \in checkpoints : k.crossed <=> CrossingEvent(k.source, k.at) \in outbox

Rows == OrderFacts /\ CountFacts /\ CheckpointFacts

\* A relay that acknowledges has delivered.
RelayInv ==
  /\ published \subseteq telemetry
  /\ DOMAIN relay = Relays
  /\ \A b \in Relays : relay[b].at \in {"take", "deliver", "acknowledge"}
  /\ \A b \in Relays : relay[b].at = "acknowledge" => relay[b].event \in telemetry

IInv == Locks /\ Knowledge /\ Rows /\ RelayInv

-----------------------------------------------------------------------------
(* Facts about the operators. *)

LEMMA MinIsLeast ==
  ASSUME NEW S, S \subseteq Nat, S # {}
  PROVE  Min(S) \in S /\ \A x \in S : Min(S) <= x
<1>1. PICK m \in S : \A x \in S : ~ (<<x, m>> \in OpToRel(<, Nat))
  BY WFMin, NatLessThanWellFounded
<1>2. \A x \in S : m <= x
  <2> SUFFICES ASSUME NEW x \in S, ~ (m <= x) PROVE FALSE
    OBVIOUS
  <2>1. <<x, m>> \in OpToRel(<, Nat) BY DEF OpToRel
  <2> QED BY <1>1, <2>1
<1> QED BY <1>2 DEF Min

LEMMA KeysAreIds ==
  ASSUME NEW c \in Commands
  PROVE  Keys(c) \subseteq Ids
<1>1. c.op \in {"create", "append"} => c.items \subseteq Items BY DEF Items
<1> QED BY <1>1, CommandAssumption DEF Keys, Ops

LEMMA SkusAreSKUs ==
  ASSUME NEW c \in Commands, NEW new \in SUBSET Items
  PROVE  SkusOf(c, new) \subseteq SKUs
BY CommandAssumption DEF SkusOf, Ops

LEMMA LookedUp ==
  ASSUME NEW c \in Commands, Keys(c) # {}
  PROVE  c.op \in {"create", "append", "count"}
BY CommandAssumption DEF Keys, Ops

LEMMA NotLookedUp ==
  ASSUME NEW c \in Commands, Keys(c) = {}
  PROVE  c.op \in {"entry", "exit", "threshold"}
BY CommandAssumption DEF Keys, Ops

LEMMA ItemsAreItems ==
  ASSUME NEW c \in Commands, c.op \in {"create", "append"}
  PROVE  /\ c.items \subseteq Items
         /\ \A i \in c.items : i.id \in Keys(c)
         /\ c.order \in Keys(c)
BY DEF Items, Keys

-----------------------------------------------------------------------------
(* What a step does to a handler and to its locks. *)

LEMMA LookCases ==
  ASSUME Locks, NEW h \in Handlers, Look(h)
  PROVE  /\ handler[h].at = "keys" /\ handler[h].todo = {}
         /\ UNCHANGED <<rowVars, now>>
         /\ \/ \E answer : Finish(h, answer)
            \/ \E new \in SUBSET Items : GoOn(h, new) /\ Fresh(Cmd(h), new)
<1>1. handler[h].at = "keys" /\ handler[h].todo = {} /\ UNCHANGED <<rowVars, now>>
  BY DEF Look
<1>2. Cmd(h) \in Commands /\ Keys(Cmd(h)) # {}
  BY <1>1 DEF Locks, HandlerOK, Idle, Cmd
<1>3. Cmd(h).op \in {"create", "append", "count"} BY <1>2, LookedUp
<1>4. CASE Cmd(h).op = "create"
  <2>1. LookForOrder(h) BY <1>4 DEF Look
  <2>2. Cmd(h).items \in SUBSET Items BY <1>2, <1>4, ItemsAreItems
  <2>3. \/ \E answer : Finish(h, answer)
        \/ GoOn(h, Cmd(h).items) /\ Known(Cmd(h).items) = {}
           /\ {o \in orders : o.id = Cmd(h).order} = {}
    BY <2>1 DEF LookForOrder
  <2> QED BY <1>1, <1>4, <2>2, <2>3 DEF Fresh
<1>5. CASE Cmd(h).op = "append"
  <2> DEFINE new == Cmd(h).items \ Known(Cmd(h).items)
  <2>1. LookForDispatches(h) BY <1>5 DEF Look
  <2>2. new \in SUBSET Items BY <1>2, <1>5, ItemsAreItems
  <2>3. \/ \E answer : Finish(h, answer)
        \/ /\ GoOn(h, new)
           /\ Known(Cmd(h).items) # Cmd(h).items
           /\ \E o \in orders : o.id = Cmd(h).order
    BY <2>1 DEF LookForDispatches
  <2>4. Known(new) = {} /\ new \subseteq Cmd(h).items BY DEF Known
  <2>5. Known(Cmd(h).items) # Cmd(h).items => new # {} BY DEF Known
  <2> HIDE DEF new
  <2> QED BY <1>1, <1>5, <2>2, <2>3, <2>4, <2>5 DEF Fresh
<1>6. CASE Cmd(h).op = "count"
  <2>1. LookForCount(h) BY <1>6 DEF Look
  <2>2. \/ \E answer : Finish(h, answer)
        \/ GoOn(h, {}) /\ {k \in counts : k.id = Cmd(h).id} = {}
    BY <2>1 DEF LookForCount
  <2> QED BY <1>1, <1>6, <2>2 DEF Fresh
<1> QED BY <1>3, <1>4, <1>5, <1>6

\* The stock is read: the handler keeps what it saw, at a time of its own.
ReadsOn(h) ==
  /\ handler[h].at = "skus"
  /\ \E seen : /\ handler' = [handler EXCEPT ![h] =
                     [at |-> "write", cmd |-> Cmd(h), new |-> handler[h].new,
                      seen |-> seen]]
               /\ seen.now = now + 1
  /\ now' = now + 1
  /\ UNCHANGED <<rowVars, lockVars, answers, requests>>

LEMMA ReadCases ==
  ASSUME NEW h \in Handlers, Read(h)
  PROVE  ReadsOn(h) \/ \E answer : Finish(h, answer) /\ UNCHANGED <<rowVars, now>>
BY DEF Read, ReadsOn
-----------------------------------------------------------------------------
(* The locks. *)

\* A handler that a step leaves alone keeps its locks, and its facts about them.
LEMMA OthersLocks ==
  ASSUME Locks, NEW h \in Handlers, NEW g \in Handlers, g # h,
         handler'[g] = handler[g],
         \A i \in Ids : (keyLock[i] = g) <=> (keyLock'[i] = g),
         \A s \in SKUs : (skuLock[s] = g) <=> (skuLock'[s] = g)
  PROVE  HandlerOK(g)' /\ LocksInOrder(g)'
<1>1. HandlerOK(g)' BY DEF Locks, HandlerOK, Idle
<1>2. \A i \in Keys(handler[g].cmd) : handler[g].at \in {"keys", "skus", "write"} => i \in Ids
  BY KeysAreIds DEF Locks, HandlerOK, Idle
<1>3. LocksInOrder(g)' BY <1>2 DEF Locks, LocksInOrder
<1> QED BY <1>1, <1>3

LEMMA ReceiveLocks ==
  ASSUME Locks, NEW h \in Handlers, NEW c \in Commands, Receive(h, c)
  PROVE  Locks'
<1>1. UNCHANGED <<keyLock, skuLock>> /\ handler[h] = Idle
  BY DEF Receive, storeVars, lockVars
<1>2. DOMAIN handler' = Handlers /\ \A g \in Handlers \ {h} : handler'[g] = handler[g]
  BY DEF Receive, Locks
<1>3. CASE Keys(c) = {}
  <2>1. handler'[h] = [at |-> "skus", cmd |-> c, todo |-> SkusOf(c, {}), new |-> {}]
    BY <1>3 DEF Receive, Locks
  <2>2. HandlerOK(h)' BY <2>1 DEF HandlerOK
  <2>3. LocksInOrder(h)' BY <1>1, <1>3, <2>1 DEF LocksInOrder, Locks, Idle
  <2> QED BY <1>1, <1>2, <2>2, <2>3, OthersLocks DEF Locks
<1>4. CASE Keys(c) # {}
  <2>1. handler'[h] = [at |-> "keys", cmd |-> c, todo |-> Keys(c), new |-> {}]
    BY <1>4 DEF Receive, Locks
  <2>2. HandlerOK(h)' BY <1>4, <2>1 DEF HandlerOK
  <2>3. LocksInOrder(h)' BY <1>1, <2>1 DEF LocksInOrder, Locks, Idle
  <2> QED BY <1>1, <1>2, <2>2, <2>3, OthersLocks DEF Locks
<1> QED BY <1>3, <1>4

LEMMA LocksKeyLocks ==
  ASSUME Locks, NEW h \in Handlers, LocksKey(h)
  PROVE  Locks'
<1> DEFINE i == Min(handler[h].todo)
           c == handler[h].cmd
<1>1. /\ handler[h].at = "keys" /\ c \in Commands /\ Keys(c) # {}
      /\ handler[h].todo \subseteq Keys(c) /\ handler[h].todo # {}
      /\ handler[h] = [at |-> "keys", cmd |-> c, todo |-> handler[h].todo, new |-> {}]
  BY DEF LocksKey, Locks, HandlerOK, Idle
<1>2. handler[h].todo \subseteq Nat /\ Keys(c) \subseteq Ids
  BY <1>1, KeysAreIds, CommandAssumption
<1>3. i \in handler[h].todo /\ \A j \in handler[h].todo : i <= j
  BY <1>1, <1>2, MinIsLeast
<1>4. /\ keyLock[i] = NoOne /\ keyLock' = [keyLock EXCEPT ![i] = h]
      /\ UNCHANGED skuLock
  BY DEF LocksKey, LockKey
<1>5. /\ DOMAIN handler' = Handlers /\ \A g \in Handlers \ {h} : handler'[g] = handler[g]
      /\ handler'[h] = [at |-> "keys", cmd |-> c, todo |-> handler[h].todo \ {i}, new |-> {}]
  <2>1. DOMAIN handler = Handlers BY DEF Locks
  <2>2. handler' = [handler EXCEPT ![h] = [handler[h] EXCEPT !.todo = @ \ {i}]]
    BY DEF LocksKey
  <2>3. [handler[h] EXCEPT !.todo = @ \ {i}] =
          [at |-> "keys", cmd |-> c, todo |-> handler[h].todo \ {i}, new |-> {}]
    BY <1>1
  <2> QED BY <2>1, <2>2, <2>3
<1> HIDE DEF i, c
<1>6. i \in Ids /\ i \in Nat BY <1>1, <1>2, <1>3
<1>7. HandlerOK(h)' BY <1>1, <1>5 DEF HandlerOK
<1>8. LocksInOrder(h)'
  <2>1. \A j \in handler[h].todo \ {i} : i < j BY <1>2, <1>3, <1>6
  <2>2. \A j \in Ids : keyLock'[j] = h =>
          \A k \in handler[h].todo \ {i} : j < k
    BY <1>1, <1>4, <1>6, <2>1 DEF Locks, LocksInOrder
  <2>3. \A s \in SKUs : skuLock'[s] # h BY <1>1, <1>4 DEF Locks, LocksInOrder
  <2>4. \A j \in Keys(c) \ (handler[h].todo \ {i}) : keyLock'[j] = h
    BY <1>1, <1>2, <1>4, <1>6 DEF Locks, LocksInOrder, c
  <2> QED BY <1>5, <2>2, <2>3, <2>4 DEF LocksInOrder
<1>9. \A g \in Handlers \ {h} : HandlerOK(g)' /\ LocksInOrder(g)'
  <2>1. \A g \in Handlers \ {h} : \A j \in Ids : (keyLock[j] = g) <=> (keyLock'[j] = g)
    BY <1>4, <1>6, HandlersAssumption DEF Locks
  <2> QED BY <1>4, <1>5, <2>1, OthersLocks
<1>10. keyLock' \in [Ids -> Handlers \cup {NoOne}] BY <1>4, <1>6 DEF Locks
<1> QED BY <1>4, <1>5, <1>7, <1>8, <1>9, <1>10 DEF Locks

LEMMA FinishLocks ==
  ASSUME Locks, NEW h \in Handlers, NEW answer, Finish(h, answer)
  PROVE  Locks'
<1>1. /\ DOMAIN handler' = Handlers /\ \A g \in Handlers \ {h} : handler'[g] = handler[g]
      /\ handler'[h] = Idle
  BY DEF Finish, Locks
<1>2. /\ \A i \in Ids : keyLock'[i] = IF keyLock[i] = h THEN NoOne ELSE keyLock[i]
      /\ \A s \in SKUs : skuLock'[s] = IF skuLock[s] = h THEN NoOne ELSE skuLock[s]
  BY DEF Finish, Unlock
<1>3. keyLock' \in [Ids -> Handlers \cup {NoOne}] /\ skuLock' \in [SKUs -> Handlers \cup {NoOne}]
  BY DEF Finish, Unlock, Locks
<1>4. \A g \in Handlers \ {h} : HandlerOK(g)' /\ LocksInOrder(g)'
  <2>1. \A g \in Handlers \ {h} :
          /\ \A i \in Ids : (keyLock[i] = g) <=> (keyLock'[i] = g)
          /\ \A s \in SKUs : (skuLock[s] = g) <=> (skuLock'[s] = g)
    BY <1>2, HandlersAssumption
  <2> QED BY <1>1, <2>1, OthersLocks
<1>5. HandlerOK(h)' BY <1>1 DEF HandlerOK, Idle
<1>6. LocksInOrder(h)' BY <1>1, <1>2, HandlersAssumption DEF LocksInOrder, Idle
<1> QED BY <1>1, <1>3, <1>4, <1>5, <1>6 DEF Locks

LEMMA GoOnLocks ==
  ASSUME Locks, NEW h \in Handlers, NEW new \in SUBSET Items, GoOn(h, new),
         handler[h].at = "keys", handler[h].todo = {}
  PROVE  Locks'
<1>1. handler[h].cmd \in Commands BY DEF Locks, HandlerOK, Idle
<1>2. /\ DOMAIN handler' = Handlers /\ \A g \in Handlers \ {h} : handler'[g] = handler[g]
      /\ handler'[h] = [at |-> "skus", cmd |-> handler[h].cmd,
                        todo |-> SkusOf(handler[h].cmd, new), new |-> new]
  BY DEF GoOn, Locks, Cmd
<1>3. UNCHANGED <<keyLock, skuLock>> BY DEF GoOn, lockVars
<1>4. HandlerOK(h)' BY <1>1, <1>2 DEF HandlerOK
<1>5. LocksInOrder(h)' BY <1>2, <1>3 DEF LocksInOrder, Locks
<1> QED BY <1>2, <1>3, <1>4, <1>5, OthersLocks DEF Locks
LEMMA LocksSkuLocks ==
  ASSUME Locks, NEW h \in Handlers, LocksSku(h)
  PROVE  Locks'
<1> DEFINE s == Min(handler[h].todo)
           c == handler[h].cmd
           new == handler[h].new
<1>1. /\ handler[h].at = "skus" /\ c \in Commands /\ new \in SUBSET Items
      /\ handler[h].todo \subseteq SkusOf(c, new) /\ handler[h].todo # {}
      /\ handler[h] = [at |-> "skus", cmd |-> c, todo |-> handler[h].todo, new |-> new]
  BY DEF LocksSku, Locks, HandlerOK, Idle
<1>2. handler[h].todo \subseteq SKUs /\ handler[h].todo \subseteq Nat
  BY <1>1, SkusAreSKUs, CommandAssumption
<1>3. s \in handler[h].todo /\ \A t \in handler[h].todo : s <= t
  BY <1>1, <1>2, MinIsLeast
<1>4. /\ skuLock[s] = NoOne /\ skuLock' = [skuLock EXCEPT ![s] = h]
      /\ UNCHANGED keyLock
  BY DEF LocksSku, LockSku
<1>5. /\ DOMAIN handler' = Handlers /\ \A g \in Handlers \ {h} : handler'[g] = handler[g]
      /\ handler'[h] = [at |-> "skus", cmd |-> c, todo |-> handler[h].todo \ {s}, new |-> new]
  BY <1>1 DEF LocksSku, Locks
<1> HIDE DEF s, c, new
<1>6. s \in SKUs /\ s \in Nat BY <1>2, <1>3
<1>7. HandlerOK(h)' BY <1>1, <1>5 DEF HandlerOK
<1>8. LocksInOrder(h)'
  <2>1. \A t \in handler[h].todo \ {s} : s < t BY <1>2, <1>3, <1>6
  <2>2. \A t \in SKUs : skuLock'[t] = h =>
          \A u \in handler[h].todo \ {s} : t < u
    BY <1>1, <1>4, <1>6, <2>1 DEF Locks, LocksInOrder
  <2>3. \A i \in Keys(c) : keyLock'[i] = h
    BY <1>1, <1>4 DEF Locks, LocksInOrder, c
  <2> QED BY <1>5, <2>2, <2>3 DEF LocksInOrder
<1>9. \A g \in Handlers \ {h} : HandlerOK(g)' /\ LocksInOrder(g)'
  <2>1. \A g \in Handlers \ {h} : \A t \in SKUs : (skuLock[t] = g) <=> (skuLock'[t] = g)
    BY <1>4, <1>6, HandlersAssumption DEF Locks
  <2> QED BY <1>4, <1>5, <2>1, OthersLocks
<1>10. skuLock' \in [SKUs -> Handlers \cup {NoOne}] BY <1>4, <1>6 DEF Locks
<1> QED BY <1>4, <1>5, <1>7, <1>8, <1>9, <1>10 DEF Locks

LEMMA ReadsOnLocks ==
  ASSUME Locks, NEW h \in Handlers, ReadsOn(h)
  PROVE  Locks'
<1>1. handler[h].at = "skus" /\ handler[h].cmd \in Commands /\ handler[h].new \subseteq Items
  BY DEF ReadsOn, Locks, HandlerOK, Idle
<1>2. PICK seen : handler' = [handler EXCEPT ![h] =
        [at |-> "write", cmd |-> handler[h].cmd, new |-> handler[h].new, seen |-> seen]]
  BY DEF ReadsOn, Cmd
<1>3. /\ DOMAIN handler' = Handlers /\ \A g \in Handlers \ {h} : handler'[g] = handler[g]
      /\ handler'[h] = [at |-> "write", cmd |-> handler[h].cmd, new |-> handler[h].new,
                        seen |-> seen]
  BY <1>2 DEF Locks
<1>4. UNCHANGED <<keyLock, skuLock>> BY DEF ReadsOn, lockVars
<1>5. HandlerOK(h)' BY <1>1, <1>3 DEF HandlerOK
<1>6. LocksInOrder(h)' BY <1>1, <1>3, <1>4 DEF LocksInOrder, Locks
<1> QED BY <1>3, <1>4, <1>5, <1>6, OthersLocks DEF Locks

-----------------------------------------------------------------------------
(* What a handler knows: steps that write no rows. *)

LEMMA KnowledgeKept ==
  ASSUME Locks, Knowledge, NEW h \in Handlers,
         UNCHANGED <<rowVars, now>>,
         \A g \in Handlers \ {h} : handler'[g] = handler[g],
         handler'[h].at # "write",
         handler'[h].at = "skus" => Fresh(handler[h].cmd, handler'[h].new)
                                    /\ handler'[h].cmd = handler[h].cmd
  PROVE  Knowledge'
<1>1. UNCHANGED <<orders, dispatches, counts, checkpoints, outbox, now>> BY DEF rowVars
<1>2. \A g \in Handlers \ {h} : StillNew(g)' BY <1>1 DEF Knowledge, StillNew, Fresh, Known
<1>3. StillNew(h)' BY <1>1 DEF StillNew, Fresh, Known
<1>4. \A g \in Handlers : OwnTime(g)' BY <1>1 DEF Knowledge, OwnTime
<1> QED BY <1>2, <1>3, <1>4 DEF Knowledge

LEMMA ReadsOnKnowledge ==
  ASSUME Locks, Knowledge, CheckpointFacts, NEW h \in Handlers, ReadsOn(h)
  PROVE  Knowledge'
<1>1. PICK seen : /\ handler' = [handler EXCEPT ![h] =
                       [at |-> "write", cmd |-> handler[h].cmd, new |-> handler[h].new,
                        seen |-> seen]]
                  /\ seen.now = now + 1
  BY DEF ReadsOn, Cmd
<1>2. /\ DOMAIN handler' = Handlers /\ \A g \in Handlers \ {h} : handler'[g] = handler[g]
      /\ handler'[h] = [at |-> "write", cmd |-> handler[h].cmd, new |-> handler[h].new,
                        seen |-> seen]
  BY <1>1 DEF Locks
<1>3. /\ UNCHANGED <<orders, dispatches, counts, checkpoints, outbox>>
      /\ now' = now + 1 /\ now \in Nat /\ handler[h].at = "skus"
  BY DEF ReadsOn, rowVars, CheckpointFacts
<1>4. \A g \in Handlers : StillNew(g)' BY <1>2, <1>3 DEF Knowledge, StillNew, Fresh, Known
<1>5. /\ \A e \in outbox : e.at # now + 1
      /\ \A k \in checkpoints : k.at # now + 1
      /\ \A g \in Handlers : handler[g].at = "write" => handler[g].seen.now # now + 1
  BY <1>3 DEF CheckpointFacts, Knowledge, OwnTime
<1>6. handler'[h].seen.now = now + 1 /\ now + 1 \in 0 .. now'
  BY <1>1, <1>2, <1>3
<1>7. OwnTime(h)' BY <1>2, <1>3, <1>5, <1>6 DEF OwnTime
<1>8. \A g \in Handlers \ {h} : OwnTime(g)'
  <2> SUFFICES ASSUME NEW g \in Handlers \ {h}, handler[g].at = "write" PROVE OwnTime(g)'
    BY <1>2 DEF OwnTime
  <2>1. handler[g].seen.now \in 0 .. now' BY <1>3 DEF Knowledge, OwnTime
  <2> QED BY <1>2, <1>3, <1>5, <1>6, <2>1 DEF Knowledge, OwnTime
<1> QED BY <1>4, <1>7, <1>8 DEF Knowledge
-----------------------------------------------------------------------------
(* A commit adds rows that carry the time and the identifiers of its command. *)

Adds(h) ==
  /\ orders \subseteq orders'
  /\ \A o \in orders' \ orders : o.id \in Keys(Cmd(h))
  /\ \A d \in dispatches' \ dispatches : d.id \in Keys(Cmd(h))
  /\ \A k \in counts' \ counts : k.id \in Keys(Cmd(h))
  /\ \A k \in checkpoints' \ checkpoints : k.at = handler[h].seen.now
  /\ \A e \in outbox' \ outbox : e.at = handler[h].seen.now

\* The locks of the identifiers keep others from inserting what a handler looked for.
LEMMA CommitKnowledge ==
  ASSUME Locks, Knowledge, NEW h \in Handlers, handler[h].at = "write", Adds(h),
         now' = now, handler'[h] = Idle, \A g \in Handlers \ {h} : handler'[g] = handler[g]
  PROVE  Knowledge'
<1>1. StillNew(h)' /\ OwnTime(h)' BY DEF StillNew, OwnTime, Idle
<1>2. ASSUME NEW g \in Handlers \ {h}, handler[g].at \in {"skus", "write"}
      PROVE  StillNew(g)'
  <2> DEFINE c == handler[g].cmd
             new == handler[g].new
  <2>1. c \in Commands /\ handler[h].cmd \in Commands
    BY <1>2 DEF Locks, HandlerOK, Idle
  <2>2. Keys(c) \subseteq Ids BY <2>1, KeysAreIds
  <2>3. \A i \in Keys(c) : i \notin Keys(Cmd(h))
    BY <1>2, <2>2 DEF Locks, LocksInOrder, Cmd
  <2>4. Fresh(c, new) BY <1>2 DEF Knowledge, StillNew
  <2>5. c.op \in {"create", "append"} =>
          /\ c.order \in Keys(c)
          /\ \A i \in c.items : i.id \in Keys(c)
    BY <2>1, ItemsAreItems
  <2>6. c.op = "count" => c.id \in Keys(c) BY DEF Keys
  <2>7. c.op \in {"create", "append"} => new \subseteq c.items BY <2>4 DEF Fresh
  <2>8. c.op \in {"create", "append"} =>
          \A i \in new : \A d \in dispatches' : d.id # i.id
    BY <2>3, <2>4, <2>5, <2>7 DEF Fresh, Known, Adds
  <2>9. c.op = "create" => \A o \in orders' : o.id # c.order
    BY <2>3, <2>4, <2>5 DEF Fresh, Adds
  <2>10. c.op = "append" => \E o \in orders' : o.id = c.order
    BY <2>4 DEF Fresh, Adds
  <2>11. c.op = "count" => \A k \in counts' : k.id # c.id
    BY <2>3, <2>4, <2>6 DEF Fresh, Adds
  <2>12. handler'[g] = handler[g] OBVIOUS
  <2> QED BY <2>4, <2>8, <2>9, <2>10, <2>11, <2>12 DEF StillNew, Fresh, Known
<1>3. ASSUME NEW g \in Handlers \ {h}, handler[g].at = "write" PROVE OwnTime(g)'
  <2>1. handler[g].seen.now # handler[h].seen.now BY <1>3 DEF Knowledge, OwnTime
  <2>2. handler'[g] = handler[g] BY <1>3
  <2>3. \A f \in Handlers \ {g} : handler'[f].at = "write" => handler'[f] = handler[f]
    BY DEF Idle
  <2>4. handler[g].seen.now \in 0 .. now' BY <1>3 DEF Knowledge, OwnTime
  <2>5. \A e \in outbox' : e.at # handler[g].seen.now
    BY <1>3, <2>1 DEF Adds, Knowledge, OwnTime
  <2>6. \A k \in checkpoints' : k.at # handler[g].seen.now
    BY <1>3, <2>1 DEF Adds, Knowledge, OwnTime
  <2>7. \A f \in Handlers \ {g} : handler'[f].at = "write" =>
          handler'[f].seen.now # handler[g].seen.now
    BY <1>3, <2>3 DEF Knowledge, OwnTime
  <2> QED BY <2>2, <2>4, <2>5, <2>6, <2>7 DEF OwnTime
<1>4. ASSUME NEW g \in Handlers \ {h}, ~ (handler[g].at \in {"skus", "write"})
      PROVE  StillNew(g)' /\ OwnTime(g)'
  BY <1>4 DEF StillNew, OwnTime
<1>5. \A g \in Handlers \ {h} : StillNew(g)' BY <1>2, <1>4
<1>6. \A g \in Handlers \ {h} : OwnTime(g)' BY <1>3 DEF OwnTime
<1> QED BY <1>1, <1>5, <1>6 DEF Knowledge
\* A handler about to write, and what it knows.
Writing(h, c, seen) ==
  /\ h \in Handlers /\ handler[h].at = "write"
  /\ c = Cmd(h) /\ c \in Commands /\ seen = handler[h].seen
  /\ StillNew(h) /\ OwnTime(h) /\ Rows /\ now' = now

\* The checkpoints of a command, and an event for each of them that crosses.
LEMMA MoveRows ==
  ASSUME NEW h, NEW c, NEW seen, Writing(h, c, seen),
         NEW moves, NEW events, Move(moves, events, seen),
         \A m, n \in moves : m.source = n.source => m = n,
         \A e \in events : e.type # "stock_threshold_triggered" /\ e.at = seen.now
  PROVE  /\ CheckpointFacts'
         /\ outbox \subseteq outbox' /\ events \subseteq outbox'
         /\ \A e \in outbox' \ outbox : /\ e.at = seen.now
                                        /\ e \in events \/ e.type = "stock_threshold_triggered"
         /\ \A k \in checkpoints' \ checkpoints : k.at = seen.now
<1> DEFINE triggered == ThresholdEvents(moves, seen)
<1>1. /\ h \in Handlers /\ OwnTime(h) /\ handler[h].at = "write"
      /\ seen = handler[h].seen /\ CheckpointFacts /\ now' = now
  BY DEF Writing, Rows
<1>2. /\ outbox' = outbox \cup events \cup triggered
      /\ checkpoints' = checkpoints \cup {Checkpoint(m, moves, seen) : m \in moves}
  BY DEF Move
<1>3. \A e \in triggered : e.type = "stock_threshold_triggered" /\ e.at = seen.now
  BY DEF ThresholdEvents, Event
<1>4. \A m \in moves : /\ Checkpoint(m, moves, seen).source = m.source
                       /\ Checkpoint(m, moves, seen).at = seen.now
                       /\ Checkpoint(m, moves, seen).crossed = Crosses(m, moves, seen)
  BY DEF Checkpoint
<1>5. \A m \in moves : CrossingEvent(m.source, seen.now) \in triggered
                         <=> Crosses(m, moves, seen)
  <2> SUFFICES ASSUME NEW m \in moves
               PROVE  CrossingEvent(m.source, seen.now) \in triggered
                        <=> Crosses(m, moves, seen)
    OBVIOUS
  <2>1. triggered = {CrossingEvent(n.source, seen.now) :
                       n \in {n \in moves : Crosses(n, moves, seen)}}
    BY DEF ThresholdEvents, Event, CrossingEvent
  <2>2. \A n \in moves : CrossingEvent(n.source, seen.now) = CrossingEvent(m.source, seen.now)
          => n = m
    BY DEF CrossingEvent
  <2> QED BY <2>1, <2>2
<1>6. seen.now \in 0 .. now BY <1>1 DEF OwnTime
<1>7. \A k \in checkpoints' : k.crossed <=> CrossingEvent(k.source, k.at) \in outbox'
  <2>1. ASSUME NEW k \in checkpoints PROVE k.crossed <=> CrossingEvent(k.source, k.at) \in outbox'
    <3>1. k.at # seen.now BY <1>1 DEF OwnTime
    <3>2. CrossingEvent(k.source, k.at).at = k.at BY DEF CrossingEvent
    <3>3. CrossingEvent(k.source, k.at) \notin events \cup triggered BY <1>3, <3>1, <3>2
    <3> QED BY <1>1, <1>2, <3>3 DEF CheckpointFacts
  <2>2. ASSUME NEW m \in moves
        PROVE  Crosses(m, moves, seen) <=> CrossingEvent(m.source, seen.now) \in outbox'
    <3>1. /\ CrossingEvent(m.source, seen.now).at = seen.now
          /\ CrossingEvent(m.source, seen.now).type = "stock_threshold_triggered"
      BY DEF CrossingEvent
    <3>2. CrossingEvent(m.source, seen.now) \notin outbox BY <1>1, <3>1 DEF OwnTime
    <3>3. CrossingEvent(m.source, seen.now) \notin events BY <3>1
    <3> QED BY <1>2, <1>5, <3>2, <3>3
  <2> QED BY <1>2, <1>4, <2>1, <2>2
<1>8. /\ now' \in Nat
      /\ \A e \in outbox' : e.at \in 0 .. now'
      /\ \A k \in checkpoints' : k.at \in 0 .. now'
  BY <1>1, <1>2, <1>3, <1>4, <1>6 DEF CheckpointFacts
<1>9. CheckpointFacts' BY <1>7, <1>8 DEF CheckpointFacts, CrossingEvent
<1> QED BY <1>2, <1>3, <1>4, <1>9

LEMMA OrdersKept ==
  ASSUME OrderFacts, orders' = orders, outbox \subseteq outbox',
         \A e \in outbox' \ outbox : e.type # "outbound_order_created",
         \A d \in dispatches' \ dispatches : \E o \in orders : o.id = d.order
  PROVE  OrderFacts'
BY DEF OrderFacts

LEMMA CountsKept ==
  ASSUME CountFacts, counts' = counts, outbox \subseteq outbox',
         \A e \in outbox' \ outbox : e.type # "inventory_discrepancy_detected"
  PROVE  CountFacts'
BY DEF CountFacts
-----------------------------------------------------------------------------
(* What each command writes. *)

LEMMA EntryRows ==
  ASSUME NEW h, NEW c, NEW seen, Writing(h, c, seen), RecordEntry(c, seen)
  PROVE  Adds(h) /\ Rows'
<1> DEFINE events == IF ClientOf[c.sku] = NoClient THEN {}
                     ELSE {Event("inbound_order_created", seen.now, seen)}
           moves == OneMove(c, c.quantity, seen)
<1>1. /\ Move(moves, events, seen)
      /\ orders' = orders /\ dispatches' = dispatches /\ counts' = counts
  BY DEF RecordEntry
<1>2. \A e \in events : e.type = "inbound_order_created" /\ e.at = seen.now BY DEF Event
<1>3. \A m, n \in moves : m = n BY DEF OneMove
<1> HIDE DEF events, moves
<1>4. /\ CheckpointFacts'
      /\ outbox \subseteq outbox'
      /\ \A e \in outbox' \ outbox : /\ e.at = seen.now
                                     /\ e \in events \/ e.type = "stock_threshold_triggered"
      /\ \A k \in checkpoints' \ checkpoints : k.at = seen.now
  BY <1>1, <1>2, <1>3, MoveRows
<1>5. \A e \in outbox' \ outbox :
        e.type \notin {"outbound_order_created", "inventory_discrepancy_detected"}
  BY <1>2, <1>4
<1>6. OrderFacts' /\ CountFacts' BY <1>1, <1>4, <1>5, OrdersKept, CountsKept DEF Writing, Rows
<1> QED BY <1>1, <1>4, <1>6 DEF Adds, Writing, Rows

LEMMA ExitRows ==
  ASSUME NEW h, NEW c, NEW seen, Writing(h, c, seen), RecordExit(c, seen)
  PROVE  Adds(h) /\ Rows'
<1> DEFINE moves == OneMove(c, -c.quantity, seen)
<1>1. /\ Move(moves, {}, seen)
      /\ orders' = orders /\ dispatches' = dispatches /\ counts' = counts
  BY DEF RecordExit
<1>2. \A m, n \in moves : m = n BY DEF OneMove
<1> HIDE DEF moves
<1>3. /\ CheckpointFacts'
      /\ outbox \subseteq outbox'
      /\ \A e \in outbox' \ outbox : e.at = seen.now /\ e.type = "stock_threshold_triggered"
      /\ \A k \in checkpoints' \ checkpoints : k.at = seen.now
  BY <1>1, <1>2, MoveRows
<1>4. OrderFacts' /\ CountFacts' BY <1>1, <1>3, OrdersKept, CountsKept DEF Writing, Rows
<1> QED BY <1>1, <1>3, <1>4 DEF Adds, Writing, Rows

LEMMA ThresholdRows ==
  ASSUME NEW h, NEW c, NEW seen, Writing(h, c, seen), RecordThreshold(c)
  PROVE  Adds(h) /\ Rows'
BY DEF RecordThreshold, Adds, Writing, Rows, OrderFacts, CountFacts, CheckpointFacts,
       CrossingEvent

\* The movements of an order have different numbers.
LEMMA OneMovePerItem ==
  ASSUME NEW c \in Commands, c.op \in {"create", "append"}, NEW new \in SUBSET c.items
  PROVE  \A m, n \in OrderMoves(new) : m.source = n.source => m = n
BY CommandAssumption DEF OrderMoves

LEMMA OrderRowsAdded ==
  ASSUME NEW h, NEW c, NEW new, NEW seen, Writing(h, c, seen), new = handler[h].new,
         c.op = "create", RecordOrder(c, new, seen)
  PROVE  Adds(h) /\ Rows'
<1> DEFINE event == Event("outbound_order_created", c.order, seen)
           row == [id |-> c.order, client |-> c.client]
           moves == OrderMoves(new)
<1>1. c \in Commands /\ Fresh(c, new)
  BY DEF Writing, StillNew, Cmd
<1>2. /\ new = c.items /\ \A o \in orders : o.id # c.order
      /\ c.order \in Keys(c) /\ \A i \in c.items : i.id \in Keys(c)
  BY <1>1, ItemsAreItems DEF Fresh
<1>3. /\ Move(moves, {event}, seen)
      /\ orders' = orders \cup {row}
      /\ dispatches' = dispatches \cup {Dispatch(i, c.order) : i \in new}
      /\ counts' = counts
  BY DEF RecordOrder, AddDispatches
<1>4. event.type = "outbound_order_created" /\ event.source = c.order /\ event.at = seen.now
  BY DEF Event
<1>5. \A m, n \in moves : m.source = n.source => m = n BY <1>1, <1>2, OneMovePerItem
<1>6. row.id = c.order OBVIOUS
<1>7. \A i \in new : /\ Dispatch(i, c.order).id \in Keys(c)
                     /\ Dispatch(i, c.order).order = c.order
  BY <1>2 DEF Dispatch
<1> HIDE DEF event, moves, row
<1>8. /\ CheckpointFacts'
      /\ outbox \subseteq outbox' /\ event \in outbox'
      /\ \A e \in outbox' \ outbox : /\ e.at = seen.now
                                     /\ e = event \/ e.type = "stock_threshold_triggered"
      /\ \A k \in checkpoints' \ checkpoints : k.at = seen.now
  BY <1>3, <1>4, <1>5, MoveRows
<1>9. CountFacts' BY <1>3, <1>4, <1>8, CountsKept DEF Writing, Rows
<1>10. OrderFacts'
  <2>1. OrderFacts BY DEF Writing, Rows
  <2>2. \A o, p \in orders' : o.id = p.id => o = p BY <1>2, <1>3, <1>6, <2>1 DEF OrderFacts
  <2>3. \A d \in dispatches' : \E o \in orders' : o.id = d.order
    BY <1>3, <1>6, <1>7, <2>1 DEF OrderFacts
  <2>4. \A o \in orders' : \E e \in outbox' : e.type = "outbound_order_created"
                                               /\ e.source = o.id
    BY <1>3, <1>4, <1>6, <1>8, <2>1 DEF OrderFacts
  <2>5. \A e \in outbox' : e.type = "outbound_order_created" => \E o \in orders' : o.id = e.source
    BY <1>3, <1>4, <1>6, <1>8, <2>1 DEF OrderFacts
  <2>6. \A e \in outbox : e.type = "outbound_order_created" => e.source # c.order
    BY <1>2, <2>1 DEF OrderFacts
  <2>7. \A e, f \in outbox' : e.type = "outbound_order_created" /\ f.type = e.type
                               /\ f.source = e.source => f = e
    BY <1>4, <1>8, <2>1, <2>6 DEF OrderFacts
  <2> QED BY <2>2, <2>3, <2>4, <2>5, <2>7 DEF OrderFacts
<1>11. Adds(h) BY <1>2, <1>3, <1>6, <1>7, <1>8 DEF Adds, Writing
<1> QED BY <1>8, <1>9, <1>10, <1>11 DEF Rows

LEMMA DispatchRowsAdded ==
  ASSUME NEW h, NEW c, NEW new, NEW seen, Writing(h, c, seen), new = handler[h].new,
         c.op = "append", RecordDispatches(c, new, seen)
  PROVE  Adds(h) /\ Rows'
<1> DEFINE moves == OrderMoves(new)
<1>1. c \in Commands /\ Fresh(c, new)
  BY DEF Writing, StillNew, Cmd
<1>2. /\ new \subseteq c.items /\ \E o \in orders : o.id = c.order
      /\ \A i \in c.items : i.id \in Keys(c)
  BY <1>1, ItemsAreItems DEF Fresh
<1>3. /\ Move(moves, {}, seen)
      /\ orders' = orders /\ counts' = counts
      /\ dispatches' = dispatches \cup {Dispatch(i, c.order) : i \in new}
  BY DEF RecordDispatches, AddDispatches
<1>4. \A m, n \in moves : m.source = n.source => m = n BY <1>1, <1>2, OneMovePerItem
<1>5. \A i \in new : /\ Dispatch(i, c.order).id \in Keys(c)
                     /\ Dispatch(i, c.order).order = c.order
  BY <1>2 DEF Dispatch
<1> HIDE DEF moves
<1>6. /\ CheckpointFacts'
      /\ outbox \subseteq outbox'
      /\ \A e \in outbox' \ outbox : e.at = seen.now /\ e.type = "stock_threshold_triggered"
      /\ \A k \in checkpoints' \ checkpoints : k.at = seen.now
  BY <1>3, <1>4, MoveRows
<1>7. CountFacts' BY <1>3, <1>6, CountsKept DEF Writing, Rows
<1>8. OrderFacts' BY <1>2, <1>3, <1>5, <1>6, OrdersKept DEF Writing, Rows
<1>9. Adds(h) BY <1>3, <1>5, <1>6 DEF Adds, Writing
<1> QED BY <1>6, <1>7, <1>8, <1>9 DEF Rows

LEMMA CountRows ==
  ASSUME NEW h, NEW c, NEW seen, Writing(h, c, seen), c.op = "count", RecordCount(c, seen)
  PROVE  Adds(h) /\ Rows'
<1> DEFINE event == Event("inventory_discrepancy_detected", c.id, seen)
           row == [id |-> c.id, sku |-> c.sku, observed |-> c.observed,
                   expected |-> seen.stock[c.sku]]
<1>1. \A k \in counts : k.id # c.id
  BY DEF Writing, StillNew, Cmd, Fresh
<1>2. c.id \in Keys(c) BY DEF Keys
<1>3. /\ UNCHANGED <<orders, dispatches, checkpoints>>
      /\ counts' = counts \cup {row}
      /\ row.observed = row.expected => outbox' = outbox
      /\ row.observed # row.expected => outbox' = outbox \cup {event}
  BY DEF RecordCount
<1>4. row.id = c.id OBVIOUS
<1>5. /\ event.type = "inventory_discrepancy_detected" /\ event.source = c.id
      /\ event.at = seen.now
  BY DEF Event
<1> HIDE DEF row, event
<1>6. OrderFacts' BY <1>3, <1>5, OrdersKept DEF Writing, Rows
<1>7. CheckpointFacts'
  <2>1. CheckpointFacts /\ seen.now \in 0 .. now /\ now' = now BY DEF Writing, Rows, OwnTime
  <2>2. \A k \in checkpoints : CrossingEvent(k.source, k.at) # event
    BY <1>5 DEF CrossingEvent
  <2> QED BY <1>3, <1>5, <2>1, <2>2 DEF CheckpointFacts, CrossingEvent
<1>8. CountFacts'
  <2>1. CountFacts BY DEF Writing, Rows
  <2>2. \A k, l \in counts' : k.id = l.id => k = l BY <1>1, <1>3, <1>4, <2>1 DEF CountFacts
  <2>3. \A k \in counts' : k.observed # k.expected =>
          \E e \in outbox' : e.type = "inventory_discrepancy_detected" /\ e.source = k.id
    BY <1>3, <1>4, <1>5, <2>1 DEF CountFacts
  <2>4. \A e \in outbox' : e.type = "inventory_discrepancy_detected" =>
          \E k \in counts' : k.id = e.source /\ k.observed # k.expected
    BY <1>3, <1>4, <1>5, <2>1 DEF CountFacts
  <2>5. \A e \in outbox : e.type = "inventory_discrepancy_detected" => e.source # c.id
    BY <1>1, <2>1 DEF CountFacts
  <2>6. \A e, f \in outbox' : e.type = "inventory_discrepancy_detected" /\ f.type = e.type
                               /\ f.source = e.source => f = e
    BY <1>3, <1>5, <2>1, <2>5 DEF CountFacts
  <2> QED BY <2>2, <2>3, <2>4, <2>6 DEF CountFacts
<1>9. Adds(h) BY <1>2, <1>3, <1>4, <1>5 DEF Adds, Writing
<1> QED BY <1>6, <1>7, <1>8, <1>9 DEF Rows
-----------------------------------------------------------------------------
(* The inductive invariant, action by action. *)

LEMMA CommitsKeeps ==
  ASSUME Locks, Knowledge, Rows, NEW h \in Handlers, Commits(h)
  PROVE  Locks' /\ Knowledge' /\ Rows'
<1>1. /\ handler[h].at = "write" /\ Cmd(h) \in Commands /\ Cmd(h).op \in Ops
      /\ now' = now
  BY CommandAssumption DEF Commits, Locks, HandlerOK, Idle, Cmd
<1>2. PICK answer : Finish(h, answer) BY DEF Commits
<1>3. Locks' BY <1>2, FinishLocks
<1>4. handler'[h] = Idle /\ \A g \in Handlers \ {h} : handler'[g] = handler[g]
  BY <1>2 DEF Finish, Locks
<1>5. PICK c, new, seen : c = Cmd(h) /\ new = handler[h].new /\ seen = handler[h].seen
  OBVIOUS
<1>6. Writing(h, c, seen) BY <1>1, <1>5 DEF Writing, Knowledge
<1>7. \/ c.op = "entry" /\ RecordEntry(c, seen)
      \/ c.op = "exit" /\ RecordExit(c, seen)
      \/ c.op = "threshold" /\ RecordThreshold(c)
      \/ c.op = "create" /\ RecordOrder(c, new, seen)
      \/ c.op = "append" /\ RecordDispatches(c, new, seen)
      \/ c.op = "count" /\ RecordCount(c, seen)
  <2>1. CASE c.op = "entry" BY <1>5, <2>1 DEF Commits
  <2>2. CASE c.op = "exit" BY <1>5, <2>2 DEF Commits
  <2>3. CASE c.op = "threshold" BY <1>5, <2>3 DEF Commits
  <2>4. CASE c.op = "create" BY <1>5, <2>4 DEF Commits
  <2>5. CASE c.op = "append" BY <1>5, <2>5 DEF Commits
  <2>6. CASE c.op = "count" BY <1>5, <2>6 DEF Commits
  <2> QED BY <1>1, <1>5, <2>1, <2>2, <2>3, <2>4, <2>5, <2>6 DEF Ops
<1>8. Adds(h) /\ Rows'
  BY <1>5, <1>6, <1>7, EntryRows, ExitRows, ThresholdRows, OrderRowsAdded, DispatchRowsAdded,
     CountRows
<1>9. Knowledge' BY <1>1, <1>4, <1>8, CommitKnowledge
<1> QED BY <1>3, <1>8, <1>9

LEMMA RowsKept ==
  ASSUME Rows, UNCHANGED rowVars, now' \in Nat, now <= now'
  PROVE  Rows'
<1>1. UNCHANGED <<orders, dispatches, counts, checkpoints, outbox>> BY DEF rowVars
<1>2. OrderFacts' BY <1>1 DEF Rows, OrderFacts
<1>3. CountFacts' BY <1>1 DEF Rows, CountFacts
<1>4. CheckpointFacts' BY <1>1 DEF Rows, CheckpointFacts, CrossingEvent
<1> QED BY <1>2, <1>3, <1>4 DEF Rows

\* A transaction that ends without writing.
LEMMA FinishKeeps ==
  ASSUME Locks, Knowledge, Rows, NEW h \in Handlers, NEW answer, Finish(h, answer),
         UNCHANGED <<rowVars, now>>
  PROVE  Locks' /\ Knowledge' /\ Rows'
<1>1. Locks' BY FinishLocks
<1>2. handler'[h] = Idle /\ \A g \in Handlers \ {h} : handler'[g] = handler[g]
  BY DEF Finish, Locks
<1>3. handler'[h].at \notin {"skus", "write"} BY <1>2 DEF Idle
<1>4. Knowledge' BY <1>2, <1>3, KnowledgeKept
<1>5. now \in Nat BY DEF Rows, CheckpointFacts
<1> QED BY <1>1, <1>4, <1>5, RowsKept

LEMMA ReceiveKeeps ==
  ASSUME Locks, Knowledge, Rows, NEW h \in Handlers, NEW c \in Commands, Receive(h, c)
  PROVE  Locks' /\ Knowledge' /\ Rows'
<1>1. Locks' BY ReceiveLocks
<1>2. UNCHANGED <<rowVars, now>> BY DEF Receive, storeVars
<1>3. UNCHANGED <<orders, dispatches, counts, checkpoints, outbox, now>> BY <1>2 DEF rowVars
<1>4. \A g \in Handlers \ {h} : handler'[g] = handler[g] BY DEF Receive, Locks
<1>5. Knowledge'
  <2>1. CASE Keys(c) = {}
    <3>1. handler'[h] = [at |-> "skus", cmd |-> c, todo |-> SkusOf(c, {}), new |-> {}]
      BY <2>1 DEF Receive, Locks
    <3>2. StillNew(h)' BY <2>1, <3>1, NotLookedUp DEF StillNew, Fresh
    <3>3. \A g \in Handlers \ {h} : StillNew(g)'
      BY <1>3, <1>4 DEF Knowledge, StillNew, Fresh, Known
    <3>4. OwnTime(h)' BY <3>1 DEF OwnTime
    <3>5. \A g \in Handlers \ {h} : OwnTime(g)'
      BY <1>3, <1>4, <3>1 DEF Knowledge, OwnTime
    <3> QED BY <3>2, <3>3, <3>4, <3>5 DEF Knowledge
  <2>2. CASE Keys(c) # {}
    <3>1. handler'[h] = [at |-> "keys", cmd |-> c, todo |-> Keys(c), new |-> {}]
      BY <2>2 DEF Receive, Locks
    <3> QED BY <1>2, <1>4, <3>1, KnowledgeKept
  <2> QED BY <2>1, <2>2
<1>6. now \in Nat BY DEF Rows, CheckpointFacts
<1> QED BY <1>1, <1>2, <1>5, <1>6, RowsKept

LEMMA LocksKeyKeeps ==
  ASSUME Locks, Knowledge, Rows, NEW h \in Handlers, LocksKey(h)
  PROVE  Locks' /\ Knowledge' /\ Rows'
<1>1. Locks' BY LocksKeyLocks
<1>2. UNCHANGED <<rowVars, now>> BY DEF LocksKey
<1>3. /\ \A g \in Handlers \ {h} : handler'[g] = handler[g]
      /\ handler'[h].at = "keys"
  BY DEF LocksKey, Locks, HandlerOK, Idle
<1>4. Knowledge' BY <1>2, <1>3, KnowledgeKept
<1>5. now \in Nat BY DEF Rows, CheckpointFacts
<1> QED BY <1>1, <1>2, <1>4, <1>5, RowsKept

LEMMA LocksSkuKeeps ==
  ASSUME Locks, Knowledge, Rows, NEW h \in Handlers, LocksSku(h)
  PROVE  Locks' /\ Knowledge' /\ Rows'
<1>1. Locks' BY LocksSkuLocks
<1>2. UNCHANGED <<rowVars, now>> BY DEF LocksSku
<1>3. handler[h].at = "skus" /\ handler[h] = [at |-> "skus", cmd |-> handler[h].cmd,
                                              todo |-> handler[h].todo, new |-> handler[h].new]
  BY DEF LocksSku, Locks, HandlerOK, Idle
<1>4. /\ \A g \in Handlers \ {h} : handler'[g] = handler[g]
      /\ handler'[h].at = "skus" /\ handler'[h].cmd = handler[h].cmd
      /\ handler'[h].new = handler[h].new
  BY <1>3 DEF LocksSku, Locks
<1>5. Fresh(handler[h].cmd, handler[h].new) BY <1>3 DEF Knowledge, StillNew
<1>6. Knowledge' BY <1>2, <1>4, <1>5, KnowledgeKept
<1>7. now \in Nat BY DEF Rows, CheckpointFacts
<1> QED BY <1>1, <1>2, <1>6, <1>7, RowsKept

LEMMA LookKeeps ==
  ASSUME Locks, Knowledge, Rows, NEW h \in Handlers, Look(h)
  PROVE  Locks' /\ Knowledge' /\ Rows'
<1>1. handler[h].at = "keys" /\ handler[h].todo = {} /\ UNCHANGED <<rowVars, now>>
  BY LookCases
<1>2. CASE \E answer : Finish(h, answer) BY <1>1, <1>2, FinishKeeps
<1>3. CASE \E new \in SUBSET Items : GoOn(h, new) /\ Fresh(Cmd(h), new)
  <2>1. PICK new \in SUBSET Items : GoOn(h, new) /\ Fresh(Cmd(h), new) BY <1>3
  <2>2. Locks' BY <1>1, <2>1, GoOnLocks
  <2>3. /\ \A g \in Handlers \ {h} : handler'[g] = handler[g]
        /\ handler'[h].at = "skus" /\ handler'[h].cmd = handler[h].cmd
        /\ handler'[h].new = new
    BY <2>1 DEF GoOn, Locks, Cmd
  <2>4. Fresh(handler[h].cmd, new) BY <2>1 DEF Cmd
  <2>5. Knowledge'
    BY <1>1, <2>3, <2>4, KnowledgeKept
  <2>6. now \in Nat BY DEF Rows, CheckpointFacts
  <2> QED BY <1>1, <2>2, <2>5, <2>6, RowsKept
<1> QED BY <1>2, <1>3, LookCases

LEMMA ReadKeeps ==
  ASSUME Locks, Knowledge, Rows, NEW h \in Handlers, Read(h)
  PROVE  Locks' /\ Knowledge' /\ Rows'
<1>1. CASE ReadsOn(h)
  <2>1. Locks' BY <1>1, ReadsOnLocks
  <2>2. Knowledge' BY <1>1, ReadsOnKnowledge DEF Rows
  <2>3. UNCHANGED rowVars /\ now' = now + 1 /\ now \in Nat
    BY <1>1 DEF ReadsOn, Rows, CheckpointFacts
  <2> QED BY <2>1, <2>2, <2>3, RowsKept
<1>2. CASE \E answer : Finish(h, answer) /\ UNCHANGED <<rowVars, now>>
  BY <1>2, FinishKeeps
<1> QED BY <1>1, <1>2, ReadCases

LEMMA ServiceKeeps ==
  ASSUME Locks, Knowledge, Rows, ServiceNext
  PROVE  Locks' /\ Knowledge' /\ Rows'
<1>1. PICK h \in Handlers : (\E c \in Commands : Receive(h, c)) \/ Serve(h) \/ Fails(h)
  BY DEF ServiceNext
<1>2. CASE \E c \in Commands : Receive(h, c) BY <1>2, ReceiveKeeps
<1>3. CASE LocksKey(h) BY <1>3, LocksKeyKeeps
<1>4. CASE Look(h) BY <1>4, LookKeeps
<1>5. CASE LocksSku(h) BY <1>5, LocksSkuKeeps
<1>6. CASE Read(h) BY <1>6, ReadKeeps
<1>7. CASE Commits(h) BY <1>7, CommitsKeeps
<1>8. CASE Fails(h) BY <1>8, FinishKeeps DEF Fails
<1> QED BY <1>1, <1>2, <1>3, <1>4, <1>5, <1>6, <1>7, <1>8 DEF Serve

LEMMA StoreUnchanged ==
  ASSUME Locks, Knowledge, Rows, UNCHANGED <<storeVars, handler>>
  PROVE  Locks' /\ Knowledge' /\ Rows'
<1>1. UNCHANGED <<rowVars, now, keyLock, skuLock, handler>> BY DEF storeVars, lockVars
<1>2. UNCHANGED <<orders, dispatches, counts, checkpoints, outbox>> BY <1>1 DEF rowVars
<1>3. Locks' BY <1>1 DEF Locks, HandlerOK, LocksInOrder, Idle
<1>4. Knowledge' BY <1>1, <1>2 DEF Knowledge, StillNew, Fresh, Known, OwnTime
<1>5. now \in Nat BY DEF Rows, CheckpointFacts
<1> QED BY <1>1, <1>3, <1>4, <1>5, RowsKept

LEMMA RelayKeeps ==
  ASSUME RelayInv, NEW b \in Relays, Relay(b) \/ DeliveryFails(b) \/ Lost(b)
  PROVE  RelayInv'
<1>1. CASE Takes(b) BY <1>1 DEF Takes, RelayInv
<1>2. CASE Delivers(b) BY <1>2 DEF Delivers, RelayInv
<1>3. CASE Acknowledges(b) BY <1>3 DEF Acknowledges, RelayInv, Waiting
<1>4. CASE DeliveryFails(b) BY <1>4 DEF DeliveryFails, RelayInv, Waiting
<1>5. CASE Lost(b) BY <1>5 DEF Lost, RelayInv, Waiting
<1> QED BY <1>1, <1>2, <1>3, <1>4, <1>5 DEF Relay
LEMMA InvInit == Init => IInv
<1> SUFFICES ASSUME Init PROVE IInv
  OBVIOUS
<1>1. /\ keyLock = [i \in Ids |-> NoOne] /\ skuLock = [s \in SKUs |-> NoOne]
      /\ handler = [h \in Handlers |-> Idle]
  BY DEF Init, StoreInit, ServiceInit
<1>2. /\ orders = {} /\ dispatches = {} /\ counts = {} /\ checkpoints = {} /\ outbox = {}
      /\ now = 0
  BY DEF Init, StoreInit
<1>3. \A h \in Handlers : HandlerOK(h) /\ LocksInOrder(h)
  BY <1>1, HandlersAssumption DEF HandlerOK, LocksInOrder, Idle
<1>4. Locks BY <1>1, <1>3 DEF Locks
<1>5. Knowledge BY <1>1 DEF Knowledge, StillNew, OwnTime, Idle
<1>6. Rows BY <1>2 DEF Rows, OrderFacts, CountFacts, CheckpointFacts
<1>7. RelayInv BY DEF Init, RelayInit, RelayInv, Waiting
<1> QED BY <1>4, <1>5, <1>6, <1>7 DEF IInv

LEMMA InvNext == IInv /\ [Next]_vars => IInv'
<1> SUFFICES ASSUME IInv, [Next]_vars PROVE IInv'
  OBVIOUS
<1>1. Locks /\ Knowledge /\ Rows /\ RelayInv BY DEF IInv
<1>2. CASE ServiceNext /\ UNCHANGED relayVars
  <2>1. Locks' /\ Knowledge' /\ Rows' BY <1>1, <1>2, ServiceKeeps
  <2>2. RelayInv' BY <1>1, <1>2 DEF relayVars, RelayInv
  <2> QED BY <2>1, <2>2 DEF IInv
<1>3. CASE RelayNext /\ UNCHANGED <<storeVars, serviceVars>>
  <2>1. Locks' /\ Knowledge' /\ Rows' BY <1>1, <1>3, StoreUnchanged DEF serviceVars
  <2>2. RelayInv' BY <1>1, <1>3, RelayKeeps DEF RelayNext
  <2> QED BY <2>1, <2>2 DEF IInv
<1>4. CASE UNCHANGED vars
  <2>1. Locks' /\ Knowledge' /\ Rows' BY <1>1, <1>4, StoreUnchanged DEF vars, serviceVars
  <2>2. RelayInv' BY <1>1, <1>4 DEF vars, relayVars, RelayInv
  <2> QED BY <2>1, <2>2 DEF IInv
<1> QED BY <1>2, <1>3, <1>4 DEF Next

\* The locks are taken in one order, what a look-up found stays true until the
\* handler writes, and the rows agree with each other, whatever the threads and
\* the relays do (inventory_service.py, inventory_outbox.py, outbox_relay.py).
THEOREM InductiveInvariant == Spec => []IInv
BY InvInit, InvNext, PTL DEF Spec

-----------------------------------------------------------------------------
(* What the service and its outbox promise. *)

\* published_at is set only after the transaction of the destination committed.
THEOREM DeliveredBeforeAcknowledged == Spec => []AcknowledgedIsDelivered
<1>1. IInv => AcknowledgedIsDelivered BY DEF IInv, RelayInv, AcknowledgedIsDelivered
<1> QED BY <1>1, InductiveInvariant, PTL

\* An order, a crossing and a count that disagrees leave one row each in the
\* outbox, whatever is retried, rolled back or served at once.
THEOREM FactsAreToldOnce == Spec => []OneEventPerFact
<1>1. IInv => OneEventPerFact
  <2> SUFFICES ASSUME IInv PROVE OneEventPerFact
    OBVIOUS
  <2>1. OrderFacts /\ CountFacts /\ CheckpointFacts BY DEF IInv, Rows
  <2>2. ASSUME NEW o \in orders
        PROVE  Cardinality(EventsOf("outbound_order_created", o.id)) = 1
    <3>1. PICK e \in outbox : e.type = "outbound_order_created" /\ e.source = o.id
      BY <2>1 DEF OrderFacts
    <3>2. EventsOf("outbound_order_created", o.id) = {e}
      BY <2>1, <3>1 DEF OrderFacts, EventsOf
    <3> QED BY <3>2, FS_Singleton
  <2>3. ASSUME NEW k \in counts
        PROVE  Cardinality(EventsOf("inventory_discrepancy_detected", k.id)) =
               IF k.observed = k.expected THEN 0 ELSE 1
    <3>1. CASE k.observed = k.expected
      <4>1. EventsOf("inventory_discrepancy_detected", k.id) = {}
        BY <2>1, <3>1 DEF CountFacts, EventsOf
      <4> QED BY <3>1, <4>1, FS_EmptySet
    <3>2. CASE k.observed # k.expected
      <4>1. PICK e \in outbox : e.type = "inventory_discrepancy_detected" /\ e.source = k.id
        BY <2>1, <3>2 DEF CountFacts
      <4>2. EventsOf("inventory_discrepancy_detected", k.id) = {e}
        BY <2>1, <4>1 DEF CountFacts, EventsOf
      <4> QED BY <3>2, <4>2, FS_Singleton
    <3> QED BY <3>1, <3>2
  <2>4. \A k \in checkpoints :
          k.crossed <=> [type |-> "stock_threshold_triggered",
                         source |-> k.source, at |-> k.at] \in outbox
    BY <2>1 DEF CheckpointFacts, CrossingEvent
  <2> QED BY <2>2, <2>3, <2>4 DEF OneEventPerFact
<1> QED BY <1>1, InductiveInvariant, PTL
-----------------------------------------------------------------------------
(* No deadlock: a handler waits for one that is further along in the order of *)
(* the locks, and of finitely many handlers one is the furthest.              *)

Waits(h) == handler[h].at \in {"keys", "skus"} /\ handler[h].todo # {}

First(h) == Min(handler[h].todo)

\* g waits for a lock that comes after the one h waits for.
Further(g, h) ==
  \/ handler[h].at = "keys" /\ handler[g].at = "skus"
  \/ handler[h].at = handler[g].at /\ First(h) < First(g)

LEMMA FirstIsLeast ==
  ASSUME Locks, NEW h \in Handlers, Waits(h)
  PROVE  /\ First(h) \in Nat
         /\ First(h) \in handler[h].todo
         /\ handler[h].at = "keys" => First(h) \in Ids
         /\ handler[h].at = "skus" => First(h) \in SKUs
<1>1. CASE handler[h].at = "keys"
  <2>1. handler[h].cmd \in Commands /\ handler[h].todo \subseteq Keys(handler[h].cmd)
    BY <1>1 DEF Locks, HandlerOK, Idle
  <2>2. handler[h].todo \subseteq Ids /\ handler[h].todo \subseteq Nat
    BY <2>1, KeysAreIds, CommandAssumption
  <2> QED BY <1>1, <2>2, MinIsLeast DEF Waits, First
<1>2. CASE handler[h].at = "skus"
  <2>1. /\ handler[h].cmd \in Commands /\ handler[h].new \in SUBSET Items
        /\ handler[h].todo \subseteq SkusOf(handler[h].cmd, handler[h].new)
    BY <1>2 DEF Locks, HandlerOK, Idle
  <2>2. handler[h].todo \subseteq SKUs /\ handler[h].todo \subseteq Nat
    BY <2>1, SkusAreSKUs, CommandAssumption
  <2> QED BY <1>2, <2>2, MinIsLeast DEF Waits, First
<1> QED BY <1>1, <1>2 DEF Waits

LEMMA BlockerIsFurther ==
  ASSUME Locks, NEW h \in Handlers, NEW g \in Handlers, Waits(h), Waits(g), Blocker(h) = g
  PROVE  Further(g, h)
<1>1. /\ First(h) \in handler[h].todo /\ First(g) \in handler[g].todo
      /\ handler[h].at = "keys" => First(h) \in Ids
      /\ handler[h].at = "skus" => First(h) \in SKUs
  BY FirstIsLeast
<1>2. CASE handler[h].at = "keys"
  <2>1. keyLock[First(h)] = g BY <1>2 DEF Blocker, Waits, First
  <2> QED BY <1>1, <1>2, <2>1 DEF Locks, LocksInOrder, Waits, Further
<1>3. CASE handler[h].at = "skus"
  <2>1. skuLock[First(h)] = g BY <1>3 DEF Blocker, Waits, First
  <2> QED BY <1>1, <1>3, <2>1 DEF Locks, LocksInOrder, Waits, Further
<1> QED BY <1>2, <1>3 DEF Waits

\* No handlers wait for each other's locks: the identifiers are sorted, the SKUs
\* are selected in the order of their id, and the SKUs come last
\* (_lock_idempotency_keys and _lock_skus of inventory_service.py).
THEOREM LocksNeverCross == Spec => []NoDeadlock
<1>1. IInv => NoDeadlock
  <2> SUFFICES ASSUME IInv, NEW H \in (SUBSET Handlers) \ {{}},
                      \A h \in H : Blocker(h) \in H
               PROVE  FALSE
    BY DEF NoDeadlock
  <2> DEFINE Ahead(h) == {g \in H : Further(g, h)}
             T == {Ahead(h) : h \in H}
  <2>1. Locks BY DEF IInv
  <2>2. \A h \in H : h \in Handlers /\ h # NoOne BY HandlersAssumption
  <2>3. \A h \in H : Waits(h) BY <2>2 DEF Blocker, Waits
  <2>4. \A h \in H : Further(Blocker(h), h) BY <2>1, <2>2, <2>3, BlockerIsFurther
  <2>5. \A h \in H : First(h) \in Nat BY <2>1, <2>2, <2>3, FirstIsLeast
  <2>6. \A g, h, k \in H : Further(g, h) /\ Further(k, g) => Further(k, h)
    BY <2>3, <2>5 DEF Further
  <2>7. \A h \in H : ~ Further(h, h) BY <2>5 DEF Further
  <2>8. T \subseteq FiniteSubsetsOf(Handlers)
    <3> SUFFICES ASSUME NEW h \in H PROVE Ahead(h) \in FiniteSubsetsOf(Handlers)
      OBVIOUS
    <3>1. Ahead(h) \in SUBSET Handlers OBVIOUS
    <3> QED BY <3>1, FS_Subset, HandlersAssumption DEF FiniteSubsetsOf
  <2>9. T # {} OBVIOUS
  <2>10. PICK x \in T : \A y \in T : ~ (<<y, x>> \in StrictSubsetOrdering(Handlers))
    <3> HIDE DEF T
    <3> QED BY <2>8, <2>9, WFMin, FS_StrictSubsetOrderingWellFounded
  <2>11. PICK m \in H : x = Ahead(m) BY <2>10
  <2> DEFINE g == Blocker(m)
  <2>12. g \in H /\ Further(g, m) BY <2>4
  <2>13. Ahead(g) \subseteq Ahead(m) BY <2>6, <2>12
  <2>14. g \in Ahead(m) /\ g \notin Ahead(g) BY <2>7, <2>12
  <2>15. <<Ahead(g), Ahead(m)>> \in StrictSubsetOrdering(Handlers)
    BY <2>13, <2>14 DEF StrictSubsetOrdering
  <2> QED BY <2>10, <2>11, <2>12, <2>15
<1> QED BY <1>1, InductiveInvariant, PTL
-----------------------------------------------------------------------------
(* A command whose effect is recorded is answered as done.                    *)

\* A step answers nobody, or one command, and not against what is recorded.
Agrees ==
  \/ UNCHANGED answers
  \/ \E h \in Handlers : \E answer :
       /\ Cmd(h) \in Commands
       /\ answers' = [answers EXCEPT ![Cmd(h)] = @ \cup {answer}]
       /\ Recorded(Cmd(h)) => answer \in {"done", "error"}

LEMMA FreshIsNotRecorded ==
  ASSUME NEW c \in Commands, NEW new, Fresh(c, new)
  PROVE  ~ Recorded(c)
<1>1. c.op \in Ops BY CommandAssumption
<1>2. CASE c.op = "create"
  <2>1. [id |-> c.order, client |-> c.client] \notin orders BY <1>2 DEF Fresh
  <2> QED BY <1>2, <2>1 DEF Recorded
<1>3. CASE c.op = "append"
  <2>1. PICK i \in c.items : i \in new BY <1>3 DEF Fresh
  <2>2. \A d \in dispatches : d.id # i.id BY <1>3, <2>1 DEF Fresh, Known
  <2>3. Dispatch(i, c.order).id = i.id BY DEF Dispatch
  <2>4. Dispatch(i, c.order) \notin dispatches BY <2>2, <2>3
  <2> QED BY <1>3, <2>1, <2>4 DEF Recorded
<1>4. CASE c.op = "count" BY <1>4 DEF Fresh, Recorded
<1>5. CASE c.op \in {"entry", "exit", "threshold"} BY <1>5 DEF Recorded
<1> QED BY <1>1, <1>2, <1>3, <1>4, <1>5 DEF Ops

LEMMA LookAgrees ==
  ASSUME IInv, NEW h \in Handlers, Look(h)
  PROVE  Agrees
<1> DEFINE c == Cmd(h)
<1>1. OrderFacts /\ CountFacts BY DEF IInv, Rows
<1>2. handler[h].at = "keys" BY DEF Look
<1>3. c \in Commands /\ c.op \in {"create", "append", "count"}
  BY <1>2, LookedUp DEF IInv, Locks, HandlerOK, Idle, Cmd
<1>4. \/ UNCHANGED answers
      \/ \E answer : Finish(h, answer) /\ (Recorded(c) => answer \in {"done", "error"})
  <2>1. CASE c.op = "create"
    <3>1. LookForOrder(h) BY <2>1 DEF Look
    <3>2. Recorded(c) =>
            /\ {o \in orders : o.id = c.order} # {}
            /\ \A o \in {o \in orders : o.id = c.order} : o.client = c.client
            /\ OrderRows(c.order) = {Dispatch(i, c.order) : i \in c.items}
      <4> SUFFICES ASSUME Recorded(c)
                   PROVE  /\ {o \in orders : o.id = c.order} # {}
                          /\ \A o \in {o \in orders : o.id = c.order} : o.client = c.client
                          /\ OrderRows(c.order) = {Dispatch(i, c.order) : i \in c.items}
        OBVIOUS
      <4>1. /\ [id |-> c.order, client |-> c.client] \in orders
            /\ OrderRows(c.order) = {Dispatch(i, c.order) : i \in c.items}
        BY <2>1 DEF Recorded
      <4> QED BY <1>1, <4>1 DEF OrderFacts
    <3> QED BY <3>1, <3>2 DEF LookForOrder, GoOn
  <2>2. CASE c.op = "append"
    <3>1. LookForDispatches(h) BY <2>2 DEF Look
    <3>2. c.items # {} BY <1>3, <2>2, CommandAssumption
    <3>3. Recorded(c) => /\ \A i \in c.items : Dispatch(i, c.order) \in dispatches
                         /\ \E o \in orders : o.id = c.order
      <4> SUFFICES ASSUME Recorded(c)
                   PROVE  /\ \A i \in c.items : Dispatch(i, c.order) \in dispatches
                          /\ \E o \in orders : o.id = c.order
        OBVIOUS
      <4>1. \A i \in c.items : Dispatch(i, c.order) \in dispatches BY <2>2 DEF Recorded
      <4>2. PICK i \in c.items : TRUE BY <3>2
      <4>3. Dispatch(i, c.order) \in dispatches /\ Dispatch(i, c.order).order = c.order
        BY <4>1 DEF Dispatch
      <4> QED BY <1>1, <4>1, <4>3 DEF OrderFacts
    <3>4. Known(c.items) \subseteq c.items BY DEF Known
    <3> QED BY <3>1, <3>3, <3>4 DEF LookForDispatches, GoOn
  <2>3. CASE c.op = "count"
    <3>1. LookForCount(h) BY <2>3 DEF Look
    <3>2. Recorded(c) => \A k \in {k \in counts : k.id = c.id} :
                           k.sku = c.sku /\ k.observed = c.observed
      BY <1>1, <2>3 DEF Recorded, CountFacts
    <3> QED BY <3>1, <3>2 DEF LookForCount, GoOn
  <2> QED BY <1>3, <2>1, <2>2, <2>3
<1> QED BY <1>3, <1>4 DEF Agrees, Finish

LEMMA ServiceAgrees ==
  ASSUME IInv, ServiceNext
  PROVE  Agrees
<1>1. PICK h \in Handlers : (\E c \in Commands : Receive(h, c)) \/ Serve(h) \/ Fails(h)
  BY DEF ServiceNext
<1>2. HandlerOK(h) /\ StillNew(h) BY DEF IInv, Locks, Knowledge
<1>3. CASE \E c \in Commands : Receive(h, c) BY <1>3 DEF Receive, Agrees
<1>4. CASE LocksKey(h) BY <1>4 DEF LocksKey, Agrees
<1>5. CASE Look(h) BY <1>5, LookAgrees
<1>6. CASE LocksSku(h) BY <1>6 DEF LocksSku, Agrees
<1>7. CASE Read(h)
  <2>1. handler[h].at = "skus" BY <1>7 DEF Read
  <2>2. Cmd(h) \in Commands BY <1>2, <2>1 DEF HandlerOK, Idle, Cmd
  <2>3. Fresh(Cmd(h), handler[h].new) BY <1>2, <2>1 DEF StillNew, Cmd
  <2>4. ~ Recorded(Cmd(h)) BY <2>2, <2>3, FreshIsNotRecorded
  <2>5. UNCHANGED answers \/ \E answer : Finish(h, answer) BY <1>7, ReadCases DEF ReadsOn
  <2> QED BY <2>2, <2>4, <2>5 DEF Agrees, Finish
<1>8. CASE Commits(h)
  <2>1. Cmd(h) \in Commands BY <1>2, <1>8 DEF Commits, HandlerOK, Idle, Cmd
  <2> QED BY <1>8, <2>1 DEF Commits, Finish, Agrees
<1>9. CASE Fails(h)
  <2>1. Cmd(h) \in Commands BY <1>2, <1>9 DEF Fails, HandlerOK, Cmd
  <2> QED BY <1>9, <2>1 DEF Fails, Finish, Agrees
<1> QED BY <1>1, <1>3, <1>4, <1>5, <1>6, <1>7, <1>8, <1>9 DEF Serve

AnswersInv == DOMAIN answers = Commands

LEMMA StepAgrees == IInv /\ [Next]_vars => Agrees
<1> SUFFICES ASSUME IInv, [Next]_vars PROVE Agrees
  OBVIOUS
<1>1. CASE ServiceNext BY <1>1, ServiceAgrees
<1>2. CASE UNCHANGED serviceVars BY <1>2 DEF serviceVars, Agrees
<1> QED BY <1>1, <1>2 DEF Next, vars

\* A command whose effect is recorded is not refused, found in conflict or missing
\* when it is sent again or served twice at once (the look-ups of
\* inventory_service.py under the locks of the identifiers).
THEOREM RetriesAgree == Spec => RetryAgrees
<1>1. Init => AnswersInv BY DEF Init, ServiceInit, AnswersInv
<1>2. AnswersInv /\ Agrees => AnswersInv' BY DEF AnswersInv, Agrees
<1>3. AnswersInv /\ Agrees =>
        \A c \in Commands : Recorded(c) => answers'[c] \ answers[c] \subseteq {"done", "error"}
  BY DEF AnswersInv, Agrees
<1>4. IInv /\ AnswersInv /\ [Next]_vars =>
        [\A c \in Commands :
           Recorded(c) => answers'[c] \ answers[c] \subseteq {"done", "error"}]_vars
  BY <1>3, StepAgrees
<1>5. IInv /\ AnswersInv /\ [Next]_vars => AnswersInv' BY <1>2, StepAgrees
<1> QED BY <1>1, <1>4, <1>5, InductiveInvariant, PTL DEF Spec, RetryAgrees

-----------------------------------------------------------------------------
(* The sum of the movements of a SKU. *)

Changes(S) == MapThenSumSet(LAMBDA m : m.change, S)

\* What MapThenFoldSet chooses for the changes of moves.
ChangeSums(S, it) ==
  it = [s \in SUBSET S |-> IF s = {} THEN 0 ELSE Chosen(s).change + it[s \ {Chosen(s)}]]

LEMMA ChangesAreASum ==
  ASSUME NEW S, IsFiniteSet(S)
  PROVE  Changes(S) = SumOf([m \in S |-> m.change], S)
<1> DEFINE f == [m \in S |-> m.change]
           it == CHOOSE it : ChangeSums(S, it)
<1>1. Changes(S) = it[S]
  BY DEF Changes, MapThenSumSet, MapThenFoldSet, ChangeSums, Chosen
<1>2. ASSUME NEW a PROVE ChangeSums(S, a) <=> Sums(f, S, a)
  <2>1. \A s \in SUBSET S : s # {} => Chosen(s).change = f[Chosen(s)] BY ChosenIsIn
  <2>2. [s \in SUBSET S |-> IF s = {} THEN 0 ELSE Chosen(s).change + a[s \ {Chosen(s)}]] =
        [s \in SUBSET S |-> IF s = {} THEN 0 ELSE f[Chosen(s)] + a[s \ {Chosen(s)}]]
    BY <2>1
  <2> QED BY <2>2 DEF ChangeSums, Sums
<1> HIDE DEF f
<1>3. PICK a : Sums(f, S, a) BY SumsExist
<1>4. Sums(f, S, it) BY <1>2, <1>3
<1> QED BY <1>1, <1>4, SumsGiveTheSum DEF f

Of(moves, s) == {m \in moves : m.sku = s}

LEMMA SumIsChanges ==
  ASSUME NEW moves, NEW s
  PROVE  Sum(moves, s) = Changes(Of(moves, s))
BY DEF Sum, Changes, Of

LEMMA SumSame ==
  ASSUME NEW A, NEW B, NEW s, Of(A, s) = Of(B, s)
  PROVE  Sum(A, s) = Sum(B, s)
BY SumIsChanges, Zenon

\* A command that does not move a SKU adds nothing to it.
LEMMA SumNone ==
  ASSUME NEW moves, NEW s, \A m \in moves : m.sku # s
  PROVE  Sum(moves, s) = 0
<1>1. Of(moves, s) = {} BY DEF Of
<1>2. Changes({}) = SumOf([m \in {} |-> m.change], {}) BY FS_EmptySet, ChangesAreASum
<1>3. Changes({}) = 0 BY <1>2, SumOfEmpty
<1> QED BY <1>1, <1>3, SumIsChanges, Zenon

LEMMA SumInt ==
  ASSUME NEW moves, IsFiniteSet(moves), \A m \in moves : m.change \in Int, NEW s
  PROVE  Sum(moves, s) \in Int
<1> DEFINE S == Of(moves, s)
           f == [m \in S |-> m.change]
<1>1. IsFiniteSet(S) /\ \A m \in S : f[m] \in Int BY FS_Subset DEF Of
<1>2. Changes(S) = SumOf(f, S) BY <1>1, ChangesAreASum
<1> HIDE DEF f, S
<1>3. SumOf(f, S) \in Int BY <1>1, SumOfType
<1>4. Sum(moves, s) = Changes(S) BY SumIsChanges DEF S
<1> QED BY <1>2, <1>3, <1>4

LEMMA SumWithout ==
  ASSUME NEW moves, IsFiniteSet(moves), \A m \in moves : m.change \in Int,
         NEW m \in moves
  PROVE  Sum(moves, m.sku) = m.change + Sum(moves \ {m}, m.sku)
<1> DEFINE S == Of(moves, m.sku)
           R == S \ {m}
           f == [n \in S |-> n.change]
<1>1. IsFiniteSet(S) /\ (\A n \in S : f[n] \in Int) /\ m \in S BY FS_Subset DEF Of
<1>2. IsFiniteSet(R) /\ R \in SUBSET S BY <1>1, FS_Subset
<1>3. Changes(S) = SumOf(f, S) BY <1>1, ChangesAreASum
<1>4. Changes(R) = SumOf(f, R)
  <2> DEFINE g == [n \in R |-> n.change]
  <2>1. Changes(R) = SumOf(g, R) BY <1>2, ChangesAreASum
  <2>2. \A n \in R : g[n] = f[n] BY <1>2
  <2> HIDE DEF f, g
  <2> QED BY <1>2, <2>1, <2>2, SumOfSame
<1>5. f[m] = m.change BY <1>1
<1>6. Of(moves \ {m}, m.sku) = R BY DEF Of
<1>7. Sum(moves \ {m}, m.sku) = Changes(R)
  <2> HIDE DEF R
  <2> QED BY <1>6, SumIsChanges, Zenon
<1>8. Sum(moves, m.sku) = Changes(S) BY SumIsChanges
<1> HIDE DEF f, S
<1>9. SumOf(f, S) = f[m] + SumOf(f, S \ {m}) BY <1>1, SumOfWithout
<1> QED BY <1>3, <1>4, <1>5, <1>7, <1>8, <1>9

\* The more a command takes out, the less is left.
LEMMA SumSmaller ==
  ASSUME NEW B, IsFiniteSet(B), \A m \in B : m.change \in Int /\ m.change <= 0,
         NEW A \in SUBSET B, NEW s
  PROVE  Sum(B, s) <= Sum(A, s)
<1> DEFINE T == {X \in SUBSET B : A \subseteq X /\ ~ (Sum(X, s) <= Sum(A, s))}
<1>1. CASE T = {} BY <1>1
<1>2. CASE T # {}
  <2>0. T \subseteq SUBSET B OBVIOUS
  <2>1. PICK X \in T : \A Y \in T : Y \subseteq X => Y = X
    <3> HIDE DEF T
    <3> QED BY <1>2, <2>0, MinimalSubset
  <2>2. X \subseteq B /\ A \subseteq X /\ ~ (Sum(X, s) <= Sum(A, s)) BY <2>1
  <2>3. IsFiniteSet(X) /\ IsFiniteSet(A) BY <2>2, FS_Subset
  <2>4. Sum(A, s) \in Int BY <2>3, SumInt
  <2>5. X # A BY <2>2, <2>4
  <2>6. PICK x \in X : x \notin A BY <2>2, <2>5
  <2> DEFINE Y == X \ {x}
  <2>7. Y \in SUBSET B /\ A \subseteq Y /\ Y \subseteq X /\ Y # X BY <2>2, <2>6
  <2>8. Y \notin T
    <3> HIDE DEF T, Y
    <3> QED BY <2>1, <2>7
  <2>9. Sum(Y, s) <= Sum(A, s) BY <2>7, <2>8
  <2>10. IsFiniteSet(Y) BY <2>3, <2>7, FS_Subset
  <2>11. Sum(Y, s) \in Int BY <2>7, <2>10, SumInt
  <2>12. CASE x.sku = s
    <3>1. Sum(X, x.sku) = x.change + Sum(Y, x.sku) BY <2>2, <2>3, <2>6, SumWithout
    <3>2. Sum(X, s) = x.change + Sum(Y, s)
      <4> HIDE DEF Y
      <4> QED BY <2>12, <3>1
    <3> HIDE DEF Y
    <3>3. x.change \in Int /\ x.change <= 0 BY <2>2, <2>6
    <3> QED BY <2>2, <2>4, <2>9, <2>11, <3>2, <3>3
  <2>13. CASE x.sku # s
    <3>1. Of(X, s) = Of(Y, s) BY <2>13 DEF Of
    <3>2. Sum(X, s) = Sum(Y, s)
      <4> HIDE DEF Y
      <4> QED BY <3>1, SumSame
    <3> HIDE DEF Y
    <3> QED BY <2>2, <2>9, <3>2
  <2> QED BY <2>12, <2>13
<1> QED BY <1>1, <1>2
-----------------------------------------------------------------------------
(* The stock while the movements of a command follow each other. *)

\* The movements of a command: finitely many, each with a number of its own.
Movements(moves) ==
  /\ IsFiniteSet(moves)
  /\ \A m \in moves : m.source \in Nat /\ m.change \in Int
  /\ \A m, n \in moves : m.source = n.source => m = n

UpTo(m, moves) == {n \in moves : n.source <= m.source}
Earlier(m, moves) == {n \in moves : n.source < m.source}
After(m, moves, seen) == Before(m, moves, seen) + m.change

LEMMA BeforeIsEarlier ==
  ASSUME NEW moves, NEW m, NEW seen
  PROVE  Before(m, moves, seen) = seen.stock[m.sku] + Sum(Earlier(m, moves), m.sku)
BY DEF Before, Earlier

LEMMA BeforeInt ==
  ASSUME NEW moves, Movements(moves), NEW m \in moves, NEW seen, seen.stock[m.sku] \in Int
  PROVE  Before(m, moves, seen) \in Int /\ After(m, moves, seen) \in Int
<1>1. IsFiniteSet(Earlier(m, moves)) /\ \A n \in Earlier(m, moves) : n.change \in Int
  BY FS_Subset DEF Earlier, Movements
<1>2. Sum(Earlier(m, moves), m.sku) \in Int BY <1>1, SumInt
<1>3. m.change \in Int BY DEF Movements
<1> QED BY <1>2, <1>3, BeforeIsEarlier DEF After

LEMMA AfterIsUpTo ==
  ASSUME NEW moves, Movements(moves), NEW m \in moves, NEW seen, seen.stock[m.sku] \in Int
  PROVE  After(m, moves, seen) = seen.stock[m.sku] + Sum(UpTo(m, moves), m.sku)
<1> DEFINE U == UpTo(m, moves)
           E == Earlier(m, moves)
<1>1. IsFiniteSet(U) /\ (\A n \in U : n.change \in Int) /\ m \in U
  BY FS_Subset DEF UpTo, Movements
<1>2. U \ {m} = E BY DEF UpTo, Earlier, Movements
<1>3. IsFiniteSet(E) /\ \A n \in E : n.change \in Int BY FS_Subset DEF Earlier, Movements
<1>4. Sum(E, m.sku) \in Int BY <1>3, SumInt
<1>5. Sum(U, m.sku) = m.change + Sum(E, m.sku)
  <2> HIDE DEF U, E
  <2>1. Sum(U, m.sku) = m.change + Sum(U \ {m}, m.sku) BY <1>1, SumWithout
  <2> QED BY <1>2, <2>1
<1>6. Before(m, moves, seen) = seen.stock[m.sku] + Sum(E, m.sku) BY BeforeIsEarlier
<1>7. m.change \in Int BY DEF Movements
<1> HIDE DEF U, E
<1> QED BY <1>4, <1>5, <1>6, <1>7 DEF After, U

\* Of finitely many movements one is the last.
LEMMA LastOf ==
  ASSUME NEW S, IsFiniteSet(S), S # {}, \A m \in S : m.source \in Nat
  PROVE  \E m \in S : \A n \in S : n.source <= m.source
<1> DEFINE Later(m) == {n \in S : m.source < n.source}
           T == {X \in SUBSET S : \E m \in S : X = Later(m)}
<1>1. T \subseteq SUBSET S OBVIOUS
<1>2. T # {}
  <2>1. PICK m \in S : TRUE OBVIOUS
  <2>2. Later(m) \in SUBSET S OBVIOUS
  <2> QED BY <2>1, <2>2
<1>3. PICK X \in T : \A Y \in T : Y \subseteq X => Y = X
  <2> HIDE DEF T
  <2> QED BY <1>1, <1>2, MinimalSubset
<1>4. PICK m \in S : X = Later(m) BY <1>3
<1>5. ASSUME NEW n \in S, m.source < n.source PROVE FALSE
  <2>1. Later(n) \in T OBVIOUS
  <2>2. Later(n) \subseteq Later(m) BY <1>5
  <2>3. n \in Later(m) /\ n \notin Later(n) BY <1>5
  <2> QED BY <1>3, <1>4, <2>1, <2>2, <2>3
<1> QED BY <1>5

\* And one is the first.
LEMMA FirstOf ==
  ASSUME NEW S, S # {}, \A m \in S : m.source \in Nat
  PROVE  \E m \in S : \A n \in S : m.source <= n.source
<1> DEFINE N == {m.source : m \in S}
<1>1. N \subseteq Nat /\ N # {} OBVIOUS
<1>2. Min(N) \in N /\ \A k \in N : Min(N) <= k
  <2> HIDE DEF N
  <2> QED BY <1>1, MinIsLeast
<1> QED BY <1>2

LEMMA FirstStartsFromStock ==
  ASSUME NEW moves, Movements(moves), NEW m \in moves, NEW seen, seen.stock[m.sku] \in Int,
         \A n \in Of(moves, m.sku) : m.source <= n.source
  PROVE  Before(m, moves, seen) = seen.stock[m.sku]
<1>1. \A n \in Earlier(m, moves) : n.sku # m.sku BY DEF Earlier, Of, Movements
<1>2. Sum(Earlier(m, moves), m.sku) = 0 BY <1>1, SumNone
<1> QED BY <1>2, BeforeIsEarlier

LEMMA LastEndsAtStock ==
  ASSUME NEW moves, Movements(moves), NEW m \in moves, NEW seen, seen.stock[m.sku] \in Int,
         \A n \in Of(moves, m.sku) : n.source <= m.source
  PROVE  After(m, moves, seen) = seen.stock[m.sku] + Sum(moves, m.sku)
<1>1. Of(UpTo(m, moves), m.sku) = Of(moves, m.sku) BY DEF UpTo, Of
<1>2. Sum(UpTo(m, moves), m.sku) = Sum(moves, m.sku) BY <1>1, SumSame
<1> QED BY <1>2, AfterIsUpTo

\* A movement starts where the one before it, of the same SKU, ended.
LEMMA NextFollows ==
  ASSUME NEW moves, Movements(moves), NEW m \in moves, NEW p \in moves, p.sku = m.sku,
         p.source < m.source,
         \A n \in Of(moves, m.sku) : n.source < m.source => n.source <= p.source,
         NEW seen, seen.stock[m.sku] \in Int
  PROVE  Before(m, moves, seen) = After(p, moves, seen)
<1>1. Of(Earlier(m, moves), m.sku) = Of(UpTo(p, moves), m.sku)
  BY DEF Earlier, UpTo, Of, Movements
<1>2. Sum(Earlier(m, moves), m.sku) = Sum(UpTo(p, moves), m.sku) BY <1>1, SumSame
<1> QED BY <1>2, AfterIsUpTo, BeforeIsEarlier

Outgoing(moves) == \A m \in moves : m.change <= 0

\* What is taken out is not put back: the stock before a movement is at most what
\* the earlier ones left, and at least what the command leaves.
LEMMA StockDescends ==
  ASSUME NEW moves, Movements(moves), Outgoing(moves), NEW m \in moves, NEW seen,
         seen.stock[m.sku] \in Int
  PROVE  /\ Before(m, moves, seen) <= seen.stock[m.sku]
         /\ seen.stock[m.sku] + Sum(moves, m.sku) <= After(m, moves, seen)
         /\ \A p \in Of(moves, m.sku) :
              p.source < m.source => Before(m, moves, seen) <= After(p, moves, seen)
<1> DEFINE E == Earlier(m, moves)
           U == UpTo(m, moves)
<1>1. /\ IsFiniteSet(moves) /\ \A n \in moves : n.change \in Int /\ n.change <= 0
      /\ E \in SUBSET moves /\ U \in SUBSET moves
  BY DEF Movements, Outgoing, Earlier, UpTo
<1>2. IsFiniteSet(E) /\ IsFiniteSet(U) BY <1>1, FS_Subset
<1>3. /\ Sum(E, m.sku) \in Int /\ Sum(U, m.sku) \in Int /\ Sum(moves, m.sku) \in Int
  <2> HIDE DEF E, U
  <2> QED BY <1>1, <1>2, SumInt
<1>4. Sum({}, m.sku) = 0 BY SumNone
<1>5. Sum(E, m.sku) <= 0
  <2>1. {} \in SUBSET E OBVIOUS
  <2> HIDE DEF E, U
  <2>2. Sum(E, m.sku) <= Sum({}, m.sku) BY <1>1, <1>2, <2>1, SumSmaller
  <2> QED BY <1>4, <2>2
<1>6. Sum(moves, m.sku) <= Sum(U, m.sku)
  <2> HIDE DEF E, U
  <2> QED BY <1>1, SumSmaller
<1>7. ASSUME NEW p \in Of(moves, m.sku), p.source < m.source
      PROVE  Before(m, moves, seen) <= After(p, moves, seen)
  <2> DEFINE P == UpTo(p, moves)
  <2>1. p \in moves /\ p.sku = m.sku BY DEF Of
  <2>2. P \in SUBSET E BY <1>7, <2>1 DEF UpTo, Earlier, Movements
  <2>3. IsFiniteSet(P) BY <1>2, <2>2, FS_Subset
  <2>4. Sum(E, m.sku) <= Sum(P, m.sku) /\ Sum(P, m.sku) \in Int
    <3> HIDE DEF E, P
    <3> QED BY <1>1, <1>2, <2>2, <2>3, SumSmaller, SumInt
  <2>5. After(p, moves, seen) = seen.stock[m.sku] + Sum(P, m.sku) BY <2>1, AfterIsUpTo
  <2>6. Before(m, moves, seen) = seen.stock[m.sku] + Sum(E, m.sku) BY BeforeIsEarlier
  <2> HIDE DEF E, P
  <2> QED BY <1>3, <2>4, <2>5, <2>6
<1>8. Before(m, moves, seen) = seen.stock[m.sku] + Sum(E, m.sku) BY BeforeIsEarlier
<1>9. After(m, moves, seen) = seen.stock[m.sku] + Sum(U, m.sku) BY AfterIsUpTo
<1> HIDE DEF E, U
<1> QED BY <1>3, <1>5, <1>6, <1>7, <1>8, <1>9

\* The stock comes down to the threshold with this command.
ComesDown(s, moves, seen) ==
  /\ seen.threshold[s] # NoThreshold
  /\ seen.stock[s] > seen.threshold[s]
  /\ seen.stock[s] + Sum(moves, s) <= seen.threshold[s]

Crossings(s, moves, seen) == {m \in Of(moves, s) : Crosses(m, moves, seen)}

LEMMA CrossesThere ==
  ASSUME NEW moves, NEW m, NEW seen
  PROVE  Crosses(m, moves, seen) <=>
           /\ m.change < 0 /\ seen.threshold[m.sku] # NoThreshold
           /\ Before(m, moves, seen) > seen.threshold[m.sku]
           /\ After(m, moves, seen) <= seen.threshold[m.sku]
BY DEF Crosses, After

\* Exactly one of the movements that take a SKU down to its threshold crosses it.
LEMMA OneCrosses ==
  ASSUME NEW moves, Movements(moves), \A m \in moves : m.change < 0, NEW s, NEW seen,
         seen.stock[s] \in Nat, seen.threshold[s] \in Nat \cup {NoThreshold}
  PROVE  /\ ComesDown(s, moves, seen) => \E m : Crossings(s, moves, seen) = {m}
         /\ ~ ComesDown(s, moves, seen) => Crossings(s, moves, seen) = {}
<1> DEFINE S == Of(moves, s)
           limit == seen.threshold[s]
<1>1. /\ S \subseteq moves /\ \A m \in S : m.sku = s /\ m.change \in Int /\ m.change < 0
      /\ IsFiniteSet(S) /\ \A m \in S : m.source \in Nat
      /\ Outgoing(moves) /\ IsFiniteSet(moves) /\ \A m \in moves : m.change \in Int
  BY FS_Subset DEF Of, Movements, Outgoing
<1>2. Sum(moves, s) \in Int BY <1>1, SumInt
<1>3. \A m \in S : Before(m, moves, seen) \in Int /\ After(m, moves, seen) \in Int
  BY <1>1, BeforeInt
<1>4. \A m \in S : /\ Before(m, moves, seen) <= seen.stock[s]
                   /\ seen.stock[s] + Sum(moves, s) <= After(m, moves, seen)
                   /\ \A p \in S : p.source < m.source =>
                        Before(m, moves, seen) <= After(p, moves, seen)
  BY <1>1, StockDescends
<1>5. \A m \in S : Crosses(m, moves, seen) <=>
        /\ limit # NoThreshold
        /\ Before(m, moves, seen) > limit /\ After(m, moves, seen) <= limit
  BY <1>1, CrossesThere
<1>6. ASSUME NEW m \in S, Crosses(m, moves, seen) PROVE ComesDown(s, moves, seen)
  <2>1. limit # NoThreshold /\ limit \in Nat BY <1>5, <1>6
  <2>2. Before(m, moves, seen) > limit /\ After(m, moves, seen) <= limit BY <1>5, <1>6
  <2> QED BY <1>2, <1>3, <1>4, <2>1, <2>2 DEF ComesDown
<1>7. ASSUME NEW m \in S, NEW p \in S, Crosses(m, moves, seen), Crosses(p, moves, seen),
             p.source < m.source
      PROVE  FALSE
  <2>1. limit \in Nat BY <1>5, <1>7
  <2>2. Before(m, moves, seen) > limit /\ After(p, moves, seen) <= limit BY <1>5, <1>7
  <2>3. Before(m, moves, seen) <= After(p, moves, seen) BY <1>4, <1>7
  <2> HIDE DEF S, limit
  <2> QED BY <1>3, <2>1, <2>2, <2>3
<1>8. ASSUME NEW m \in S, NEW p \in S, Crosses(m, moves, seen), Crosses(p, moves, seen)
      PROVE  p = m
  <2>1. m.source = p.source BY <1>1, <1>7, <1>8
  <2> QED BY <1>1, <2>1 DEF Movements
<1>9. ASSUME ComesDown(s, moves, seen) PROVE \E m \in S : Crosses(m, moves, seen)
  <2>0. /\ limit # NoThreshold /\ limit \in Nat /\ seen.stock[s] > limit
        /\ seen.stock[s] + Sum(moves, s) <= limit
    BY <1>9 DEF ComesDown
  <2> DEFINE D == {m \in S : After(m, moves, seen) <= limit}
  <2>1. S # {}
    <3>1. CASE S = {}
      <4>1. \A m \in moves : m.sku # s BY <3>1 DEF Of
      <4>2. Sum(moves, s) = 0 BY <4>1, SumNone
      <4> QED BY <2>0, <4>2
    <3> QED BY <3>1
  <2>2. PICK l \in S : \A n \in S : n.source <= l.source
    <3> HIDE DEF S
    <3> QED BY <1>1, <2>1, LastOf
  <2>3. After(l, moves, seen) = seen.stock[s] + Sum(moves, s)
    <3>1. l \in moves /\ l.sku = s /\ \A n \in Of(moves, l.sku) : n.source <= l.source
      BY <1>1, <2>2
    <3> QED BY <3>1, LastEndsAtStock
  <2>4. D # {} BY <2>0, <2>2, <2>3
  <2>5. PICK m \in D : \A n \in D : m.source <= n.source
    <3>1. \A n \in D : n.source \in Nat BY <1>1
    <3> HIDE DEF D
    <3> QED BY <2>4, <3>1, FirstOf
  <2>6. m \in S /\ After(m, moves, seen) <= limit BY <2>5
  <2> DEFINE P == {n \in S : n.source < m.source}
  <2>7. CASE P = {}
    <3>1. \A n \in Of(moves, m.sku) : m.source <= n.source BY <1>1, <2>6, <2>7
    <3>2. Before(m, moves, seen) = seen.stock[m.sku] BY <1>1, <2>6, <3>1, FirstStartsFromStock
    <3>3. Before(m, moves, seen) > limit BY <1>1, <2>0, <2>6, <3>2
    <3> QED BY <1>5, <2>0, <2>6, <3>3
  <2>8. CASE P # {}
    <3>1. IsFiniteSet(P) /\ \A n \in P : n.source \in Nat BY <1>1, FS_Subset
    <3>2. PICK p \in P : \A n \in P : n.source <= p.source
      <4> HIDE DEF P
      <4> QED BY <2>8, <3>1, LastOf
    <3>3. /\ p \in S /\ p \in moves /\ p.sku = m.sku /\ p.source < m.source /\ m \in moves
          /\ \A n \in Of(moves, m.sku) : n.source < m.source => n.source <= p.source
      BY <1>1, <2>6, <3>2
    <3>4. Before(m, moves, seen) = After(p, moves, seen)
      <4>1. seen.stock[m.sku] \in Int BY <1>1, <2>6
      <4> QED BY <3>3, <4>1, NextFollows
    <3>5. p \notin D BY <1>1, <2>5, <3>3
    <3>6. ~ (After(p, moves, seen) <= limit) BY <3>3, <3>5
    <3>7. Before(m, moves, seen) > limit
      <4> HIDE DEF S, limit, P, D
      <4> QED BY <1>3, <2>0, <3>3, <3>4, <3>6
    <3> QED BY <1>5, <2>0, <2>6, <3>7
  <2> QED BY <2>7, <2>8
<1>10. CASE ComesDown(s, moves, seen)
  <2>1. PICK m \in S : Crosses(m, moves, seen) BY <1>9, <1>10
  <2>2. Crossings(s, moves, seen) = {m} BY <1>8, <2>1 DEF Crossings
  <2> QED BY <1>10, <2>2
<1>11. CASE ~ ComesDown(s, moves, seen)
  <2>1. Crossings(s, moves, seen) = {} BY <1>6, <1>11 DEF Crossings
  <2> QED BY <1>11, <2>1
<1> QED BY <1>10, <1>11

-----------------------------------------------------------------------------
(* The inductive invariant of the stock. *)

\* What a command takes out, the stock that was read covers.
Covered(c, new, seen) ==
  /\ c.op = "exit" => c.quantity <= seen.stock[c.sku]
  /\ c.op \in {"create", "append"} =>
       \A i \in new : seen.stock[i.sku] + Sum(OrderMoves(new), i.sku) >= 0

\* A handler holds the SKUs of its command that are no longer to do.
HoldsSkus(h) ==
  handler[h].at = "skus" =>
    \A s \in SkusOf(handler[h].cmd, handler[h].new) \ handler[h].todo : skuLock[s] = h

\* What a handler read is so until it writes.
SeenIsStock(h) ==
  handler[h].at = "write" =>
    /\ \A s \in SkusOf(handler[h].cmd, handler[h].new) :
         /\ skuLock[s] = h
         /\ handler[h].seen.stock[s] = stock[s]
         /\ handler[h].seen.threshold[s] = threshold[s]
    /\ Covered(handler[h].cmd, handler[h].new, handler[h].seen)

StockOK == /\ stock \in [SKUs -> Nat]
           /\ threshold \in [SKUs -> Nat \cup {NoThreshold}]

RowTypes ==
  /\ orders \subseteq [id : Ids, client : {c.client : c \in {d \in Commands : d.op = "create"}}]
  /\ dispatches \subseteq [id : Ids, order : Ids, sku : SKUs, quantity : Nat]
  /\ counts \subseteq [id : Ids, sku : SKUs, observed : Nat, expected : Nat]
  /\ checkpoints \subseteq [source : Nat, at : Nat, sku : SKUs, before : Nat, after : Nat,
                            crossed : BOOLEAN]

Outside ==
  /\ answers \in [Commands -> SUBSET Answers]
  /\ published \subseteq outbox
  /\ \A b \in Relays : relay[b] = Waiting \/ relay[b].event \in outbox

StockInv == /\ StockOK /\ RowTypes /\ Outside
            /\ \A h \in Handlers : HoldsSkus(h) /\ SeenIsStock(h)

-----------------------------------------------------------------------------
(* A commit that moves stock. *)

Moving(h, moves, seen) ==
  /\ Movements(moves)
  /\ \A m \in moves : /\ m.sku \in SKUs /\ skuLock[m.sku] = h
                      /\ seen.stock[m.sku] = stock[m.sku]
                      /\ seen.threshold[m.sku] = threshold[m.sku]
                      /\ stock[m.sku] + Sum(moves, m.sku) >= 0
  /\ (\A m \in moves : m.change < 0) \/ (\E m : moves = {m} /\ m.change > 0)
  /\ seen.now \in Nat
  /\ \A k \in checkpoints : k.at # seen.now
  /\ \E events : Move(moves, events, seen)
  /\ UNCHANGED <<threshold, counts>>

LEMMA MovingStock ==
  ASSUME StockOK, NEW h, NEW moves, NEW seen, Moving(h, moves, seen)
  PROVE  /\ stock' \in [SKUs -> Nat]
         /\ \A s \in SKUs : stock'[s] = stock[s] + Sum(moves, s)
         /\ \A s \in SKUs : skuLock[s] # h => stock'[s] = stock[s]
<1>1. stock' = [s \in SKUs |-> stock[s] + Sum(moves, s)] BY DEF Moving, Move
<1>2. IsFiniteSet(moves) /\ \A m \in moves : m.change \in Int BY DEF Moving, Movements
<1>3. \A s \in SKUs : Sum(moves, s) \in Int BY <1>2, SumInt
<1>4. \A s \in SKUs : stock[s] \in Nat BY DEF StockOK
<1>5. ASSUME NEW s \in SKUs
      PROVE  stock[s] + Sum(moves, s) \in Nat /\ (skuLock[s] # h => Sum(moves, s) = 0)
  <2>1. CASE \E m \in moves : m.sku = s
    <3>1. PICK m \in moves : m.sku = s BY <2>1
    <3>2. skuLock[s] = h /\ stock[s] + Sum(moves, s) >= 0 BY <3>1 DEF Moving
    <3> QED BY <1>3, <1>4, <3>2
  <2>2. CASE \A m \in moves : m.sku # s
    <3>1. Sum(moves, s) = 0 BY <2>2, SumNone
    <3> QED BY <1>4, <3>1
  <2> QED BY <2>1, <2>2
<1> QED BY <1>1, <1>3, <1>4, <1>5

LEMMA MovingBefore ==
  ASSUME StockOK, NEW h, NEW moves, NEW seen, Moving(h, moves, seen), NEW m \in moves
  PROVE  Before(m, moves, seen) \in Nat /\ After(m, moves, seen) \in Nat
<1>1. /\ Movements(moves) /\ m.change \in Int /\ m.sku \in SKUs
      /\ seen.stock[m.sku] = stock[m.sku] /\ stock[m.sku] \in Nat
      /\ stock[m.sku] + Sum(moves, m.sku) >= 0
  BY DEF Moving, Movements, StockOK
<1>2. IsFiniteSet(moves) /\ \A n \in moves : n.change \in Int BY DEF Moving, Movements
<1>3. Sum(moves, m.sku) \in Int BY <1>2, SumInt
<1>4. Before(m, moves, seen) \in Int /\ After(m, moves, seen) \in Int BY <1>1, BeforeInt
<1>5. After(m, moves, seen) = Before(m, moves, seen) + m.change BY DEF After
<1>6. CASE \A n \in moves : n.change < 0
  <2>1. Outgoing(moves) BY <1>2, <1>6 DEF Outgoing
  <2>2. stock[m.sku] + Sum(moves, m.sku) <= After(m, moves, seen)
    BY <1>1, <2>1, StockDescends
  <2>3. m.change < 0 BY <1>6
  <2> QED BY <1>1, <1>3, <1>4, <1>5, <2>2, <2>3
<1>7. CASE \E n : moves = {n} /\ n.change > 0
  <2>1. moves = {m} /\ m.change > 0 BY <1>7
  <2>2. Before(m, moves, seen) = stock[m.sku]
    <3>1. \A n \in Of(moves, m.sku) : m.source <= n.source BY <1>1, <2>1 DEF Of, Movements
    <3> QED BY <1>1, <3>1, FirstStartsFromStock
  <2> QED BY <1>1, <1>4, <1>5, <2>1, <2>2
<1> QED BY <1>6, <1>7 DEF Moving

LEMMA MovingCheckpoints ==
  ASSUME StockOK, RowTypes, NEW h, NEW moves, NEW seen, Moving(h, moves, seen)
  PROVE  /\ checkpoints' \subseteq [source : Nat, at : Nat, sku : SKUs, before : Nat,
                                    after : Nat, crossed : BOOLEAN]
         /\ checkpoints' \ checkpoints = {Checkpoint(m, moves, seen) : m \in moves}
<1>1. checkpoints' = checkpoints \cup {Checkpoint(m, moves, seen) : m \in moves}
  BY DEF Moving, Move
<1>2. ASSUME NEW m \in moves
      PROVE  /\ Checkpoint(m, moves, seen) \notin checkpoints
             /\ Checkpoint(m, moves, seen) \in
                  [source : Nat, at : Nat, sku : SKUs, before : Nat, after : Nat,
                   crossed : BOOLEAN]
  <2>1. Checkpoint(m, moves, seen).at = seen.now BY DEF Checkpoint
  <2>2. Before(m, moves, seen) \in Nat /\ Before(m, moves, seen) + m.change \in Nat
    BY MovingBefore DEF After
  <2>3. Crosses(m, moves, seen) \in BOOLEAN BY DEF Crosses
  <2>4. m.source \in Nat /\ seen.now \in Nat /\ m.sku \in SKUs BY DEF Moving, Movements
  <2> QED BY <2>1, <2>2, <2>3, <2>4 DEF Checkpoint, Moving
<1> QED BY <1>1, <1>2 DEF RowTypes

\* The checkpoints of a SKU lead from the stock before the command to the stock after it.
LEMMA MovingTells ==
  ASSUME StockOK, RowTypes, NEW h, NEW moves, NEW seen, Moving(h, moves, seen), NEW s \in SKUs,
         {k \in checkpoints' \ checkpoints : k.sku = s} # {}
  PROVE  /\ \E k \in checkpoints' \ checkpoints : k.sku = s /\ k.before = stock[s]
         /\ \E k \in checkpoints' \ checkpoints : k.sku = s /\ k.after = stock'[s]
<1> DEFINE S == Of(moves, s)
<1>1. \A m \in moves : /\ Checkpoint(m, moves, seen) \in checkpoints' \ checkpoints
                       /\ Checkpoint(m, moves, seen).sku = m.sku
                       /\ Checkpoint(m, moves, seen).before = Before(m, moves, seen)
                       /\ Checkpoint(m, moves, seen).after = After(m, moves, seen)
  BY MovingCheckpoints DEF Checkpoint, After
<1>2. S # {} BY <1>1, MovingCheckpoints DEF Of
<1>3. Movements(moves) /\ IsFiniteSet(S) /\ \A m \in S : m.source \in Nat
  BY FS_Subset DEF Of, Moving, Movements
<1>4. \A m \in S : /\ m \in moves /\ m.sku = s
                   /\ seen.stock[m.sku] = stock[s] /\ seen.stock[m.sku] \in Int
  BY DEF Of, Moving, StockOK
<1>5. PICK f \in S : \A n \in S : f.source <= n.source
  <2> HIDE DEF S
  <2> QED BY <1>2, <1>3, FirstOf
<1>6. PICK l \in S : \A n \in S : n.source <= l.source
  <2> HIDE DEF S
  <2> QED BY <1>2, <1>3, LastOf
<1>7. Before(f, moves, seen) = stock[s]
  <2>1. \A n \in Of(moves, f.sku) : f.source <= n.source BY <1>4, <1>5
  <2> QED BY <1>3, <1>4, <2>1, FirstStartsFromStock
<1>8. After(l, moves, seen) = stock'[s]
  <2>1. \A n \in Of(moves, l.sku) : n.source <= l.source BY <1>4, <1>6
  <2>2. After(l, moves, seen) = seen.stock[l.sku] + Sum(moves, l.sku)
    BY <1>3, <1>4, <2>1, LastEndsAtStock
  <2>3. l.sku = s /\ seen.stock[l.sku] = stock[s] BY <1>4
  <2>4. stock'[s] = stock[s] + Sum(moves, s) BY MovingStock
  <2> QED BY <2>2, <2>3, <2>4
<1> HIDE DEF S
<1>9. f \in moves /\ f.sku = s /\ l \in moves /\ l.sku = s BY <1>4
<1> QED BY <1>1, <1>7, <1>8, <1>9

\* As many checkpoints of a SKU cross as the stock comes down to its threshold: one or none.
LEMMA MovingAnnounces ==
  ASSUME StockOK, RowTypes, NEW h, NEW moves, NEW seen, Moving(h, moves, seen), NEW s \in SKUs
  PROVE  Cardinality({k \in checkpoints' \ checkpoints : k.sku = s /\ k.crossed}) =
         IF /\ threshold[s] # NoThreshold
            /\ stock[s] > threshold[s] /\ stock'[s] <= threshold[s]
         THEN 1 ELSE 0
<1> DEFINE K == {k \in checkpoints' \ checkpoints : k.sku = s /\ k.crossed}
           C == Crossings(s, moves, seen)
           down == /\ threshold[s] # NoThreshold
                   /\ stock[s] > threshold[s] /\ stock'[s] <= threshold[s]
<1>1. K = {Checkpoint(m, moves, seen) : m \in C}
  BY MovingCheckpoints DEF Checkpoint, Crossings, Of
<1>2. (down => \E m : C = {m}) /\ (~ down => C = {})
  <2>1. stock[s] \in Nat /\ threshold[s] \in Nat \cup {NoThreshold} BY DEF StockOK
  <2>2. stock'[s] = stock[s] + Sum(moves, s) BY MovingStock
  <2>3. CASE Of(moves, s) = {}
    <3>1. \A m \in moves : m.sku # s BY <2>3 DEF Of
    <3>2. Sum(moves, s) = 0 BY <3>1, SumNone
    <3>3. stock'[s] = stock[s] BY <2>1, <2>2, <3>2
    <3>4. ~ down BY <2>1, <3>3
    <3>5. C = {} BY <2>3 DEF Crossings
    <3> QED BY <3>4, <3>5
  <2>4. CASE Of(moves, s) # {} /\ \A m \in moves : m.change < 0
    <3>1. PICK m \in moves : m.sku = s BY <2>4 DEF Of
    <3>2. seen.stock[s] = stock[s] /\ seen.threshold[s] = threshold[s] BY <3>1 DEF Moving
    <3>3. Movements(moves) BY DEF Moving
    <3>4. ComesDown(s, moves, seen) <=> down BY <2>2, <3>2 DEF ComesDown
    <3>5. /\ ComesDown(s, moves, seen) => \E n : C = {n}
          /\ ~ ComesDown(s, moves, seen) => C = {}
      BY <2>1, <2>4, <3>2, <3>3, OneCrosses
    <3> QED BY <3>4, <3>5
  <2>5. CASE Of(moves, s) # {} /\ \E m : moves = {m} /\ m.change > 0
    <3>1. PICK m : moves = {m} /\ m.change > 0 /\ m.sku = s BY <2>5 DEF Of
    <3>2. m.change \in Int /\ IsFiniteSet(moves) /\ \A n \in moves : n.change \in Int
      BY <3>1 DEF Moving, Movements
    <3>3. Sum(moves, s) = m.change
      <4>1. Sum(moves, m.sku) = m.change + Sum(moves \ {m}, m.sku) BY <3>1, <3>2, SumWithout
      <4>2. Sum(moves \ {m}, m.sku) = 0
        <5>1. \A n \in moves \ {m} : n.sku # m.sku BY <3>1
        <5> QED BY <5>1, SumNone
      <4> QED BY <3>1, <3>2, <4>1, <4>2
    <3>4. ~ down BY <2>1, <2>2, <3>1, <3>2, <3>3
    <3>5. C = {} BY <3>1, <3>2 DEF Crossings, Of, Crosses
    <3> QED BY <3>4, <3>5
  <2> QED BY <2>3, <2>4, <2>5 DEF Moving
<1> HIDE DEF C
<1>3. CASE down
  <2>1. PICK m : C = {m} BY <1>2, <1>3
  <2>2. K = {Checkpoint(m, moves, seen)} BY <1>1, <2>1
  <2>3. Cardinality(K) = 1
    <3> HIDE DEF K
    <3> QED BY <2>2, FS_Singleton
  <2> QED BY <1>3, <2>3
<1>4. CASE ~ down
  <2>1. K = {} BY <1>1, <1>2, <1>4
  <2>2. Cardinality(K) = 0
    <3> HIDE DEF K
    <3> QED BY <2>1, FS_EmptySet
  <2> QED BY <1>4, <2>2
<1> QED BY <1>3, <1>4

-----------------------------------------------------------------------------
(* What each command commits. *)

\* A handler about to write, with the stock it read.
Sure(h, c, new, seen) ==
  /\ Writing(h, c, seen) /\ StockOK
  /\ new \in SUBSET Items
  /\ new \subseteq c.items \/ c.op \notin {"create", "append"}
  /\ \A s \in SkusOf(c, new) : /\ s \in SKUs /\ skuLock[s] = h
                               /\ seen.stock[s] = stock[s]
                               /\ seen.threshold[s] = threshold[s]
  /\ Covered(c, new, seen)

LEMMA SureWhenWriting ==
  ASSUME Locks, Knowledge, Rows, StockInv, NEW h \in Handlers, Commits(h),
         NEW c, NEW new, NEW seen,
         c = Cmd(h), new = handler[h].new, seen = handler[h].seen
  PROVE  Sure(h, c, new, seen)
<1>1. handler[h].at = "write" /\ c \in Commands /\ new \in SUBSET Items /\ now' = now
  BY DEF Commits, Locks, HandlerOK, Idle, Cmd
<1>2. Writing(h, c, seen) BY <1>1 DEF Writing, Knowledge
<1>3. new \subseteq c.items \/ c.op \notin {"create", "append"}
  BY <1>1 DEF Knowledge, StillNew, Fresh, Cmd
<1>4. SkusOf(c, new) \subseteq SKUs BY <1>1, SkusAreSKUs
<1>5. SeenIsStock(h) BY DEF StockInv
<1>6. /\ \A s \in SkusOf(c, new) : /\ skuLock[s] = h
                                   /\ seen.stock[s] = stock[s]
                                   /\ seen.threshold[s] = threshold[s]
      /\ Covered(c, new, seen)
  BY <1>1, <1>5 DEF SeenIsStock, Cmd
<1> QED BY <1>1, <1>2, <1>3, <1>4, <1>6 DEF Sure, StockInv

LEMMA OwnTimeIsNew ==
  ASSUME NEW h, NEW c, NEW new, NEW seen, Sure(h, c, new, seen)
  PROVE  seen.now \in Nat /\ \A k \in checkpoints : k.at # seen.now
<1>1. /\ handler[h].at = "write" /\ seen = handler[h].seen /\ OwnTime(h)
      /\ now \in Nat
  BY DEF Sure, Writing, Rows, CheckpointFacts
<1> QED BY <1>1 DEF OwnTime

LEMMA OneMovement ==
  ASSUME NEW m, m.source \in Nat, m.change \in Int
  PROVE  Movements({m}) /\ Sum({m}, m.sku) = m.change
<1>1. IsFiniteSet({m}) /\ {m} \ {m} = {} BY FS_Singleton
<1>2. Sum({m}, m.sku) = m.change + Sum({m} \ {m}, m.sku) BY <1>1, SumWithout
<1>3. Sum({}, m.sku) = 0 BY SumNone
<1> QED BY <1>1, <1>2, <1>3 DEF Movements

LEMMA EntryMoves ==
  ASSUME NEW h, NEW c, NEW new, NEW seen, Sure(h, c, new, seen),
         c.op = "entry", RecordEntry(c, seen)
  PROVE  Moving(h, OneMove(c, c.quantity, seen), seen)
<1> DEFINE m == [source |-> seen.now, sku |-> c.sku, change |-> c.quantity]
<1>1. c.sku \in SKUs /\ c.quantity \in Nat \ {0} BY CommandAssumption DEF Sure, Writing
<1>2. /\ skuLock[c.sku] = h /\ seen.stock[c.sku] = stock[c.sku]
      /\ seen.threshold[c.sku] = threshold[c.sku] /\ stock[c.sku] \in Nat
  BY <1>1 DEF Sure, SkusOf, StockOK
<1>3. seen.now \in Nat /\ \A k \in checkpoints : k.at # seen.now BY OwnTimeIsNew
<1>4. m.source \in Nat /\ m.change \in Int /\ m.change > 0 /\ m.sku = c.sku BY <1>1, <1>3
<1>5. OneMove(c, c.quantity, seen) = {m} BY DEF OneMove
<1>6. /\ \E events : Move(OneMove(c, c.quantity, seen), events, seen)
      /\ UNCHANGED <<threshold, counts>>
  BY DEF RecordEntry
<1> HIDE DEF m
<1>7. Movements({m}) /\ Sum({m}, m.sku) = m.change BY <1>4, OneMovement
<1>8. stock[m.sku] + Sum({m}, m.sku) >= 0 BY <1>2, <1>4, <1>7
<1> QED BY <1>1, <1>2, <1>3, <1>4, <1>5, <1>6, <1>7, <1>8 DEF Moving

LEMMA ExitMoves ==
  ASSUME NEW h, NEW c, NEW new, NEW seen, Sure(h, c, new, seen),
         c.op = "exit", RecordExit(c, seen)
  PROVE  Moving(h, OneMove(c, -c.quantity, seen), seen)
<1> DEFINE m == [source |-> seen.now, sku |-> c.sku, change |-> -c.quantity]
<1>1. c.sku \in SKUs /\ c.quantity \in Nat \ {0} BY CommandAssumption DEF Sure, Writing
<1>2. /\ skuLock[c.sku] = h /\ seen.stock[c.sku] = stock[c.sku]
      /\ seen.threshold[c.sku] = threshold[c.sku] /\ stock[c.sku] \in Nat
  BY <1>1 DEF Sure, SkusOf, StockOK
<1>3. seen.now \in Nat /\ \A k \in checkpoints : k.at # seen.now BY OwnTimeIsNew
<1>4. /\ m.source \in Nat /\ m.change \in Int /\ m.change < 0 /\ m.sku = c.sku
      /\ m.change = -c.quantity
  BY <1>1, <1>3
<1>5. OneMove(c, -c.quantity, seen) = {m} BY DEF OneMove
<1>6. /\ \E events : Move(OneMove(c, -c.quantity, seen), events, seen)
      /\ UNCHANGED <<threshold, counts>>
  BY DEF RecordExit
<1>7. c.quantity <= stock[c.sku] BY <1>2 DEF Sure, Covered
<1> HIDE DEF m
<1>8. Movements({m}) /\ Sum({m}, m.sku) = m.change BY <1>4, OneMovement
<1>9. stock[m.sku] + Sum({m}, m.sku) >= 0 BY <1>1, <1>2, <1>4, <1>7, <1>8
<1> QED BY <1>1, <1>2, <1>3, <1>4, <1>5, <1>6, <1>8, <1>9 DEF Moving

LEMMA OrderIsMovements ==
  ASSUME NEW c \in Commands, c.op \in {"create", "append"}, NEW new \in SUBSET c.items
  PROVE  /\ Movements(OrderMoves(new))
         /\ \A m \in OrderMoves(new) : m.change < 0 /\ \E i \in new : m.sku = i.sku
<1> DEFINE move == [i \in new |-> [source |-> i.id, sku |-> i.sku, change |-> -i.quantity]]
<1>1. new \subseteq Items /\ IsFiniteSet(new) BY CommandAssumption, ItemsAreItems, FS_Subset
<1>2. \A i \in new : i.id \in Nat /\ i.quantity \in Nat \ {0} BY <1>1, CommandAssumption
<1>3. OrderMoves(new) = {move[i] : i \in new} BY DEF OrderMoves
<1>4. move \in Surjection(new, OrderMoves(new)) BY <1>3 DEF Surjection
<1>5. IsFiniteSet(OrderMoves(new))
  <2> HIDE DEF move
  <2> QED BY <1>1, <1>4, FS_Surjection
<1>6. \A m \in OrderMoves(new) : /\ m.source \in Nat /\ m.change \in Int /\ m.change < 0
                                 /\ \E i \in new : m.sku = i.sku
  BY <1>2 DEF OrderMoves
<1>7. \A m, n \in OrderMoves(new) : m.source = n.source => m = n BY OneMovePerItem
<1> QED BY <1>5, <1>6, <1>7 DEF Movements

LEMMA OrderMovesStock ==
  ASSUME NEW h, NEW c, NEW new, NEW seen, Sure(h, c, new, seen),
         c.op \in {"create", "append"}, UNCHANGED <<threshold, counts>>,
         NEW events, AddDispatches(c.order, new, events, seen)
  PROVE  Moving(h, OrderMoves(new), seen)
<1> DEFINE moves == OrderMoves(new)
<1>1. c \in Commands /\ new \in SUBSET c.items BY DEF Sure, Writing
<1>2. /\ Movements(moves)
      /\ \A m \in moves : m.change < 0 /\ \E i \in new : m.sku = i.sku
  BY <1>1, OrderIsMovements
<1>3. \A i \in new : i.sku \in SkusOf(c, new) BY DEF SkusOf
<1>4. \A i \in new : seen.stock[i.sku] + Sum(moves, i.sku) >= 0 BY DEF Sure, Covered
<1>5. seen.now \in Nat /\ \A k \in checkpoints : k.at # seen.now BY OwnTimeIsNew
<1>6. Move(moves, events, seen) BY DEF AddDispatches
<1> HIDE DEF moves
<1>7. \A m \in moves : /\ m.sku \in SKUs /\ skuLock[m.sku] = h
                       /\ seen.stock[m.sku] = stock[m.sku]
                       /\ seen.threshold[m.sku] = threshold[m.sku]
                       /\ stock[m.sku] + Sum(moves, m.sku) >= 0
  BY <1>2, <1>3, <1>4 DEF Sure
<1>8. Moving(h, moves, seen) BY <1>2, <1>5, <1>6, <1>7 DEF Moving
<1> QED BY <1>8 DEF moves

\* A commit moves stock, sets a threshold or records a count.
SetsThreshold(h) ==
  /\ UNCHANGED <<stock, counts, checkpoints>>
  /\ \E s \in SKUs, limit \in Nat \cup {NoThreshold} :
       skuLock[s] = h /\ threshold' = [threshold EXCEPT ![s] = limit]

RecordsCount ==
  /\ UNCHANGED <<stock, threshold, checkpoints>>
  /\ \E k \in [id : Ids, sku : SKUs, observed : Nat, expected : Nat] :
       k.expected = stock[k.sku] /\ counts' = counts \cup {k}

LEMMA CommitsMove ==
  ASSUME Locks, Knowledge, Rows, StockInv, NEW h \in Handlers, Commits(h)
  PROVE  \/ \E moves, seen : Moving(h, moves, seen)
         \/ SetsThreshold(h)
         \/ RecordsCount
<1>1. PICK c, new, seen : c = Cmd(h) /\ new = handler[h].new /\ seen = handler[h].seen
  OBVIOUS
<1>2. Sure(h, c, new, seen) BY <1>1, SureWhenWriting
<1>3. c \in Commands /\ c.op \in Ops BY <1>2, CommandAssumption DEF Sure, Writing
<1>4. CASE c.op = "entry"
  <2>1. RecordEntry(c, seen) BY <1>1, <1>4 DEF Commits
  <2> QED BY <1>2, <1>4, <2>1, EntryMoves
<1>5. CASE c.op = "exit"
  <2>1. RecordExit(c, seen) BY <1>1, <1>5 DEF Commits
  <2> QED BY <1>2, <1>5, <2>1, ExitMoves
<1>6. CASE c.op = "threshold"
  <2>1. RecordThreshold(c) BY <1>1, <1>6 DEF Commits
  <2>2. c.sku \in SKUs /\ c.threshold \in Nat \cup {NoThreshold}
    BY <1>3, <1>6, CommandAssumption
  <2>3. skuLock[c.sku] = h BY <1>2, <1>6 DEF Sure, SkusOf
  <2>4. SetsThreshold(h) BY <2>1, <2>2, <2>3 DEF RecordThreshold, SetsThreshold
  <2> QED BY <2>4
<1>7. CASE c.op = "create"
  <2>1. RecordOrder(c, new, seen) BY <1>1, <1>7 DEF Commits
  <2>2. /\ AddDispatches(c.order, new, {Event("outbound_order_created", c.order, seen)}, seen)
        /\ UNCHANGED <<threshold, counts>>
    BY <2>1 DEF RecordOrder
  <2> QED BY <1>2, <1>7, <2>2, OrderMovesStock
<1>8. CASE c.op = "append"
  <2>1. RecordDispatches(c, new, seen) BY <1>1, <1>8 DEF Commits
  <2>2. AddDispatches(c.order, new, {}, seen) /\ UNCHANGED <<threshold, counts>>
    BY <2>1 DEF RecordDispatches
  <2> QED BY <1>2, <1>8, <2>2, OrderMovesStock
<1>9. CASE c.op = "count"
  <2> DEFINE k == [id |-> c.id, sku |-> c.sku, observed |-> c.observed,
                   expected |-> seen.stock[c.sku]]
  <2>1. RecordCount(c, seen) BY <1>1, <1>9 DEF Commits
  <2>2. c.id \in Ids /\ c.sku \in SKUs /\ c.observed \in Nat
    BY <1>3, <1>9, CommandAssumption
  <2>3. seen.stock[c.sku] = stock[c.sku] /\ stock[c.sku] \in Nat
    BY <1>2, <1>9, <2>2 DEF Sure, SkusOf, StockOK
  <2>4. /\ k \in [id : Ids, sku : SKUs, observed : Nat, expected : Nat]
        /\ k.expected = stock[k.sku]
    BY <2>2, <2>3
  <2>5. UNCHANGED <<stock, threshold, checkpoints>> /\ counts' = counts \cup {k}
    BY <2>1 DEF RecordCount
  <2> HIDE DEF k
  <2>6. RecordsCount BY <2>4, <2>5 DEF RecordsCount
  <2> QED BY <2>6
<1> QED BY <1>3, <1>4, <1>5, <1>6, <1>7, <1>8, <1>9 DEF Ops

\* The orders and the dispatches a commit adds.
LEMMA CommitsOrders ==
  ASSUME Locks, Knowledge, Rows, StockInv, NEW h \in Handlers, Commits(h)
  PROVE  /\ orders' \subseteq
              [id : Ids, client : {c.client : c \in {d \in Commands : d.op = "create"}}]
         /\ dispatches' \subseteq [id : Ids, order : Ids, sku : SKUs, quantity : Nat]
         /\ outbox \subseteq outbox'
<1>1. PICK c, new, seen : c = Cmd(h) /\ new = handler[h].new /\ seen = handler[h].seen
  OBVIOUS
<1>2. c \in Commands /\ c.op \in Ops /\ new \in SUBSET Items
  BY <1>1, CommandAssumption, SureWhenWriting DEF Sure, Writing
<1>3. RowTypes BY DEF StockInv
<1>4. \A i \in new : c.order \in Ids =>
        Dispatch(i, c.order) \in [id : Ids, order : Ids, sku : SKUs, quantity : Nat]
  BY <1>2, CommandAssumption DEF Dispatch
<1>5. CASE c.op \in {"entry", "exit", "threshold", "count"}
  <2>1. UNCHANGED <<orders, dispatches>> /\ outbox \subseteq outbox'
    <3>1. CASE c.op = "entry"
      <4>1. RecordEntry(c, seen) BY <1>1, <3>1 DEF Commits
      <4> QED BY <4>1 DEF RecordEntry, Move
    <3>2. CASE c.op = "exit"
      <4>1. RecordExit(c, seen) BY <1>1, <3>2 DEF Commits
      <4> QED BY <4>1 DEF RecordExit, Move
    <3>3. CASE c.op = "threshold"
      <4>1. RecordThreshold(c) BY <1>1, <3>3 DEF Commits
      <4> QED BY <4>1 DEF RecordThreshold
    <3>4. CASE c.op = "count"
      <4>1. RecordCount(c, seen) BY <1>1, <3>4 DEF Commits
      <4> QED BY <4>1 DEF RecordCount
    <3> QED BY <1>5, <3>1, <3>2, <3>3, <3>4
  <2> QED BY <1>3, <2>1 DEF RowTypes
<1>6. CASE c.op = "create"
  <2>1. RecordOrder(c, new, seen) BY <1>1, <1>6 DEF Commits
  <2>2. /\ orders' = orders \cup {[id |-> c.order, client |-> c.client]}
        /\ dispatches' = dispatches \cup {Dispatch(i, c.order) : i \in new}
        /\ outbox \subseteq outbox'
    BY <2>1 DEF RecordOrder, AddDispatches, Move
  <2>3. c.order \in Ids BY <1>2, <1>6, CommandAssumption
  <2> QED BY <1>2, <1>3, <1>4, <1>6, <2>2, <2>3 DEF RowTypes
<1>7. CASE c.op = "append"
  <2>1. RecordDispatches(c, new, seen) BY <1>1, <1>7 DEF Commits
  <2>2. /\ orders' = orders
        /\ dispatches' = dispatches \cup {Dispatch(i, c.order) : i \in new}
        /\ outbox \subseteq outbox'
    BY <2>1 DEF RecordDispatches, AddDispatches, Move
  <2>3. c.order \in Ids BY <1>2, <1>7, CommandAssumption
  <2> QED BY <1>3, <1>4, <2>2, <2>3 DEF RowTypes
<1> QED BY <1>2, <1>5, <1>6, <1>7 DEF Ops

-----------------------------------------------------------------------------
(* The invariant of the stock, action by action. *)

\* What a handler holds and saw, when a step leaves it and its SKUs alone.
LEMMA OthersStock ==
  ASSUME Locks, StockInv, NEW g \in Handlers, handler'[g] = handler[g],
         \A s \in SKUs : skuLock[s] = g =>
           skuLock'[s] = g /\ stock'[s] = stock[s] /\ threshold'[s] = threshold[s]
  PROVE  HoldsSkus(g)' /\ SeenIsStock(g)'
<1>1. HoldsSkus(g) /\ SeenIsStock(g) BY DEF StockInv
<1>2. handler[g].at \in {"skus", "write"} =>
        SkusOf(handler[g].cmd, handler[g].new) \subseteq SKUs
  BY SkusAreSKUs DEF Locks, HandlerOK, Idle
<1>3. HoldsSkus(g)' BY <1>1, <1>2 DEF HoldsSkus
<1>4. SeenIsStock(g)' BY <1>1, <1>2 DEF SeenIsStock
<1> QED BY <1>3, <1>4

\* An answer ends the transaction of a handler.
LEMMA FinishStock ==
  ASSUME Locks, StockInv, NEW h \in Handlers, NEW answer \in Answers, Finish(h, answer),
         handler[h] # Idle,
         \A s \in SKUs : skuLock[s] # h => stock'[s] = stock[s] /\ threshold'[s] = threshold[s]
  PROVE  /\ \A g \in Handlers : HoldsSkus(g)' /\ SeenIsStock(g)'
         /\ answers' \in [Commands -> SUBSET Answers]
<1>1. /\ handler'[h] = Idle /\ \A g \in Handlers \ {h} : handler'[g] = handler[g]
      /\ \A s \in SKUs : skuLock'[s] = IF skuLock[s] = h THEN NoOne ELSE skuLock[s]
  BY DEF Finish, Unlock, Locks
<1>2. HoldsSkus(h)' /\ SeenIsStock(h)' BY <1>1 DEF HoldsSkus, SeenIsStock, Idle
<1>3. \A g \in Handlers \ {h} : HoldsSkus(g)' /\ SeenIsStock(g)' BY <1>1, OthersStock
<1>4. Cmd(h) \in Commands BY DEF Locks, HandlerOK, Cmd
<1>5. answers' = [answers EXCEPT ![Cmd(h)] = answers[Cmd(h)] \cup {answer}]
  BY DEF Finish
<1>6. answers \in [Commands -> SUBSET Answers] BY DEF StockInv, Outside
<1>7. answers' \in [Commands -> SUBSET Answers] BY <1>4, <1>5, <1>6
<1> QED BY <1>2, <1>3, <1>7

LEMMA RowTypesKept ==
  ASSUME StockInv, UNCHANGED rowVars
  PROVE  StockOK' /\ RowTypes'
BY DEF StockInv, StockOK, RowTypes, rowVars

LEMMA OutsideKept ==
  ASSUME StockInv, outbox \subseteq outbox', UNCHANGED relayVars,
         answers' \in [Commands -> SUBSET Answers]
  PROVE  Outside'
BY DEF StockInv, Outside, relayVars, Waiting

LEMMA CommitsStock ==
  ASSUME Locks, Knowledge, Rows, StockInv, NEW h \in Handlers, Commits(h), UNCHANGED relayVars
  PROVE  StockInv'
<1>1. StockOK /\ RowTypes /\ Outside BY DEF StockInv
<1>2. PICK answer \in {"done", "error"} : Finish(h, answer) BY DEF Commits
<1>3. handler[h] # Idle /\ answer \in Answers BY DEF Commits, Idle, Answers
<1>4. /\ StockOK'
      /\ \A s \in SKUs : skuLock[s] # h => stock'[s] = stock[s] /\ threshold'[s] = threshold[s]
      /\ counts' \subseteq [id : Ids, sku : SKUs, observed : Nat, expected : Nat]
      /\ checkpoints' \subseteq [source : Nat, at : Nat, sku : SKUs, before : Nat,
                                 after : Nat, crossed : BOOLEAN]
  <2>1. CASE \E moves, seen : Moving(h, moves, seen)
    <3>1. PICK moves, seen : Moving(h, moves, seen) BY <2>1
    <3>2. UNCHANGED <<threshold, counts>> BY <3>1 DEF Moving
    <3>3. StockOK' BY <1>1, <3>1, <3>2, MovingStock DEF StockOK
    <3> QED BY <1>1, <3>1, <3>2, <3>3, MovingStock, MovingCheckpoints DEF RowTypes
  <2>2. CASE SetsThreshold(h) BY <1>1, <2>2 DEF SetsThreshold, StockOK, RowTypes
  <2>3. CASE RecordsCount
    <3>1. StockOK' BY <1>1, <2>3 DEF RecordsCount, StockOK
    <3> QED BY <1>1, <2>3, <3>1 DEF RecordsCount, RowTypes
  <2> QED BY <2>1, <2>2, <2>3, CommitsMove
<1>5. RowTypes' BY <1>4, CommitsOrders DEF RowTypes
<1>6. /\ \A g \in Handlers : HoldsSkus(g)' /\ SeenIsStock(g)'
      /\ answers' \in [Commands -> SUBSET Answers]
  BY <1>2, <1>3, <1>4, FinishStock
<1>7. Outside' BY <1>6, CommitsOrders, OutsideKept
<1> QED BY <1>4, <1>5, <1>6, <1>7 DEF StockInv

\* A transaction that ends without writing.
LEMMA EndsStock ==
  ASSUME Locks, StockInv, NEW h \in Handlers, NEW answer \in Answers, Finish(h, answer),
         handler[h] # Idle, UNCHANGED <<rowVars, relayVars>>
  PROVE  StockInv'
<1>1. UNCHANGED <<stock, threshold, outbox>> BY DEF rowVars
<1>2. /\ \A g \in Handlers : HoldsSkus(g)' /\ SeenIsStock(g)'
      /\ answers' \in [Commands -> SUBSET Answers]
  BY <1>1, FinishStock
<1>3. Outside' BY <1>1, <1>2, OutsideKept
<1> QED BY <1>2, <1>3, RowTypesKept DEF StockInv

\* A step that only changes what one handler is doing, and the locks it takes.
LEMMA GoesOnStock ==
  ASSUME Locks, StockInv, NEW h \in Handlers, UNCHANGED <<rowVars, relayVars, answers>>,
         \A g \in Handlers \ {h} : handler'[g] = handler[g],
         \A s \in SKUs : skuLock[s] # NoOne => skuLock'[s] = skuLock[s],
         HoldsSkus(h)', SeenIsStock(h)'
  PROVE  StockInv'
<1>1. UNCHANGED <<stock, threshold, outbox>> BY DEF rowVars
<1>2. \A g \in Handlers \ {h} : HoldsSkus(g)' /\ SeenIsStock(g)'
  BY <1>1, HandlersAssumption, OthersStock
<1>3. Outside' BY <1>1, OutsideKept DEF StockInv, Outside
<1> QED BY <1>2, <1>3, RowTypesKept DEF StockInv

LEMMA ReceiveStock ==
  ASSUME Locks, StockInv, NEW h \in Handlers, NEW c \in Commands, Receive(h, c),
         UNCHANGED relayVars
  PROVE  StockInv'
<1>1. UNCHANGED <<rowVars, answers, skuLock>> BY DEF Receive, storeVars, lockVars
<1>2. \A g \in Handlers \ {h} : handler'[g] = handler[g] BY DEF Receive, Locks
<1>3. \/ handler'[h] = [at |-> "skus", cmd |-> c, todo |-> SkusOf(c, {}), new |-> {}]
      \/ handler'[h] = [at |-> "keys", cmd |-> c, todo |-> Keys(c), new |-> {}]
  BY DEF Receive, Locks
<1>4. HoldsSkus(h)' /\ SeenIsStock(h)' BY <1>3 DEF HoldsSkus, SeenIsStock
<1> QED BY <1>1, <1>2, <1>4, GoesOnStock

LEMMA LocksKeyStock ==
  ASSUME Locks, StockInv, NEW h \in Handlers, LocksKey(h), UNCHANGED relayVars
  PROVE  StockInv'
<1>1. UNCHANGED <<rowVars, answers, skuLock>> BY DEF LocksKey, LockKey
<1>2. \A g \in Handlers \ {h} : handler'[g] = handler[g] BY DEF LocksKey, Locks
<1>3. handler'[h].at = "keys" BY DEF LocksKey, Locks, HandlerOK, Idle
<1>4. HoldsSkus(h)' /\ SeenIsStock(h)' BY <1>3 DEF HoldsSkus, SeenIsStock
<1> QED BY <1>1, <1>2, <1>4, GoesOnStock

LEMMA LocksSkuStock ==
  ASSUME Locks, StockInv, NEW h \in Handlers, LocksSku(h), UNCHANGED relayVars
  PROVE  StockInv'
<1> DEFINE s == Min(handler[h].todo)
<1>1. /\ UNCHANGED <<rowVars, answers>>
      /\ skuLock[s] = NoOne /\ skuLock' = [skuLock EXCEPT ![s] = h]
      /\ handler[h].at = "skus" /\ handler[h].todo # {}
  BY DEF LocksSku, LockSku
<1>2. handler[h] = [at |-> "skus", cmd |-> handler[h].cmd, todo |-> handler[h].todo,
                    new |-> handler[h].new]
      /\ handler[h].todo \subseteq SkusOf(handler[h].cmd, handler[h].new)
      /\ handler[h].cmd \in Commands /\ handler[h].new \in SUBSET Items
  BY <1>1 DEF Locks, HandlerOK, Idle
<1>3. SkusOf(handler[h].cmd, handler[h].new) \subseteq SKUs BY <1>2, SkusAreSKUs
<1>4. s \in handler[h].todo
  <2>1. handler[h].todo \subseteq Nat BY <1>2, <1>3, CommandAssumption
  <2> QED BY <1>1, <2>1, MinIsLeast
<1>5. /\ \A g \in Handlers \ {h} : handler'[g] = handler[g]
      /\ handler'[h] = [at |-> "skus", cmd |-> handler[h].cmd, todo |-> handler[h].todo \ {s},
                        new |-> handler[h].new]
  BY <1>2 DEF LocksSku, Locks
<1>6. HoldsSkus(h) BY DEF StockInv
<1> HIDE DEF s
<1>7. \A t \in SKUs : skuLock'[t] = IF t = s THEN h ELSE skuLock[t] BY <1>1 DEF Locks
<1>8. HoldsSkus(h)' BY <1>1, <1>3, <1>5, <1>6, <1>7 DEF HoldsSkus
<1>9. SeenIsStock(h)' BY <1>5 DEF SeenIsStock
<1>10. \A t \in SKUs : skuLock[t] # NoOne => skuLock'[t] = skuLock[t] BY <1>1, <1>7
<1> QED BY <1>1, <1>5, <1>8, <1>9, <1>10, GoesOnStock

LEMMA GoOnStock ==
  ASSUME Locks, StockInv, NEW h \in Handlers, NEW new \in SUBSET Items, GoOn(h, new),
         UNCHANGED <<rowVars, relayVars>>
  PROVE  StockInv'
<1>1. UNCHANGED <<answers, skuLock>> BY DEF GoOn, lockVars
<1>2. /\ \A g \in Handlers \ {h} : handler'[g] = handler[g]
      /\ handler'[h] = [at |-> "skus", cmd |-> handler[h].cmd,
                        todo |-> SkusOf(handler[h].cmd, new), new |-> new]
  BY DEF GoOn, Locks, Cmd
<1>3. HoldsSkus(h)' /\ SeenIsStock(h)' BY <1>2 DEF HoldsSkus, SeenIsStock
<1> QED BY <1>1, <1>2, <1>3, GoesOnStock

\* The answers of a look-up.
LEMMA LookAnswers ==
  ASSUME Locks, NEW h \in Handlers, Look(h)
  PROVE  \/ \E answer \in Answers : Finish(h, answer)
         \/ \E new \in SUBSET Items : GoOn(h, new)
<1>1. Cmd(h) \in Commands /\ Keys(Cmd(h)) # {}
  BY DEF Look, Locks, HandlerOK, Idle, Cmd
<1>2. Cmd(h).op \in {"create", "append", "count"} BY <1>1, LookedUp
<1>3. CASE Cmd(h).op = "create"
  <2>1. LookForOrder(h) BY <1>3 DEF Look
  <2>2. Cmd(h).items \in SUBSET Items BY <1>1, <1>3, ItemsAreItems
  <2> QED BY <2>1, <2>2 DEF LookForOrder, Answers
<1>4. CASE Cmd(h).op = "append"
  <2>1. LookForDispatches(h) BY <1>4 DEF Look
  <2>2. Cmd(h).items \ Known(Cmd(h).items) \in SUBSET Items BY <1>1, <1>4, ItemsAreItems
  <2> QED BY <2>1, <2>2 DEF LookForDispatches, Answers
<1>5. CASE Cmd(h).op = "count"
  <2>1. LookForCount(h) BY <1>5 DEF Look
  <2> QED BY <2>1 DEF LookForCount, Answers
<1> QED BY <1>2, <1>3, <1>4, <1>5

LEMMA LookStock ==
  ASSUME Locks, StockInv, NEW h \in Handlers, Look(h), UNCHANGED relayVars
  PROVE  StockInv'
<1>1. UNCHANGED rowVars /\ handler[h] # Idle BY DEF Look, Idle
<1> QED BY <1>1, LookAnswers, EndsStock, GoOnStock

\* A command that is not refused takes no more than there is.
LEMMA NotRefused ==
  ASSUME NEW c \in Commands, NEW new \in SUBSET Items,
         new \subseteq c.items \/ c.op \notin {"create", "append"},
         NEW seen, \A s \in SkusOf(c, new) : seen.stock[s] \in Nat,
         Refusal(c, new, seen) = "none"
  PROVE  Covered(c, new, seen)
<1>1. ASSUME c.op = "exit" PROVE c.quantity <= seen.stock[c.sku]
  <2>1. seen.stock[c.sku] \in Nat /\ c.quantity \in Nat BY <1>1, CommandAssumption DEF SkusOf
  <2>2. ~ (c.quantity > seen.stock[c.sku]) BY <1>1 DEF Refusal
  <2> QED BY <2>1, <2>2
<1>2. ASSUME c.op \in {"create", "append"}, NEW i \in new
      PROVE  seen.stock[i.sku] + Sum(OrderMoves(new), i.sku) >= 0
  <2>1. Movements(OrderMoves(new)) BY <1>2, OrderIsMovements
  <2>2. Sum(OrderMoves(new), i.sku) \in Int BY <2>1, SumInt DEF Movements
  <2>3. seen.stock[i.sku] \in Nat BY <1>2 DEF SkusOf
  <2>4. ~ (seen.stock[i.sku] + Sum(OrderMoves(new), i.sku) < 0) BY <1>2 DEF Refusal
  <2> QED BY <2>2, <2>3, <2>4
<1> QED BY <1>1, <1>2 DEF Covered

LEMMA RefusalAnswers ==
  ASSUME NEW c, NEW new, NEW seen, Refusal(c, new, seen) # "none"
  PROVE  Refusal(c, new, seen) \in Answers
BY DEF Refusal, Answers

LEMMA ReadStock ==
  ASSUME Locks, Knowledge, StockInv, NEW h \in Handlers, Read(h), UNCHANGED relayVars
  PROVE  StockInv'
<1>1. PICK c, new : c = Cmd(h) /\ new = handler[h].new OBVIOUS
<1>2. PICK seen :
        seen = [stock     |-> [s \in SkusOf(c, new) |-> stock[s]],
                threshold |-> [s \in SkusOf(c, new) |-> threshold[s]],
                now       |-> now + 1]
  OBVIOUS
<1>3. /\ handler[h].at = "skus" /\ handler[h].todo = {} /\ UNCHANGED rowVars
      /\ \/ /\ Refusal(c, new, seen) = "none"
            /\ handler' = [handler EXCEPT ![h] =
                 [at |-> "write", cmd |-> c, new |-> new, seen |-> seen]]
            /\ UNCHANGED <<lockVars, answers>>
         \/ /\ Refusal(c, new, seen) # "none"
            /\ Finish(h, Refusal(c, new, seen))
  BY <1>1, <1>2 DEF Read
<1>4. /\ c \in Commands /\ new \in SUBSET Items /\ c = handler[h].cmd
      /\ new \subseteq c.items \/ c.op \notin {"create", "append"}
  BY <1>1, <1>3 DEF Locks, HandlerOK, Idle, Cmd, Knowledge, StillNew, Fresh
<1>5. SkusOf(c, new) \subseteq SKUs BY <1>4, SkusAreSKUs
<1>6. CASE Refusal(c, new, seen) # "none"
  <2>1. Finish(h, Refusal(c, new, seen)) /\ Refusal(c, new, seen) \in Answers
    BY <1>3, <1>6, RefusalAnswers
  <2>2. handler[h] # Idle BY <1>3 DEF Idle
  <2> QED BY <1>3, <2>1, <2>2, EndsStock
<1>7. CASE Refusal(c, new, seen) = "none"
  <2>1. /\ \A g \in Handlers \ {h} : handler'[g] = handler[g]
        /\ handler'[h] = [at |-> "write", cmd |-> c, new |-> new, seen |-> seen]
        /\ UNCHANGED <<keyLock, skuLock, answers, stock, threshold>>
    BY <1>3, <1>7 DEF Locks, lockVars, rowVars
  <2>2. \A s \in SkusOf(c, new) : /\ skuLock[s] = h
                                  /\ seen.stock[s] = stock[s] /\ seen.stock[s] \in Nat
                                  /\ seen.threshold[s] = threshold[s]
    BY <1>1, <1>2, <1>3, <1>4, <1>5 DEF StockInv, HoldsSkus, StockOK
  <2>3. Covered(c, new, seen) BY <1>4, <1>7, <2>2, NotRefused
  <2>4. HoldsSkus(h)' BY <2>1 DEF HoldsSkus
  <2>5. SeenIsStock(h)' BY <2>1, <2>2, <2>3 DEF SeenIsStock
  <2> QED BY <1>3, <2>1, <2>4, <2>5, GoesOnStock
<1> QED BY <1>6, <1>7

LEMMA ServiceStock ==
  ASSUME Locks, Knowledge, Rows, StockInv, ServiceNext, UNCHANGED relayVars
  PROVE  StockInv'
<1>1. PICK h \in Handlers : (\E c \in Commands : Receive(h, c)) \/ Serve(h) \/ Fails(h)
  BY DEF ServiceNext
<1>2. CASE \E c \in Commands : Receive(h, c) BY <1>2, ReceiveStock
<1>3. CASE LocksKey(h) BY <1>3, LocksKeyStock
<1>4. CASE Look(h) BY <1>4, LookStock
<1>5. CASE LocksSku(h) BY <1>5, LocksSkuStock
<1>6. CASE Read(h) BY <1>6, ReadStock
<1>7. CASE Commits(h) BY <1>7, CommitsStock
<1>8. CASE Fails(h) BY <1>8, EndsStock DEF Fails, Answers
<1> QED BY <1>1, <1>2, <1>3, <1>4, <1>5, <1>6, <1>7, <1>8 DEF Serve

LEMMA RestStock ==
  ASSUME StockInv, UNCHANGED <<storeVars, serviceVars>>, Outside'
  PROVE  StockInv'
<1>1. UNCHANGED <<rowVars, skuLock, handler>> BY DEF storeVars, serviceVars, lockVars
<1>2. UNCHANGED <<stock, threshold>> BY <1>1 DEF rowVars
<1>3. \A g \in Handlers : HoldsSkus(g)' /\ SeenIsStock(g)'
  BY <1>1, <1>2 DEF StockInv, HoldsSkus, SeenIsStock
<1> QED BY <1>1, <1>3, RowTypesKept DEF StockInv

LEMMA RelayOutside ==
  ASSUME RelayInv, StockInv, UNCHANGED <<storeVars, serviceVars>>, RelayNext
  PROVE  Outside'
<1>1. UNCHANGED <<outbox, answers>> BY DEF storeVars, serviceVars, rowVars
<1>2. Outside /\ DOMAIN relay = Relays BY DEF StockInv, RelayInv
<1>3. PICK b \in Relays : Relay(b) \/ DeliveryFails(b) \/ Lost(b) BY DEF RelayNext
<1>4. \A a \in Relays \ {b} : relay'[a] = relay[a]
  BY <1>2, <1>3 DEF Relay, Takes, Delivers, Acknowledges, DeliveryFails, Lost
<1>5. CASE Takes(b) BY <1>1, <1>2, <1>4, <1>5 DEF Takes, Outside
<1>6. CASE Delivers(b) BY <1>1, <1>2, <1>4, <1>6 DEF Delivers, Outside, Waiting
<1>7. CASE Acknowledges(b) BY <1>1, <1>2, <1>4, <1>7 DEF Acknowledges, Outside, Waiting
<1>8. CASE DeliveryFails(b) BY <1>1, <1>2, <1>4, <1>8 DEF DeliveryFails, Outside, Waiting
<1>9. CASE Lost(b) BY <1>1, <1>2, <1>4, <1>9 DEF Lost, Outside, Waiting
<1> QED BY <1>3, <1>5, <1>6, <1>7, <1>8, <1>9 DEF Relay

LEMMA StockInit == Init => StockInv
<1> SUFFICES ASSUME Init PROVE StockInv
  OBVIOUS
<1>1. StockOK BY StockAssumption DEF Init, StoreInit, StockOK
<1>2. RowTypes BY DEF Init, StoreInit, RowTypes
<1>3. Outside BY DEF Init, StoreInit, ServiceInit, RelayInit, Outside
<1>4. \A h \in Handlers : HoldsSkus(h) /\ SeenIsStock(h)
  BY DEF Init, ServiceInit, HoldsSkus, SeenIsStock, Idle
<1> QED BY <1>1, <1>2, <1>3, <1>4 DEF StockInv

LEMMA StockNext == IInv /\ StockInv /\ [Next]_vars => StockInv'
<1> SUFFICES ASSUME IInv, StockInv, [Next]_vars PROVE StockInv'
  OBVIOUS
<1>1. Locks /\ Knowledge /\ Rows /\ RelayInv BY DEF IInv
<1>2. CASE ServiceNext /\ UNCHANGED relayVars BY <1>1, <1>2, ServiceStock
<1>3. CASE RelayNext /\ UNCHANGED <<storeVars, serviceVars>>
  BY <1>1, <1>3, RelayOutside, RestStock
<1>4. CASE UNCHANGED vars
  <2>1. UNCHANGED <<storeVars, serviceVars, relayVars>> BY <1>4 DEF vars
  <2>2. UNCHANGED <<outbox, answers>> BY <2>1 DEF storeVars, serviceVars, rowVars
  <2>3. Outside' BY <2>1, <2>2, OutsideKept DEF StockInv, Outside
  <2> QED BY <2>1, <2>3, RestStock
<1> QED BY <1>2, <1>3, <1>4 DEF Next

\* What a handler read under its locks is the stock until it commits, and what it
\* takes out is covered (inventory_service.py, _lock_skus and _stock_quantity).
THEOREM StockInvariant == Spec => []StockInv
BY StockInit, StockNext, InductiveInvariant, PTL DEF Spec

\* Every row and every lock stays in its domain, and no interleaving of exits, orders and
\* added dispatches takes the stock below zero.
THEOREM NothingIsOversold == Spec => []TypeOK
<1>1. IInv /\ StockInv => TypeOK
  <2> SUFFICES ASSUME IInv, StockInv PROVE TypeOK
    OBVIOUS
  <2>1. Locks /\ StockOK /\ RowTypes /\ Outside BY DEF IInv, StockInv
  <2>2. ASSUME NEW h \in Handlers
        PROVE  \/ handler[h] = Idle
               \/ handler[h] \in [at : {"keys", "skus"}, cmd : Commands,
                                  todo : SUBSET (Ids \cup SKUs), new : SUBSET Items]
               \/ /\ handler[h].at = "write"
                  /\ handler[h].cmd \in Commands /\ handler[h].new \subseteq Items
                  /\ handler[h].seen.now \in Nat
                  /\ \A s \in SkusOf(Cmd(h), handler[h].new) :
                       /\ handler[h].seen.stock[s] \in Nat
                       /\ handler[h].seen.threshold[s] \in Nat \cup {NoThreshold}
    <3>1. HandlerOK(h) BY <2>1 DEF Locks
    <3>2. CASE handler[h] = Idle BY <3>2
    <3>3. CASE handler[h].at = "keys"
      <4>1. /\ handler[h].cmd \in Commands /\ handler[h].todo \subseteq Keys(handler[h].cmd)
            /\ handler[h] = [at |-> "keys", cmd |-> handler[h].cmd, todo |-> handler[h].todo,
                             new |-> {}]
        BY <3>1, <3>3 DEF HandlerOK, Idle
      <4>2. handler[h].todo \subseteq Ids BY <4>1, KeysAreIds
      <4>3. handler[h] \in [at : {"keys", "skus"}, cmd : Commands,
                            todo : SUBSET (Ids \cup SKUs), new : SUBSET Items]
        BY <4>1, <4>2
      <4> QED BY <4>3
    <3>4. CASE handler[h].at = "skus"
      <4>1. /\ handler[h].cmd \in Commands /\ handler[h].new \in SUBSET Items
            /\ handler[h].todo \subseteq SkusOf(handler[h].cmd, handler[h].new)
            /\ handler[h] = [at |-> "skus", cmd |-> handler[h].cmd, todo |-> handler[h].todo,
                             new |-> handler[h].new]
        BY <3>1, <3>4 DEF HandlerOK, Idle
      <4>2. handler[h].todo \subseteq SKUs BY <4>1, SkusAreSKUs
      <4>3. handler[h] \in [at : {"keys", "skus"}, cmd : Commands,
                            todo : SUBSET (Ids \cup SKUs), new : SUBSET Items]
        BY <4>1, <4>2
      <4> QED BY <4>3
    <3>5. CASE handler[h].at = "write"
      <4>1. handler[h].cmd \in Commands /\ handler[h].new \in SUBSET Items
        BY <3>1, <3>5 DEF HandlerOK, Idle
      <4>2. SkusOf(handler[h].cmd, handler[h].new) \subseteq SKUs BY <4>1, SkusAreSKUs
      <4>3. handler[h].seen.now \in Nat
        BY <3>5 DEF IInv, Knowledge, OwnTime, Rows, CheckpointFacts
      <4>4. SeenIsStock(h) BY DEF StockInv
      <4>5. \A s \in SkusOf(Cmd(h), handler[h].new) :
              /\ handler[h].seen.stock[s] \in Nat
              /\ handler[h].seen.threshold[s] \in Nat \cup {NoThreshold}
        BY <2>1, <3>5, <4>2, <4>4 DEF SeenIsStock, StockOK, Cmd
      <4> QED BY <3>5, <4>1, <4>3, <4>5
    <3> QED BY <3>1, <3>2, <3>3, <3>4, <3>5 DEF HandlerOK
  <2> QED BY <2>1, <2>2 DEF TypeOK, StockOK, RowTypes, Outside, Locks
<1> QED BY <1>1, InductiveInvariant, StockInvariant, PTL

-----------------------------------------------------------------------------
(* What the rows of a commit say of the stock. *)

\* Only a commit changes the stock or adds a checkpoint or a count.
LEMMA OnlyCommits ==
  ASSUME IInv, StockInv, [Next]_vars
  PROVE  \/ UNCHANGED <<stock, threshold, counts, checkpoints>>
         \/ \E h \in Handlers : Commits(h)
<1>1. CASE ServiceNext
  <2>1. PICK h \in Handlers : (\E c \in Commands : Receive(h, c)) \/ Serve(h) \/ Fails(h)
    BY <1>1 DEF ServiceNext
  <2>2. CASE \E c \in Commands : Receive(h, c) BY <2>2 DEF Receive, storeVars, rowVars
  <2>3. CASE LocksKey(h) BY <2>3 DEF LocksKey, rowVars
  <2>4. CASE Look(h) BY <2>4 DEF Look, rowVars
  <2>5. CASE LocksSku(h) BY <2>5 DEF LocksSku, rowVars
  <2>6. CASE Read(h) BY <2>6 DEF Read, rowVars
  <2>7. CASE Commits(h) BY <2>7
  <2>8. CASE Fails(h) BY <2>8 DEF Fails, rowVars
  <2> QED BY <2>1, <2>2, <2>3, <2>4, <2>5, <2>6, <2>7, <2>8 DEF Serve
<1>2. CASE RelayNext /\ UNCHANGED <<storeVars, serviceVars>> BY <1>2 DEF storeVars, rowVars
<1>3. CASE UNCHANGED vars BY <1>3 DEF vars, storeVars, rowVars
<1> QED BY <1>1, <1>2, <1>3 DEF Next

Tells ==
  /\ \A s \in SKUs :
       LET new == {k \in checkpoints' \ checkpoints : k.sku = s} IN
       new # {} => /\ \E k \in new : k.before = stock[s]
                   /\ \E k \in new : k.after = stock'[s]
  /\ \A k \in counts' \ counts : k.expected = stock[k.sku]

LEMMA StepTells == IInv /\ StockInv /\ [Next]_vars => Tells
<1> SUFFICES ASSUME IInv, StockInv, [Next]_vars PROVE Tells
  OBVIOUS
<1>1. Locks /\ Knowledge /\ Rows /\ StockOK /\ RowTypes BY DEF IInv, StockInv
<1>2. CASE UNCHANGED <<stock, threshold, counts, checkpoints>> BY <1>2 DEF Tells
<1>3. ASSUME NEW h \in Handlers, Commits(h) PROVE Tells
  <2>1. CASE \E moves, seen : Moving(h, moves, seen)
    <3>1. PICK moves, seen : Moving(h, moves, seen) BY <2>1
    <3>2. counts' = counts BY <3>1 DEF Moving
    <3>3. ASSUME NEW s \in SKUs, {k \in checkpoints' \ checkpoints : k.sku = s} # {}
          PROVE  /\ \E k \in checkpoints' \ checkpoints : k.sku = s /\ k.before = stock[s]
                 /\ \E k \in checkpoints' \ checkpoints : k.sku = s /\ k.after = stock'[s]
      BY <1>1, <3>1, <3>3, MovingTells
    <3> QED BY <3>2, <3>3 DEF Tells
  <2>2. CASE SetsThreshold(h) BY <2>2 DEF SetsThreshold, Tells
  <2>3. CASE RecordsCount BY <2>3 DEF RecordsCount, Tells
  <2> QED BY <1>1, <1>3, <2>1, <2>2, <2>3, CommitsMove
<1> QED BY <1>2, <1>3, OnlyCommits

\* The checkpoints of a command lead from the stock before it to the stock after it, and a
\* count expected what there was (_record_threshold_evaluation, expected_quantity).
THEOREM CheckpointsTellTheStock == Spec => RowsTellTheStock
<1>1. IInv /\ StockInv /\ [Next]_vars => [Tells]_vars BY StepTells
<1> QED BY <1>1, InductiveInvariant, StockInvariant, PTL DEF Spec, RowsTellTheStock, Tells

Announces ==
  \A s \in SKUs :
    Cardinality({k \in checkpoints' \ checkpoints : k.sku = s /\ k.crossed}) =
    IF /\ threshold[s] # NoThreshold
       /\ stock[s] > threshold[s] /\ stock'[s] <= threshold[s]
    THEN 1 ELSE 0

\* Nothing is announced when no checkpoint is added and the stock stays.
LEMMA QuietStep ==
  ASSUME StockOK, UNCHANGED <<stock, checkpoints>>
  PROVE  Announces
<1> SUFFICES ASSUME NEW s \in SKUs
             PROVE  Cardinality({k \in checkpoints' \ checkpoints : k.sku = s /\ k.crossed}) =
                    IF /\ threshold[s] # NoThreshold
                       /\ stock[s] > threshold[s] /\ stock'[s] <= threshold[s]
                    THEN 1 ELSE 0
  BY DEF Announces
<1>1. {k \in checkpoints' \ checkpoints : k.sku = s /\ k.crossed} = {} OBVIOUS
<1>2. Cardinality({k \in checkpoints' \ checkpoints : k.sku = s /\ k.crossed}) = 0
  BY <1>1, FS_EmptySet
<1>3. ~ (/\ threshold[s] # NoThreshold
         /\ stock[s] > threshold[s] /\ stock'[s] <= threshold[s])
  BY DEF StockOK
<1> QED BY <1>2, <1>3

LEMMA StepAnnounces == IInv /\ StockInv /\ [Next]_vars => Announces
<1> SUFFICES ASSUME IInv, StockInv, [Next]_vars PROVE Announces
  OBVIOUS
<1>1. Locks /\ Knowledge /\ Rows /\ StockOK /\ RowTypes BY DEF IInv, StockInv
<1>2. CASE UNCHANGED <<stock, threshold, counts, checkpoints>> BY <1>1, <1>2, QuietStep
<1>3. ASSUME NEW h \in Handlers, Commits(h) PROVE Announces
  <2>1. CASE \E moves, seen : Moving(h, moves, seen)
    <3>1. PICK moves, seen : Moving(h, moves, seen) BY <2>1
    <3> QED BY <1>1, <3>1, MovingAnnounces DEF Announces
  <2>2. CASE SetsThreshold(h) BY <1>1, <2>2, QuietStep DEF SetsThreshold
  <2>3. CASE RecordsCount BY <1>1, <2>3, QuietStep DEF RecordsCount
  <2> QED BY <1>1, <1>3, <2>1, <2>2, <2>3, CommitsMove
<1> QED BY <1>2, <1>3, OnlyCommits

\* A stock that comes down to its threshold crosses it in exactly one checkpoint, however
\* many dispatches of an order took it there (_threshold_event).
THEOREM CrossingsAreAnnounced == Spec => CrossingIsAnnounced
<1>1. IInv /\ StockInv /\ [Next]_vars => [Announces]_vars BY StepAnnounces
<1> QED BY <1>1, InductiveInvariant, StockInvariant, PTL
        DEF Spec, CrossingIsAnnounced, Announces
=============================================================================
