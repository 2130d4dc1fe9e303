---------------------------- MODULE MCInventory -----------------------------
(* Two SKUs of one client and a legacy SKU.  The orders 1 and 5 want the same *)
(* stock, and by a mistake of their client a dispatch of each has the same id.*)
EXTENDS Inventory

CONSTANTS acme, noClient, noThreshold, noOne

MCSKUs == {1, 2, 3}
MCIds == 1 .. 8
MCClientOf == [s \in MCSKUs |-> IF s = 3 THEN noClient ELSE acme]
MCInitialStock == [s \in MCSKUs |-> IF s = 1 THEN 3 ELSE 2]
MCInitialThreshold == [s \in MCSKUs |-> IF s = 2 THEN noThreshold ELSE 1]

Item(id, sku, quantity) == [id |-> id, sku |-> sku, quantity |-> quantity]

MCCommands ==
  {[op |-> "create", order |-> 1, client |-> acme,
    items |-> {Item(2, 1, 1), Item(3, 2, 2)}],
   [op |-> "append", order |-> 1, items |-> {Item(3, 2, 2), Item(4, 1, 1)}],
   [op |-> "create", order |-> 5, client |-> acme,
    items |-> {Item(4, 1, 1), Item(6, 2, 1), Item(7, 1, 1)}],
   [op |-> "entry", sku |-> 1, quantity |-> 1],
   [op |-> "exit", sku |-> 1, quantity |-> 2],
   [op |-> "exit", sku |-> 3, quantity |-> 1],
   [op |-> "threshold", sku |-> 1, threshold |-> 2],
   [op |-> "count", id |-> 8, sku |-> 1, observed |-> 2]}
=============================================================================
