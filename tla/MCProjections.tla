--------------------------- MODULE MCProjections ----------------------------
(* What the API shows of one SKU.  Its lists are kept for different times, and the *)
(* telemetry holds an event of each kind that the metrics tell apart.             *)
EXTENDS Projections

MCEventTypes == {"auth_login_failed", "auth_login_succeeded", "inventory_stock_insufficient"}
MCFailures   == {"auth_login_failed", "inventory_stock_insufficient"}
MCTTL        == [products |-> 2, orders |-> 1, report |-> 2]
MCMixes      == {{"products", "product"}, {"products", "orders"}, {"report"}}
=============================================================================
