-------------------------- MODULE MCWeeklyCoverage --------------------------
(* A small instance of WeeklyCoverage: one SKU with a client and a threshold, *)
(* which may be seeded with stock, and one without either.                    *)
EXTENDS WeeklyCoverage, TLC

CONSTANTS s1, s2, acme, gone1, gone2

MCSKUs        == {s1, s2}
MCOwnerOf     == (s1 :> acme) @@ (s2 :> NoOwner)
MCThresholdOf == (s1 :> 2) @@ (s2 :> NoThreshold)

Seed(week) == {[id |-> 1, table |-> "stockentry", sku |-> s1, quantity |-> 2, week |-> week,
                order |-> NoOrder]}

Row(id, service, type, identity, week) ==
  [id |-> id, service |-> service, type |-> type, identity |-> identity,
   owner |-> acme, quantity |-> 2, week |-> week]

\* Nothing; or stock seeded in the week and announced twice, beside orders that are
\* gone, one of which was announced in two weeks.
MCBeginnings ==
  {[movements |-> {}, telemetry |-> {}],
   [movements |-> Seed(1),
    telemetry |-> {Row(<<"history", 1>>, "api", "inbound", 1, 1),
                   Row(<<"history", 2>>, "api", "inbound", 1, 1),
                   Row(<<"history", 3>>, "api", "outbound", gone1, 1),
                   Row(<<"history", 4>>, "api", "outbound", gone2, 1),
                   Row(<<"history", 5>>, "api", "outbound", gone2, 2)}]}

\* A browser that reports an entry of its own.
MCForeign == {Row(<<"backoffice", 1>>, "backoffice", "inbound", 1, 1)}
=============================================================================
