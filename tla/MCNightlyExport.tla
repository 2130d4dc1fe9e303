--------------------------- MODULE MCNightlyExport --------------------------
(* Two invocations for one date and one for another. *)
EXTENDS NightlyExport

CONSTANTS n1, n2, n3, monday, tuesday

MCInvocations == {n1, n2, n3}
MCTargetDate == [i \in MCInvocations |-> IF i = n3 THEN tuesday ELSE monday]
=============================================================================
