------------------------ MODULE MCWeeklyPublication ------------------------
(***************************************************************************)
(* WeeklyPublication for TLC: two runs of one week, two keys and two KPI   *)
(* values, one change of the source.  No symmetry, as the run checks       *)
(* liveness too.                                                           *)
(***************************************************************************)
EXTENDS WeeklyPublication
=============================================================================
