---------------------------- MODULE MCTaskQueue -----------------------------
(***************************************************************************)
(* Symmetry set of TaskQueue for TLC: runs, workers and relays are         *)
(* interchangeable.  The liveness runs use no symmetry.                    *)
(***************************************************************************)
EXTENDS TaskQueue, TLC

Symmetry == Permutations(Runs) \cup Permutations(Workers) \cup Permutations(Relays)
=============================================================================
