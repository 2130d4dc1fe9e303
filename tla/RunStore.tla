------------------------------ MODULE RunStore ------------------------------
(***************************************************************************)
(* The run history of pipelines/run_store.py: one durable row per attempt  *)
(* to publish a week, changed only by a compare-and-set on its status.     *)
(* Each operator below is one statement of the store; the transaction that *)
(* contains it belongs to the caller (WeeklyPublication).                  *)
(***************************************************************************)
CONSTANT Runs           \* the run_ids that ever exist for the modelled week

VARIABLES status,       \* column status; "absent" before the row is inserted
          commitResult  \* column commit_result: what is known of the COMMIT

runVars == <<status, commitResult>>

RunTransitions ==
  [pending |-> {"running", "skipped_in_progress", "superseded",
                "blocked_quality", "failed_retryable"},
   running |-> {"succeeded", "succeeded_noop", "failed_retryable",
                "blocked_quality", "superseded"}]

Active    == {"pending", "running"}
Successes == {"succeeded", "succeeded_noop"}
Withheld  == {"failed_retryable", "blocked_quality", "superseded",
              "skipped_in_progress"}
Terminal  == Successes \cup Withheld

RunStatus    == {"absent"} \cup Active \cup Terminal
CommitResult == {"not_attempted", "uncommitted", "uncertain", "rolled_back",
                 "technically_observed"}

RunInit == /\ status = [r \in Runs |-> "absent"]
           /\ commitResult = [r \in Runs |-> "not_attempted"]

CreateRun(r) ==
  /\ status[r] = "absent"
  /\ status' = [status EXCEPT ![r] = "pending"]
  /\ UNCHANGED commitResult

\* update_run: the row must still have the expected status, and the move must
\* be one the transition table allows.
UpdateRun(r, expected, new, result) ==
  /\ status[r] = expected
  /\ new \in RunTransitions[expected]
  /\ status' = [status EXCEPT ![r] = new]
  /\ commitResult' = [commitResult EXCEPT ![r] = result]

\* update_run without a commit_result argument keeps the stored one.
UpdateStatus(r, expected, new) == UpdateRun(r, expected, new, commitResult[r])

\* Mutant: the status of the flow's result is stored as the commit_result.
RecordCommitObservation_AsFlowStatus(r, result) ==
  /\ status[r] = "running"
  /\ commitResult' = [commitResult EXCEPT ![r] =
                        IF result = "uncertain" THEN "commit_uncertain" ELSE result]
  /\ UNCHANGED status

\* record_commit_observation: an unresolved COMMIT never changes the status.
RecordCommitObservation(r, result) ==
  /\ result \in {"uncertain", "uncommitted", "rolled_back"}
  /\ status[r] = "running"
  /\ commitResult' = [commitResult EXCEPT ![r] = result]
  /\ UNCHANGED status

RunTypeOK == /\ status \in [Runs -> RunStatus]
             /\ commitResult \in [Runs -> CommitResult]
=============================================================================
