----------------------------- MODULE JobRunner ------------------------------
(***************************************************************************)
(* The durable claim of a background job: the statements of                *)
(* services/job_runner/service.py on job_runs and its two partial unique   *)
(* indexes (infra/sql/job_runs.sql).  The rows of one job are modelled.    *)
(*                                                                         *)
(* Every invocation brings the fresh id of its row, so an invocation       *)
(* stands for its row.  A row is inserted as pending and moved to          *)
(* processing in one transaction: no committed row is ever pending.        *)
(***************************************************************************)
CONSTANTS Invocations,  \* the invocations of the job, one row each at most
          TargetDate    \* the date each of them works on

VARIABLES jobStatus,    \* column status; "absent" before the insertion commits
          sent          \* the status an open transaction would commit, or "none"

jobVars == <<jobStatus, sent>>

JobStatus == {"absent", "processing", "completed", "failed"}

JobInit == /\ jobStatus = [i \in Invocations |-> "absent"]
           /\ sent = [i \in Invocations |-> "none"]

SameDate(i) == {j \in Invocations : TargetDate[j] = TargetDate[i]}

\* Mutant: the index on the date forgets the completed rows.
Claimed_OnlyProcessing(i) == \E j \in Invocations : jobStatus[j] = "processing"

\* The indexes refuse the row of i: the job is processing, or its date is done.
Claimed(i) == \/ \E j \in Invocations : jobStatus[j] = "processing"
              \/ \E j \in SameDate(i) : jobStatus[j] = "completed"

\* A row that enters or leaves "processing" holds an entry of the first index; who
\* needs that entry waits until the transaction ends.
IndexIsFree == \A j \in Invocations : sent[j] = "none"

\* Mutant: the row is inserted and not started.
SendAcquisition_Pending(i) ==
  /\ IndexIsFree /\ ~Claimed(i)
  /\ sent' = [sent EXCEPT ![i] = "pending"]
  /\ UNCHANGED jobStatus

\* acquire_job_run up to its COMMIT.
SendAcquisition(i) ==
  /\ IndexIsFree /\ ~Claimed(i)
  /\ sent' = [sent EXCEPT ![i] = "processing"]
  /\ UNCHANGED jobStatus

\* The row the compare-and-set of a terminal transition finds, once no other
\* transaction holds it.
Finishable(i) == sent[i] = "none" /\ jobStatus[i] = "processing"

\* complete_job_run and fail_job_run up to their COMMIT.
SendTransition(i, terminal) ==
  /\ Finishable(i)
  /\ sent' = [sent EXCEPT ![i] = terminal]
  /\ UNCHANGED jobStatus

\* The server obeys the COMMIT, or refuses it or notices that its client is gone.
ServerEnds(i) ==
  /\ sent[i] # "none"
  /\ jobStatus' \in {jobStatus, [jobStatus EXCEPT ![i] = sent[i]]}
  /\ sent' = [sent EXCEPT ![i] = "none"]
=============================================================================
