----------------------------- MODULE RunHistory -----------------------------
(***************************************************************************)
(* What the row of a run and the server can say about its publication,     *)
(* without lease, staging or processes.  WeeklyPublication implements it,  *)
(* and the task queue, which only ever sees a run from outside, is built   *)
(* on it instead of on the whole publication.                              *)
(***************************************************************************)
EXTENDS RunStore

VARIABLE business   \* the COMMIT of each run's business transaction: "none",
                    \* "sent", "committed" or "aborted" by the server

historyVars == <<status, commitResult, business>>

HistoryInit == RunInit /\ business = [r \in Runs |-> "none"]

OpenRun(r) == CreateRun(r) /\ UNCHANGED business

\* The run ends before its business transaction: a failed stage, a gate, a lease
\* that was not granted or not verified, or a verification that raised.
WithholdPending(r) ==
  /\ \/ \E s \in Withheld : UpdateStatus(r, "pending", s)
     \/ UpdateRun(r, "pending", "failed_retryable", "uncertain")
  /\ UNCHANGED business

BeginPublication(r) ==
  /\ UpdateRun(r, "pending", "running", "uncommitted")
  /\ UNCHANGED business

\* The run ends inside its business transaction, before the COMMIT is sent.
WithholdRunning(r) ==
  /\ business[r] = "none"
  /\ \/ UpdateRun(r, "running", "blocked_quality", "rolled_back")
     \/ \E result \in {"rolled_back", "uncertain"} :
           UpdateRun(r, "running", "failed_retryable", result)
  /\ \/ UNCHANGED business
     \/ business' = [business EXCEPT ![r] = "aborted"]

CommitIsSent(r) ==
  /\ status[r] = "running"
  /\ business[r] = "none"
  /\ business' = [business EXCEPT ![r] = "sent"]
  /\ UNCHANGED runVars

CommitLands(r) ==
  /\ business[r] = "sent"
  /\ business' = [business EXCEPT ![r] = "committed"]
  /\ UNCHANGED runVars

\* The server ends the transaction without the COMMIT, sent or not.
TransactionAborts(r) ==
  /\ status[r] # "absent"
  /\ business[r] \in {"none", "sent"}
  /\ business' = [business EXCEPT ![r] = "aborted"]
  /\ UNCHANGED runVars

\* Nothing trustworthy was heard of the COMMIT, or a definite refusal was.
ObserveCommit(r) ==
  /\ \E result \in {"uncertain", "rolled_back"} :
        /\ result = "rolled_back" => business[r] = "aborted"
        /\ RecordCommitObservation(r, result)
  /\ UNCHANGED business

RecordSuccess(r) ==
  /\ business[r] = "committed"
  /\ \E s \in Successes : UpdateRun(r, "running", s, "technically_observed")
  /\ UNCHANGED business

HistoryNext ==
  \E r \in Runs :
    \/ OpenRun(r) \/ WithholdPending(r) \/ BeginPublication(r)
    \/ WithholdRunning(r) \/ CommitIsSent(r) \/ CommitLands(r)
    \/ TransactionAborts(r) \/ ObserveCommit(r) \/ RecordSuccess(r)

HistorySpec == HistoryInit /\ [][HistoryNext]_historyVars
=============================================================================
