-------------------------- MODULE WeeklyPublication --------------------------
(***************************************************************************)
(* The publication of one ISO week: the flow of pipelines/pipeline.py and  *)
(* the coordinator of pipelines/coordinator.py, for any number of runs of  *)
(* the same week (CLI, HTTP and repeated runs all reach this code).        *)
(*                                                                         *)
(* Every run writes through two connections.  The operational one commits  *)
(* each change of the run row by itself.  The business one holds a single  *)
(* transaction, from the verification of the lease to the COMMIT that      *)
(* makes the KPI rows, the publication pointer and the release of the      *)
(* lease visible together.  A process may die between any two steps, and   *)
(* the reply to a COMMIT may be lost before or after the server obeys it.  *)
(***************************************************************************)
EXTENDS WeekLease

CONSTANTS Keys,       \* (warehouse, client_id) pairs of the week
          Kpis,       \* KPI tuples a row can hold
          NoRow,      \* the table, or a batch, has no row for a key
          MaxVersion  \* bound on the number of changes of the source events

ASSUME NoRowAssumption == NoRow \notin Kpis
ASSUME VersionAssumption == MaxVersion \in Nat

VARIABLES
  pc,            \* where the flow of each run stands
  token,         \* fencing token of the ConfirmedLeaseRight of each run
  batch,         \* aggregates each run calculated, and from which version
  batchVersion,
  changes,       \* what staging counted: inserted + updated > 0
  rows,          \* committed rows of weekly_warehouse_client_performance
  source,        \* what the week's source events aggregate to now
  sourceVersion,
  commitSent,    \* the lock holder's COMMIT is on its way to the server
  outcome        \* how the server ended the business transaction of each run

flowVars   == <<pc, token, batch, batchVersion, changes>>
sourceVars == <<source, sourceVersion>>
serverVars == <<rows, commitSent, outcome>>
vars == <<runVars, controlVars, flowVars, sourceVars, serverVars>>

Aggregates == [Keys -> Kpis \cup {NoRow}]
EmptyBatch == [k \in Keys |-> NoRow]

\* Flows that have not reached the business transaction, flows inside it, and
\* flows that are over: returned a result, or died with an exception.
Preparing == {"idle", "extract", "gate", "lease", "verify"}
InsideTransaction == {"mark", "stage", "commit"}
Over == {"returned", "died"}

Init ==
  /\ RunInit
  /\ LeaseInit
  /\ pc = [r \in Runs |-> "idle"]
  /\ token = [r \in Runs |-> 0]
  /\ batch = [r \in Runs |-> EmptyBatch]
  /\ batchVersion = [r \in Runs |-> 0]
  /\ changes = [r \in Runs |-> FALSE]
  /\ rows = EmptyBatch
  /\ source \in Aggregates
  /\ sourceVersion = 0
  /\ commitSent = FALSE
  /\ outcome = [r \in Runs |-> "none"]

Goto(r, from, to) == pc[r] = from /\ pc' = [pc EXCEPT ![r] = to]

-----------------------------------------------------------------------------
(* The flow of one run. *)

\* create_run_task: the row is committed before any external work.
Create(r) ==
  /\ Goto(r, "idle", "extract")
  /\ CreateRun(r)
  /\ UNCHANGED <<controlVars, token, batch, batchVersion, changes,
                 sourceVars, serverVars>>

\* The extraction takes its snapshot, and the calculation reads only it.
Extract(r) ==
  /\ Goto(r, "extract", "gate")
  /\ batch' = [batch EXCEPT ![r] = source]
  /\ batchVersion' = [batchVersion EXCEPT ![r] = sourceVersion]
  /\ UNCHANGED <<runVars, controlVars, token, changes, sourceVars, serverVars>>

\* fail_run_task: relay, coverage audit, extraction or calculation failed.
FailRun(r) ==
  /\ Goto(r, "extract", "returned")
  /\ UpdateStatus(r, "pending", "failed_retryable")
  /\ UNCHANGED <<controlVars, token, batch, batchVersion, changes,
                 sourceVars, serverVars>>

\* quality_gate_task.  Quality and coverage verdicts are data of the events;
\* an empty batch is never certified.
QualityGate(r) ==
  /\ \/ /\ Goto(r, "gate", "lease")
        /\ batch[r] # EmptyBatch
        /\ UNCHANGED runVars
     \/ /\ Goto(r, "gate", "returned")
        /\ UpdateStatus(r, "pending", "blocked_quality")
  /\ UNCHANGED <<controlVars, token, batch, batchVersion, changes,
                 sourceVars, serverVars>>

\* acquire_lease_task: a grant, or a conflict recorded in the transaction
\* that saw it.
AcquireLease(r) ==
  /\ \/ /\ Goto(r, "lease", "verify")
        /\ GrantLease(r)
        /\ token' = [token EXCEPT ![r] = fencingToken']
        /\ UNCHANGED runVars
     \/ /\ Goto(r, "lease", "returned")
        /\ RowIsFree /\ ~Grantable
        /\ UpdateStatus(r, "pending", "skipped_in_progress")
        /\ UNCHANGED <<controlVars, token>>
  /\ UNCHANGED <<batch, batchVersion, changes, sourceVars, serverVars>>

\* verify_week_lease opens the business transaction's hold on the week.
VerifyLease(r) ==
  /\ Goto(r, "verify", "mark")
  /\ LeaseVerified(r, token[r])
  /\ LockRow(r)
  /\ UNCHANGED <<runVars, leaseVars, lastValidRun, token, batch, batchVersion,
                 changes, sourceVars, serverVars>>

\* rollback() after a verification that took the row lock but brought no right
\* to publish.  When the rollback cannot reach the server the row stays locked
\* until the server notices (ServerAborts).
LetGo(r) == UNCHANGED lockHolder \/ LockRow(r)

\* Mutant: only a lease held by another run counts as lost.
RejectLease_OnlyIfOccupied(r) ==
  /\ Goto(r, "verify", "returned")
  /\ RowIsFree
  /\ ownerRun \notin {r, NoRun}
  /\ UpdateRun(r, "pending", "skipped_in_progress", "not_attempted")
  /\ LetGo(r)
  /\ UNCHANGED <<leaseVars, lastValidRun, token, batch, batchVersion, changes,
                 sourceVars, serverVars>>

\* The lease was lost: the lock is let go and the loss is recorded.
RejectLease(r) ==
  /\ Goto(r, "verify", "returned")
  /\ RowIsFree
  /\ ~LeaseVerified(r, token[r])
  /\ UpdateRun(r, "pending",
               IF ownerRun \notin {r, NoRun} THEN "skipped_in_progress"
                                             ELSE "superseded",
               "not_attempted")
  /\ LetGo(r)
  /\ UNCHANGED <<leaseVars, lastValidRun, token, batch, batchVersion, changes,
                 sourceVars, serverVars>>

\* The verification statement itself failed (ConcurrencyError).
VerificationFails(r) ==
  /\ Goto(r, "verify", "returned")
  /\ UpdateRun(r, "pending", "failed_retryable", "uncertain")
  /\ LetGo(r)
  /\ UNCHANGED <<leaseVars, lastValidRun, token, batch, batchVersion, changes,
                 sourceVars, serverVars>>

\* _mark_running, committed on the operational connection.
MarkRunning(r) ==
  /\ Goto(r, "mark", "stage")
  /\ UpdateRun(r, "pending", "running", "uncommitted")
  /\ UNCHANGED <<controlVars, token, batch, batchVersion, changes,
                 sourceVars, serverVars>>

\* Published keys the calculated batch no longer has.
Disappeared(r) == {k \in Keys : rows[k] # NoRow /\ batch[r][k] = NoRow}

\* The multi-row UPSERT: it writes the keys of the batch and deletes none.
Upsert(r) == [k \in Keys |-> IF batch[r][k] = NoRow THEN rows[k] ELSE batch[r][k]]

\* rollback() on the business connection: it reaches the server, or it fails and
\* the server keeps the transaction, row lock included, until it notices.
RollsBack(r) == /\ UnlockRow(r)
                /\ outcome' = [outcome EXCEPT ![r] = "aborted"]
Rollback(r) == RollsBack(r) \/ UNCHANGED <<lockHolder, outcome>>

\* What every abandoned publication leaves untouched.
NothingPublished == UNCHANGED <<leaseVars, lastValidRun, token, batch, batchVersion,
                                changes, sourceVars, rows, commitSent>>

\* Mutant: published keys missing from the batch are overlooked.
Stage_WithoutReconciliation(r) ==
  /\ Goto(r, "stage", "commit")
  /\ changes' = [changes EXCEPT ![r] = Upsert(r) # rows]
  /\ UNCHANGED <<runVars, controlVars, token, batch, batchVersion,
                 sourceVars, serverVars>>

\* Mutant: every row the UPSERT names is counted as updated.
Stage_CountingEveryRow(r) ==
  /\ Goto(r, "stage", "commit")
  /\ Disappeared(r) = {}
  /\ changes' = [changes EXCEPT ![r] = batch[r] # EmptyBatch]
  /\ UNCHANGED <<runVars, controlVars, token, batch, batchVersion,
                 sourceVars, serverVars>>

\* _stage_weekly_upsert: rows written, not committed; counts from the pre-image.
Stage(r) ==
  /\ Goto(r, "stage", "commit")
  /\ Disappeared(r) = {}
  /\ changes' = [changes EXCEPT ![r] = Upsert(r) # rows]
  /\ UNCHANGED <<runVars, controlVars, token, batch, batchVersion,
                 sourceVars, serverVars>>

\* A reconciliation conflict: published keys are never deleted.
ReconciliationConflict(r) ==
  /\ Goto(r, "stage", "returned")
  /\ Disappeared(r) # {}
  /\ UpdateRun(r, "running", "blocked_quality", "rolled_back")
  /\ Rollback(r)
  /\ NothingPublished

\* The read of the published keys failed with the connection alive.  Staging
\* reports it as "blocked" too, and the coordinator keeps that verdict.
ReconciliationReadFails(r) ==
  /\ Goto(r, "stage", "returned")
  /\ UpdateRun(r, "running", "blocked_quality", "rolled_back")
  /\ Rollback(r)
  /\ NothingPublished

\* Connection failures, and failures of the UPSERT: the rollback was observed,
\* or it was not and is tried once more.
StageFails(r) ==
  /\ Goto(r, "stage", "returned")
  /\ \/ /\ UpdateRun(r, "running", "failed_retryable", "rolled_back")
        /\ RollsBack(r)
     \/ /\ UpdateRun(r, "running", "failed_retryable", "uncertain")
        /\ Rollback(r)
  /\ NothingPublished

\* Recording the publication or releasing the lease raised.
MetadataFails(r) ==
  /\ Goto(r, "commit", "returned")
  /\ UpdateRun(r, "running", "failed_retryable", "rolled_back")
  /\ Rollback(r)
  /\ NothingPublished

\* Pointer and release are written, the release found its lease: COMMIT is sent.
SendCommit(r) ==
  /\ Goto(r, "commit", "await")
  /\ OwnsLease(r, token[r])
  /\ commitSent' = TRUE
  /\ UNCHANGED <<runVars, controlVars, token, batch, batchVersion, changes,
                 sourceVars, rows, outcome>>

\* The coordinator hears that the COMMIT succeeded.
CommitAcknowledged(r) ==
  /\ Goto(r, "await", "finish")
  /\ outcome[r] = "committed"
  /\ UNCHANGED <<runVars, controlVars, token, batch, batchVersion, changes,
                 sourceVars, serverVars>>

\* Mutant: a COMMIT nobody confirmed ends the run as failed.
CommitUnconfirmed_IsFailure(r) ==
  /\ Goto(r, "await", "returned")
  /\ UpdateRun(r, "running", "failed_retryable", "uncertain")
  /\ UNCHANGED <<controlVars, token, batch, batchVersion, changes,
                 sourceVars, serverVars>>

\* It hears a definite refusal, or nothing it can trust; neither is a verdict
\* on the run, which stays running.
CommitUnconfirmed(r) ==
  /\ \E result \in {"uncertain", "rolled_back"} :
        /\ result = "rolled_back" => outcome[r] = "aborted"
        /\ \/ /\ Goto(r, "await", "returned")
              /\ RecordCommitObservation(r, result)
           \/ /\ Goto(r, "await", "died")
              /\ status[r] # "running"
              /\ UNCHANGED runVars
  /\ UNCHANGED <<controlVars, token, batch, batchVersion, changes,
                 sourceVars, serverVars>>

\* _finish_run after the COMMIT; a run somebody already resolved raises.
FinishRun(r) ==
  /\ \/ /\ Goto(r, "finish", "returned")
        /\ UpdateRun(r, "running",
                     IF changes[r] THEN "succeeded" ELSE "succeeded_noop",
                     "technically_observed")
     \/ /\ Goto(r, "finish", "died")
        /\ status[r] # "running"
        /\ UNCHANGED runVars
  /\ UNCHANGED <<controlVars, token, batch, batchVersion, changes,
                 sourceVars, serverVars>>

\* Steps a live process takes as soon as it can, and steps that need a failure.
LiveStep(r) ==
  \/ Extract(r) \/ QualityGate(r) \/ AcquireLease(r) \/ VerifyLease(r)
  \/ RejectLease(r) \/ MarkRunning(r) \/ Stage(r) \/ ReconciliationConflict(r)
  \/ SendCommit(r) \/ CommitAcknowledged(r) \/ CommitUnconfirmed(r) \/ FinishRun(r)

FailureStep(r) ==
  \/ FailRun(r) \/ VerificationFails(r) \/ ReconciliationReadFails(r)
  \/ StageFails(r) \/ MetadataFails(r)

-----------------------------------------------------------------------------
(* Everything that happens around a flow. *)

\* The process dies, or an exception nobody handles ends the flow.
Crash(r) ==
  /\ pc[r] \notin Over \cup {"idle"}
  /\ pc' = [pc EXCEPT ![r] = "died"]
  /\ UNCHANGED <<runVars, controlVars, token, batch, batchVersion, changes,
                 sourceVars, serverVars>>

\* Mutant: no evidence in the pointer is taken for a failure.
ResolveUncertain_WithoutEvidenceFails(r) ==
  /\ IF lastValidRun = r
     THEN UpdateRun(r, "running", "succeeded", "technically_observed")
     ELSE UpdateRun(r, "running", "failed_retryable", "uncertain")
  /\ UNCHANGED <<controlVars, flowVars, sourceVars, serverVars>>

\* resolve_uncertain_publication(persist=True): the pointer is the evidence.
ResolveUncertain(r) ==
  /\ IF lastValidRun = r
     THEN UpdateRun(r, "running", "succeeded", "technically_observed")
     ELSE RecordCommitObservation(r, "uncertain")
  /\ UNCHANGED <<controlVars, flowVars, sourceVars, serverVars>>

\* PostgreSQL obeys the COMMIT of the business transaction.
ServerCommits(r) ==
  /\ commitSent
  /\ UnlockRow(r)
  /\ rows' = Upsert(r)
  /\ RecordValidPublication(r)
  /\ ReleaseLease(r, token[r])
  /\ outcome' = [outcome EXCEPT ![r] = "committed"]
  /\ commitSent' = FALSE
  /\ UNCHANGED <<runVars, flowVars, sourceVars>>

\* PostgreSQL refuses the COMMIT, or notices that the client is gone.
ServerAborts(r) ==
  /\ commitSent \/ pc[r] \in Over
  /\ UnlockRow(r)
  /\ outcome' = [outcome EXCEPT ![r] = "aborted"]
  /\ commitSent' = FALSE
  /\ UNCHANGED <<runVars, leaseVars, lastValidRun, flowVars, sourceVars, rows>>

LeaseTimeout == ExpireLease /\ UNCHANGED <<runVars, flowVars, sourceVars, serverVars>>

\* A late event or a correction changes what the week aggregates to.
SourceChanges ==
  /\ sourceVersion < MaxVersion
  /\ \E k \in Keys, v \in Kpis \cup {NoRow} :
        /\ v # source[k]
        /\ source' = [source EXCEPT ![k] = v]
  /\ sourceVersion' = sourceVersion + 1
  /\ UNCHANGED <<runVars, controlVars, flowVars, serverVars>>

Next ==
  \/ \E r \in Runs : \/ Create(r) \/ LiveStep(r) \/ FailureStep(r)
                     \/ Crash(r) \/ ResolveUncertain(r)
                     \/ ServerCommits(r) \/ ServerAborts(r)
  \/ LeaseTimeout
  \/ SourceChanges

\* A process that is alive takes its next step without waiting for a failure,
\* PostgreSQL ends every transaction it holds, and clocks advance.  Nobody is
\* obliged to start a run, to fail, to crash, to resolve or to change the source.
Fairness ==
  /\ \A r \in Runs : WF_vars(LiveStep(r))
  /\ \A r \in Runs : WF_vars(ServerCommits(r) \/ ServerAborts(r))
  /\ WF_vars(LeaseTimeout)

Spec == Init /\ [][Next]_vars
FairSpec == Spec /\ Fairness

-----------------------------------------------------------------------------
(* What must hold.  The proofs are in WeeklyPublication_proofs. *)

\* A business transaction that passed the verification of the lease and can
\* still be committed.
Publishing(r) == /\ lockHolder = r
                 /\ pc[r] \in InsideTransaction \cup {"await"} \/ commitSent

CommitInDoubt(r) == commitSent /\ lockHolder = r

\* Every column, and every local of a run, stays in its domain.
TypeOK ==
  /\ RunTypeOK
  /\ LeaseTypeOK
  /\ pc \in [Runs -> Preparing \cup InsideTransaction \cup {"await", "finish"} \cup Over]
  /\ token \in [Runs -> Nat]
  /\ batch \in [Runs -> Aggregates]
  /\ batchVersion \in [Runs -> 0 .. MaxVersion]
  /\ changes \in [Runs -> BOOLEAN]
  /\ rows \in Aggregates
  /\ source \in Aggregates
  /\ sourceVersion \in 0 .. MaxVersion
  /\ commitSent \in BOOLEAN
  /\ outcome \in [Runs -> {"none", "committed", "aborted"}]

\* The weekly table is exactly what the run behind the publication pointer
\* calculated: an UPSERT that deletes nothing never leaves a mix of two runs,
\* whatever crashes between staging, pointer and COMMIT.
PublicationIsAtomic ==
  IF lastValidRun = NoRun THEN rows = EmptyBatch ELSE rows = batch[lastValidRun]

\* The run history never contradicts the server.  A success was committed; a
\* withheld run and an observed rollback were not, and no COMMIT that could
\* still land is on its way.
VerdictMatchesCommit ==
  \A r \in Runs :
    /\ status[r] \in Successes => outcome[r] = "committed"
    /\ status[r] \in Withheld \/ commitResult[r] = "rolled_back" =>
         outcome[r] # "committed" /\ ~CommitInDoubt(r)

\* From verification to COMMIT the transaction keeps owner and token, even
\* when the lease expires meanwhile: the release inside it cannot miss, and
\* the "lease_release_rejected" branch of the coordinator is dead.
FencedWriter == \A r \in Runs : Publishing(r) => OwnsLease(r, token[r])

\* The counts taken while staging still describe the COMMIT when it lands: it
\* changes rows exactly when they were not all "unchanged".
CountsDescribeCommit ==
  [][\A r \in Runs : outcome[r] = "none" /\ outcome'[r] = "committed" =>
        (rows' # rows <=> changes[r])]_vars

\* Publications land in the order of their fencing tokens: a run that was
\* overtaken by a recovered lease never moves the pointer back to itself.
PublishInTokenOrder ==
  [][\A r \in Runs : outcome[r] = "committed" /\ lastValidRun' # lastValidRun =>
        token[r] < token[lastValidRun']]_vars

\* Whatever the others do, the flow of a run that started returns or dies.
EveryFlowEnds == \A r \in Runs : pc[r] # "idle" ~> pc[r] \in Over

\* Crashes, lost replies and unreleased leases never close a week for good:
\* again and again somebody could be granted its lease.
WeekIsNeverStuck == []<>(RowIsFree /\ Grantable)

\* The promise of WeeklyReport, seen through the tables.
Committed == {r \in Runs : outcome[r] = "committed"}
Verdict == [r \in Runs |-> IF status[r] \in Successes THEN "published"
                           ELSE IF status[r] \in Withheld THEN "withheld"
                           ELSE "none"]

Report == INSTANCE WeeklyReport WITH
  Reports <- Aggregates, EmptyReport <- EmptyBatch,
  calculation <- batch, report <- rows, publisher <- lastValidRun,
  published <- Committed, verdict <- Verdict

ImplementsReport == Report!Spec

\* What the rest of the system sees of a run: its row, and whether its COMMIT
\* was sent and what became of it.  The task queue relies on no more than this.
Business == [r \in Runs |-> IF outcome[r] # "none" THEN outcome[r]
                            ELSE IF CommitInDoubt(r) THEN "sent" ELSE "none"]

History == INSTANCE RunHistory WITH business <- Business

ImplementsHistory == History!HistorySpec

-----------------------------------------------------------------------------
(* The inductive invariant behind the safety properties above. *)

\* The status of a run, and its calculation, follow the place of its flow.
LifecycleOf(r) ==
  /\ pc[r] = "idle" <=> status[r] = "absent"
  /\ pc[r] \in Preparing \cup {"mark"} => status[r] \in {"absent", "pending"}
  /\ pc[r] \in {"stage", "commit"} => status[r] = "running"
  /\ pc[r] \in {"idle", "extract"} => batch[r] = EmptyBatch
  /\ pc[r] \in {"lease", "verify"} \cup InsideTransaction => batch[r] # EmptyBatch
Lifecycle == \A r \in Runs : LifecycleOf(r)

\* The flow, the row lock and the server agree on where the transaction is.
TransactionOf(r) ==
  /\ lockHolder = r => outcome[r] = "none"
  /\ pc[r] \in Preparing => lockHolder # r /\ outcome[r] = "none"
  /\ pc[r] \in InsideTransaction => lockHolder = r /\ ~commitSent
  /\ pc[r] = "await" => \/ lockHolder = r /\ commitSent
                        \/ outcome[r] \in {"committed", "aborted"}
  /\ pc[r] = "finish" => outcome[r] = "committed"
Transaction == \A r \in Runs : TransactionOf(r)

\* A COMMIT on its way belongs to a run whose history is still open.
OpenWhileInDoubt ==
  commitSent => lockHolder # NoRun /\ status[lockHolder] = "running"

VerdictOf(r) ==
  /\ status[r] \in Successes => outcome[r] = "committed"
  /\ status[r] \in Withheld => outcome[r] # "committed"
  /\ commitResult[r] = "rolled_back" => status[r] \in Withheld \/ outcome[r] = "aborted"
Verdicts == \A r \in Runs : VerdictOf(r)

PointerIsCommitted == lastValidRun # NoRun => outcome[lastValidRun] = "committed"

\* Under the row lock, what staging saw stays true until the COMMIT.
StagedOf(r) ==
  lockHolder = r /\ (pc[r] = "commit" \/ commitSent) =>
    /\ Disappeared(r) = {}
    /\ batch[r] # EmptyBatch
    /\ changes[r] <=> Upsert(r) # rows
StagedStillTrue == \A r \in Runs : StagedOf(r)

\* No two grants share a token, and none is larger than the stored one.
TokensAreUnique ==
  /\ \A r \in Runs : token[r] <= fencingToken
  /\ \A r, s \in Runs : r # s /\ token[r] = token[s] => token[r] = 0
  /\ ownerRun # NoRun => fencingToken > 0

IInv == /\ TypeOK /\ Lifecycle /\ Transaction /\ OpenWhileInDoubt /\ Verdicts
        /\ PointerIsCommitted /\ PublicationIsAtomic /\ FencedWriter
        /\ StagedStillTrue /\ TokensAreUnique

=============================================================================
