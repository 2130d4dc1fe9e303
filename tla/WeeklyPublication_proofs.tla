---------------------- MODULE WeeklyPublication_proofs ----------------------
(***************************************************************************)
(* Proofs, for any set of runs, keys and KPI values, of what TLC checks    *)
(* for a few: the invariant IInv is inductive, it implies the properties   *)
(* of a weekly publication, and the publication implements WeeklyReport.   *)
(***************************************************************************)
EXTENDS WeeklyPublication, TLAPS

\* Columns and locals stay in their domains (pipelines/run_store.py validates
\* them on every write; here no action of the flow can leave them).
LEMMA TypeOKInit == Init => TypeOK
<1>. USE DEF TypeOK, RunTypeOK, LeaseTypeOK, RunStatus, CommitResult, Active,
         Terminal, Successes, Withheld, Aggregates, EmptyBatch, Preparing,
         InsideTransaction, Over
<1>. SUFFICES ASSUME Init PROVE TypeOK
  OBVIOUS
<1>1. RunTypeOK /\ LeaseTypeOK
  BY DEF Init, RunInit, LeaseInit
<1>2. batchVersion \in [Runs -> 0 .. MaxVersion] /\ sourceVersion \in 0 .. MaxVersion
  BY VersionAssumption DEF Init
<1>. QED
  BY <1>1, <1>2 DEF Init

\* No action of the flow, of the server or of the world leaves them.
LEMMA TypeOKStep == TypeOK /\ [Next]_vars => TypeOK'
<1>. USE DEF TypeOK, RunTypeOK, LeaseTypeOK, RunStatus, CommitResult, Active,
         Terminal, Successes, Withheld, Aggregates, EmptyBatch, Preparing,
         InsideTransaction, Over
<1>. SUFFICES ASSUME TypeOK, [Next]_vars PROVE TypeOK'
  OBVIOUS
<1>. USE DEF Goto, runVars, controlVars, leaseVars, sourceVars, serverVars, flowVars
<1>1. ASSUME NEW r \in Runs, Create(r) PROVE TypeOK'
  BY <1>1 DEF Create, CreateRun
<1>2. ASSUME NEW r \in Runs, LiveStep(r) PROVE TypeOK'
  <2>1. CASE Extract(r)
    BY <2>1 DEF Extract
  <2>2. CASE QualityGate(r)
    BY <2>2 DEF QualityGate, UpdateStatus, UpdateRun
  <2>3. CASE AcquireLease(r)
    <3>1. CASE GrantLease(r) /\ UNCHANGED runVars
      <4>0. fencingToken' \in Nat
        BY <3>1 DEF GrantLease
      <4>1. LeaseTypeOK'
        BY <3>1, <4>0 DEF GrantLease
      <4>2. /\ Goto(r, "lease", "verify")
            /\ token' = [token EXCEPT ![r] = fencingToken']
        BY <2>3, <3>1, NoRunAssumption DEF AcquireLease, GrantLease
      <4>. QED
        BY <2>3, <3>1, <4>1, <4>2 DEF AcquireLease
    <3>2. CASE UNCHANGED <<controlVars, token>>
      BY <2>3, <3>2 DEF AcquireLease, UpdateStatus, UpdateRun
    <3>. QED
      BY <2>3, <3>1, <3>2 DEF AcquireLease
  <2>4. CASE VerifyLease(r)
    BY <2>4 DEF VerifyLease, LockRow
  <2>5. CASE RejectLease(r)
    BY <2>5 DEF RejectLease, UpdateRun, LetGo, LockRow
  <2>6. CASE MarkRunning(r)
    BY <2>6 DEF MarkRunning, UpdateRun
  <2>7. CASE Stage(r)
    BY <2>7 DEF Stage
  <2>8. CASE ReconciliationConflict(r)
    BY <2>8 DEF ReconciliationConflict, UpdateRun, Rollback, RollsBack, UnlockRow, NothingPublished
  <2>9. CASE SendCommit(r)
    BY <2>9 DEF SendCommit
  <2>10. CASE CommitAcknowledged(r)
    BY <2>10 DEF CommitAcknowledged
  <2>11. CASE CommitUnconfirmed(r)
    <3>1. PICK result \in {"uncertain", "rolled_back"} :
             /\ UNCHANGED status
             /\ commitResult' = [commitResult EXCEPT ![r] = result] \/ UNCHANGED commitResult
      BY <2>11 DEF CommitUnconfirmed, RecordCommitObservation
    <3>2. Goto(r, "await", "returned") \/ Goto(r, "await", "died")
      BY <2>11 DEF CommitUnconfirmed
    <3>3. UNCHANGED <<controlVars, token, batch, batchVersion, changes,
                      sourceVars, serverVars>>
      BY <2>11 DEF CommitUnconfirmed
    <3>4. RunTypeOK'
      <4>1. result \in CommitResult
        OBVIOUS
      <4>2. commitResult' \in [Runs -> CommitResult]
        BY ONLY <3>1, <4>1, commitResult \in [Runs -> CommitResult], r \in Runs
      <4>. QED
        BY <3>1, <4>2
    <3>. QED
      BY <3>2, <3>3, <3>4
  <2>12. CASE FinishRun(r)
    BY <2>12 DEF FinishRun, UpdateRun
  <2>. QED
    BY <1>2, <2>1, <2>2, <2>3, <2>4, <2>5, <2>6, <2>7, <2>8, <2>9, <2>10,
       <2>11, <2>12 DEF LiveStep
<1>3. ASSUME NEW r \in Runs, FailureStep(r) PROVE TypeOK'
  BY <1>3 DEF FailureStep, FailRun, VerificationFails, ReconciliationReadFails,
     StageFails, MetadataFails, UpdateStatus, UpdateRun, Rollback, RollsBack,
     LetGo, LockRow, UnlockRow, NothingPublished
<1>4. ASSUME NEW r \in Runs, Crash(r) PROVE TypeOK'
  BY <1>4 DEF Crash
<1>5. ASSUME NEW r \in Runs, ResolveUncertain(r) PROVE TypeOK'
  BY <1>5 DEF ResolveUncertain, UpdateRun, RecordCommitObservation
<1>6. ASSUME NEW r \in Runs, ServerCommits(r) PROVE TypeOK'
  BY <1>6 DEF ServerCommits, UnlockRow, Upsert, RecordValidPublication, ReleaseLease
<1>7. ASSUME NEW r \in Runs, ServerAborts(r) PROVE TypeOK'
  BY <1>7 DEF ServerAborts, UnlockRow
<1>8. CASE LeaseTimeout
  BY <1>8 DEF LeaseTimeout, ExpireLease
<1>9. CASE SourceChanges
  BY <1>9, VersionAssumption DEF SourceChanges
<1>10. CASE UNCHANGED vars
  BY <1>10 DEF vars
<1>. QED
  BY <1>1, <1>2, <1>3, <1>4, <1>5, <1>6, <1>7, <1>8, <1>9, <1>10 DEF Next

-----------------------------------------------------------------------------
(***************************************************************************)
(* Several actions end a run in the same way.  The shapes below say what   *)
(* such an action does, and NextShapes shows that they leave out no step:  *)
(* the proofs of the invariant go through the shapes, not the actions.     *)
(***************************************************************************)

\* A pending run ends without having published; its rollback may leave the
\* week locked (RejectLease, VerificationFails).
Declines(r) ==
  /\ pc[r] \in {"extract", "gate", "lease", "verify"}
  /\ pc' = [pc EXCEPT ![r] = "returned"]
  /\ status[r] = "pending"
  /\ \E s \in Withheld : status' = [status EXCEPT ![r] = s]
  /\ \E c \in {commitResult[r], "not_attempted", "uncertain"} :
        commitResult' = [commitResult EXCEPT ![r] = c]
  /\ lockHolder' = lockHolder \/ (lockHolder = NoRun /\ lockHolder' = r)
  /\ UNCHANGED <<ownerRun, leaseExpired, fencingToken, lastValidRun, token, batch,
                 batchVersion, changes, source, sourceVersion, rows, commitSent, outcome>>

\* A running run gives up its transaction before the COMMIT.
Abandons(r) ==
  /\ pc[r] \in {"stage", "commit"}
  /\ pc' = [pc EXCEPT ![r] = "returned"]
  /\ status[r] = "running"
  /\ \E s \in Withheld : status' = [status EXCEPT ![r] = s]
  /\ \E c \in {"rolled_back", "uncertain"} : commitResult' = [commitResult EXCEPT ![r] = c]
  /\ \/ /\ lockHolder = r
        /\ lockHolder' = NoRun
        /\ outcome' = [outcome EXCEPT ![r] = "aborted"]
     \/ UNCHANGED <<lockHolder, outcome>>
  /\ UNCHANGED <<ownerRun, leaseExpired, fencingToken, lastValidRun, token, batch,
                 batchVersion, changes, source, sourceVersion, rows, commitSent>>

\* A flow that waits for its COMMIT stops waiting.
StopsWaiting(r) ==
  /\ pc[r] = "await"
  /\ \E p \in Over : pc' = [pc EXCEPT ![r] = p]
  /\ \/ UNCHANGED commitResult
     \/ commitResult' = [commitResult EXCEPT ![r] = "uncertain"]
     \/ /\ outcome[r] = "aborted"
        /\ commitResult' = [commitResult EXCEPT ![r] = "rolled_back"]
  /\ UNCHANGED <<status, ownerRun, leaseExpired, fencingToken, lastValidRun, lockHolder,
                 token, batch, batchVersion, changes, source, sourceVersion, rows,
                 commitSent, outcome>>

\* A success is recorded, by the flow or by the resolver.
Succeeds(r) ==
  /\ \/ pc[r] = "finish" /\ pc' = [pc EXCEPT ![r] = "returned"]
     \/ lastValidRun = r /\ pc' = pc
  /\ status[r] = "running"
  /\ \E s \in Successes : status' = [status EXCEPT ![r] = s]
  /\ commitResult' = [commitResult EXCEPT ![r] = "technically_observed"]
  /\ UNCHANGED <<ownerRun, leaseExpired, fencingToken, lastValidRun, lockHolder,
                 token, batch, batchVersion, changes, source, sourceVersion, rows,
                 commitSent, outcome>>

\* Only the flow moves: a pass of the gate, an answer, a crash.
OnlyFlowMoves(r) ==
  /\ \/ pc[r] = "gate" /\ batch[r] # EmptyBatch /\ pc' = [pc EXCEPT ![r] = "lease"]
     \/ pc[r] = "await" /\ outcome[r] = "committed" /\ pc' = [pc EXCEPT ![r] = "finish"]
     \/ pc[r] # "idle" /\ pc' = [pc EXCEPT ![r] = "died"]
  /\ UNCHANGED <<status, commitResult, ownerRun, leaseExpired, fencingToken, lastValidRun,
                 lockHolder, token, batch, batchVersion, changes, source, sourceVersion,
                 rows, commitSent, outcome>>

\* The resolver finds no evidence and says so.
StaysUncertain(r) ==
  /\ commitResult' = [commitResult EXCEPT ![r] = "uncertain"]
  /\ UNCHANGED <<status, pc, ownerRun, leaseExpired, fencingToken, lastValidRun,
                 lockHolder, token, batch, batchVersion, changes, source, sourceVersion,
                 rows, commitSent, outcome>>

Granted(r) == /\ pc[r] = "lease"
              /\ pc' = [pc EXCEPT ![r] = "verify"]
              /\ GrantLease(r)
              /\ token' = [token EXCEPT ![r] = fencingToken']
              /\ UNCHANGED <<status, commitResult, batch, batchVersion, changes, source,
                             sourceVersion, rows, commitSent, outcome>>

\* No table, lock or flow is concerned.
OnlyWorldMoves == UNCHANGED <<status, commitResult, ownerRun, fencingToken, lastValidRun,
                              lockHolder, pc, token, batch, batchVersion, changes, rows,
                              commitSent, outcome>>

ShapeOf(r) ==
  \/ Create(r) \/ Extract(r) \/ OnlyFlowMoves(r) \/ Granted(r) \/ Declines(r)
  \/ VerifyLease(r) \/ MarkRunning(r) \/ Stage(r) \/ Abandons(r) \/ SendCommit(r)
  \/ StopsWaiting(r) \/ Succeeds(r) \/ StaysUncertain(r)
  \/ ServerCommits(r) \/ ServerAborts(r)

\* The shapes cover the next-state relation.
LEMMA NextShapes ==
  ASSUME [Next]_vars
  PROVE  OnlyWorldMoves \/ \E r \in Runs : ShapeOf(r)
<1>. USE DEF Goto, runVars, controlVars, leaseVars, sourceVars, serverVars, flowVars,
         UpdateStatus, UpdateRun, RecordCommitObservation, Withheld, Successes, Over
<1>1. ASSUME NEW r \in Runs, LiveStep(r) PROVE ShapeOf(r)
  <2>1. CASE QualityGate(r)
    <3>1. OnlyFlowMoves(r) \/ Declines(r)
      BY <2>1 DEF QualityGate, OnlyFlowMoves, Declines
    <3>. QED
      BY <3>1 DEF ShapeOf
  <2>2. CASE AcquireLease(r)
    <3>1. Granted(r) \/ Declines(r)
      BY <2>2 DEF AcquireLease, Granted, Declines
    <3>. QED
      BY <3>1 DEF ShapeOf
  <2>3. CASE RejectLease(r)
    <3>1. Declines(r)
      BY <2>3 DEF RejectLease, LetGo, LockRow, RowIsFree, Declines
    <3>. QED
      BY <3>1 DEF ShapeOf
  <2>4. CASE ReconciliationConflict(r)
    <3>1. Abandons(r)
      BY <2>4 DEF ReconciliationConflict, Rollback, RollsBack, UnlockRow,
         NothingPublished, Abandons
    <3>. QED
      BY <3>1 DEF ShapeOf
  <2>5. CASE CommitAcknowledged(r)
    <3>1. OnlyFlowMoves(r)
      BY <2>5 DEF CommitAcknowledged, OnlyFlowMoves
    <3>. QED
      BY <3>1 DEF ShapeOf
  <2>6. CASE CommitUnconfirmed(r)
    <3>1. StopsWaiting(r)
      BY <2>6 DEF CommitUnconfirmed, StopsWaiting
    <3>. QED
      BY <3>1 DEF ShapeOf
  <2>7. CASE FinishRun(r)
    <3>1. Succeeds(r) \/ OnlyFlowMoves(r)
      <4>1. CASE Goto(r, "finish", "died") /\ UNCHANGED runVars
        BY <2>7, <4>1 DEF FinishRun, OnlyFlowMoves
      <4>2. CASE /\ Goto(r, "finish", "returned")
                 /\ UpdateRun(r, "running",
                              IF changes[r] THEN "succeeded" ELSE "succeeded_noop",
                              "technically_observed")
        BY <2>7, <4>2 DEF FinishRun, Succeeds
      <4>. QED
        BY <2>7, <4>1, <4>2 DEF FinishRun
    <3>. QED
      BY <3>1 DEF ShapeOf
  <2>. QED
    BY <1>1, <2>1, <2>2, <2>3, <2>4, <2>5, <2>6, <2>7 DEF LiveStep, ShapeOf
<1>2. ASSUME NEW r \in Runs, FailureStep(r) PROVE ShapeOf(r)
  <2>1. Declines(r) \/ Abandons(r)
    <3>1. CASE FailRun(r)
      BY <3>1 DEF FailRun, Declines
    <3>2. CASE VerificationFails(r)
      BY <3>2 DEF VerificationFails, LetGo, LockRow, RowIsFree, Declines
    <3>3. CASE ReconciliationReadFails(r)
      BY <3>3 DEF ReconciliationReadFails, Rollback, RollsBack, UnlockRow,
         NothingPublished, Abandons
    <3>4. CASE StageFails(r)
      BY <3>4 DEF StageFails, Rollback, RollsBack, UnlockRow, NothingPublished, Abandons
    <3>5. CASE MetadataFails(r)
      BY <3>5 DEF MetadataFails, Rollback, RollsBack, UnlockRow, NothingPublished, Abandons
    <3>. QED
      BY <1>2, <3>1, <3>2, <3>3, <3>4, <3>5 DEF FailureStep
  <2>. QED
    BY <2>1 DEF ShapeOf
<1>3. ASSUME NEW r \in Runs, Crash(r) PROVE ShapeOf(r)
  <2>1. OnlyFlowMoves(r)
    BY <1>3 DEF Crash, OnlyFlowMoves
  <2>. QED
    BY <2>1 DEF ShapeOf
<1>4. ASSUME NEW r \in Runs, ResolveUncertain(r) PROVE ShapeOf(r)
  <2>1. Succeeds(r) \/ StaysUncertain(r)
    BY <1>4 DEF ResolveUncertain, Succeeds, StaysUncertain
  <2>. QED
    BY <2>1 DEF ShapeOf
<1>5. CASE LeaseTimeout \/ SourceChanges \/ UNCHANGED vars
  BY <1>5 DEF LeaseTimeout, ExpireLease, SourceChanges, vars, OnlyWorldMoves
<1>. QED
  BY <1>1, <1>2, <1>3, <1>4, <1>5 DEF Next, ShapeOf

\* With no published key missing from the batch, the UPSERT writes the batch
\* and nothing else: the table and the calculation become equal.
LEMMA UpsertIsBatch ==
  ASSUME TypeOK, NEW r \in Runs, Disappeared(r) = {}
  PROVE  Upsert(r) = batch[r]
<1>1. batch[r] \in Aggregates
  BY DEF TypeOK
<1>2. ASSUME NEW k \in Keys PROVE Upsert(r)[k] = batch[r][k]
  BY DEF Upsert, Disappeared
<1>. QED
  BY <1>1, <1>2 DEF Upsert, Aggregates

-----------------------------------------------------------------------------
(* Each conjunct of IInv is preserved by every shape. *)

\* The stages of the flow and the CAS transitions of update_run agree.
LEMMA LifecycleStep ==
  ASSUME TypeOK, Lifecycle, Transaction, PointerIsCommitted, [Next]_vars
  PROVE  Lifecycle'
<1>. USE NoRunAssumption DEF TypeOK, RunTypeOK, LeaseTypeOK, Lifecycle, LifecycleOf, Preparing, InsideTransaction, Over, Active, Successes, Withheld, Goto, runVars, controlVars, leaseVars, sourceVars, serverVars, flowVars
<1>1. CASE OnlyWorldMoves
  BY <1>1 DEF OnlyWorldMoves
<1>2. ASSUME NEW r \in Runs, ShapeOf(r), NEW q \in Runs PROVE LifecycleOf(q)'
  <2>1. CASE Create(r)
    BY <2>1 DEF Create, CreateRun
  <2>2. CASE Extract(r)
    BY <2>2 DEF Extract
  <2>3. CASE OnlyFlowMoves(r)
    BY <2>3 DEF OnlyFlowMoves
  <2>4. CASE Granted(r)
    BY <2>4 DEF Granted, GrantLease, RowIsFree
  <2>5. CASE Declines(r)
    BY <2>5 DEF Declines
  <2>6. CASE VerifyLease(r)
    BY <2>6 DEF VerifyLease, LeaseVerified, OwnsLease, LockRow, RowIsFree
  <2>7. CASE MarkRunning(r)
    BY <2>7 DEF MarkRunning, UpdateRun
  <2>8. CASE Stage(r)
    BY <2>8 DEF Stage
  <2>9. CASE Abandons(r)
    BY <2>9 DEF Abandons
  <2>10. CASE SendCommit(r)
    BY <2>10 DEF SendCommit
  <2>11. CASE StopsWaiting(r)
    BY <2>11 DEF StopsWaiting
  <2>12. CASE Succeeds(r)
    <3>1. pc[r] \notin Preparing \cup InsideTransaction
      BY <2>12 DEF Succeeds, Transaction, TransactionOf, PointerIsCommitted
    <3>. QED
      BY <2>12, <3>1 DEF Succeeds
  <2>13. CASE StaysUncertain(r)
    BY <2>13 DEF StaysUncertain
  <2>14. CASE ServerCommits(r)
    BY <2>14 DEF ServerCommits, UnlockRow, RecordValidPublication, ReleaseLease
  <2>15. CASE ServerAborts(r)
    BY <2>15 DEF ServerAborts, UnlockRow
  <2>. QED
    BY <1>2, <2>1, <2>2, <2>3, <2>4, <2>5, <2>6, <2>7, <2>8, <2>9, <2>10, <2>11, <2>12, <2>13, <2>14, <2>15 DEF ShapeOf
<1>. QED
  BY <1>1, <1>2, NextShapes DEF Lifecycle

\* verify_week_lease opens the only window in which a run holds the row; every
\* way out of the coordinator, and of the server, closes it.
LEMMA TransactionStep ==
  ASSUME TypeOK, Transaction, OpenWhileInDoubt, [Next]_vars
  PROVE  Transaction'
<1>. USE NoRunAssumption DEF TypeOK, RunTypeOK, LeaseTypeOK, Transaction, TransactionOf, OpenWhileInDoubt, Preparing, InsideTransaction, Over, Goto, runVars, controlVars, leaseVars, sourceVars, serverVars, flowVars
<1>1. CASE OnlyWorldMoves
  BY <1>1 DEF OnlyWorldMoves
<1>2. ASSUME NEW r \in Runs, ShapeOf(r), NEW q \in Runs PROVE TransactionOf(q)'
  <2>1. CASE Create(r)
    BY <2>1 DEF Create, CreateRun
  <2>2. CASE Extract(r)
    BY <2>2 DEF Extract
  <2>3. CASE OnlyFlowMoves(r)
    BY <2>3 DEF OnlyFlowMoves
  <2>4. CASE Granted(r)
    BY <2>4 DEF Granted, GrantLease, RowIsFree
  <2>5. CASE Declines(r)
    BY <2>5 DEF Declines
  <2>6. CASE VerifyLease(r)
    BY <2>6 DEF VerifyLease, LeaseVerified, OwnsLease, LockRow, RowIsFree
  <2>7. CASE MarkRunning(r)
    BY <2>7 DEF MarkRunning, UpdateRun
  <2>8. CASE Stage(r)
    BY <2>8 DEF Stage
  <2>9. CASE Abandons(r)
    BY <2>9 DEF Abandons
  <2>10. CASE SendCommit(r)
    BY <2>10 DEF SendCommit
  <2>11. CASE StopsWaiting(r)
    BY <2>11 DEF StopsWaiting
  <2>12. CASE Succeeds(r)
    BY <2>12 DEF Succeeds
  <2>13. CASE StaysUncertain(r)
    BY <2>13 DEF StaysUncertain
  <2>14. CASE ServerCommits(r)
    BY <2>14 DEF ServerCommits, UnlockRow, RecordValidPublication, ReleaseLease
  <2>15. CASE ServerAborts(r)
    BY <2>15 DEF ServerAborts, UnlockRow
  <2>. QED
    BY <1>2, <2>1, <2>2, <2>3, <2>4, <2>5, <2>6, <2>7, <2>8, <2>9, <2>10, <2>11, <2>12, <2>13, <2>14, <2>15 DEF ShapeOf
<1>. QED
  BY <1>1, <1>2, NextShapes DEF Transaction

\* Nobody can end the history of a run while its COMMIT is on its way.
LEMMA OpenWhileInDoubtStep ==
  ASSUME TypeOK, Lifecycle, Transaction, OpenWhileInDoubt, PointerIsCommitted, [Next]_vars
  PROVE  OpenWhileInDoubt'
<1>. USE NoRunAssumption DEF TypeOK, RunTypeOK, LeaseTypeOK, Lifecycle, LifecycleOf, Transaction, TransactionOf, OpenWhileInDoubt, PointerIsCommitted, Preparing, InsideTransaction, Over, Active, Successes, Withheld, Goto, runVars, controlVars, leaseVars, sourceVars, serverVars, flowVars
<1>1. CASE OnlyWorldMoves
  BY <1>1 DEF OnlyWorldMoves
<1>2. ASSUME NEW r \in Runs, ShapeOf(r) PROVE OpenWhileInDoubt'
  <2>1. CASE Create(r)
    BY <2>1 DEF Create, CreateRun
  <2>2. CASE Extract(r)
    BY <2>2 DEF Extract
  <2>3. CASE OnlyFlowMoves(r)
    BY <2>3 DEF OnlyFlowMoves
  <2>4. CASE Granted(r)
    BY <2>4 DEF Granted, GrantLease, RowIsFree
  <2>5. CASE Declines(r)
    BY <2>5 DEF Declines
  <2>6. CASE VerifyLease(r)
    BY <2>6 DEF VerifyLease, LeaseVerified, OwnsLease, LockRow, RowIsFree
  <2>7. CASE MarkRunning(r)
    BY <2>7 DEF MarkRunning, UpdateRun
  <2>8. CASE Stage(r)
    BY <2>8 DEF Stage
  <2>9. CASE Abandons(r)
    BY <2>9 DEF Abandons
  <2>10. CASE SendCommit(r)
    BY <2>10 DEF SendCommit
  <2>11. CASE StopsWaiting(r)
    BY <2>11 DEF StopsWaiting
  <2>12. CASE Succeeds(r)
    BY <2>12 DEF Succeeds
  <2>13. CASE StaysUncertain(r)
    BY <2>13 DEF StaysUncertain
  <2>14. CASE ServerCommits(r)
    BY <2>14 DEF ServerCommits, UnlockRow, RecordValidPublication, ReleaseLease
  <2>15. CASE ServerAborts(r)
    BY <2>15 DEF ServerAborts, UnlockRow
  <2>. QED
    BY <1>2, <2>1, <2>2, <2>3, <2>4, <2>5, <2>6, <2>7, <2>8, <2>9, <2>10, <2>11, <2>12, <2>13, <2>14, <2>15 DEF ShapeOf
<1>. QED
  BY <1>1, <1>2, NextShapes

\* No _finish_run contradicts what the server did with the transaction.
LEMMA VerdictsStep ==
  ASSUME TypeOK, Lifecycle, Transaction, OpenWhileInDoubt, Verdicts, PointerIsCommitted, [Next]_vars
  PROVE  Verdicts'
<1>. USE NoRunAssumption DEF TypeOK, RunTypeOK, LeaseTypeOK, Lifecycle, LifecycleOf, Transaction, TransactionOf, OpenWhileInDoubt, Verdicts, VerdictOf, PointerIsCommitted, Preparing, InsideTransaction, Over, Active, Successes, Withheld, Goto, runVars, controlVars, leaseVars, sourceVars, serverVars, flowVars
<1>1. CASE OnlyWorldMoves
  BY <1>1 DEF OnlyWorldMoves
<1>2. ASSUME NEW r \in Runs, ShapeOf(r), NEW q \in Runs PROVE VerdictOf(q)'
  <2>1. CASE Create(r)
    BY <2>1 DEF Create, CreateRun
  <2>2. CASE Extract(r)
    BY <2>2 DEF Extract
  <2>3. CASE OnlyFlowMoves(r)
    BY <2>3 DEF OnlyFlowMoves
  <2>4. CASE Granted(r)
    BY <2>4 DEF Granted, GrantLease, RowIsFree
  <2>5. CASE Declines(r)
    BY <2>5 DEF Declines
  <2>6. CASE VerifyLease(r)
    BY <2>6 DEF VerifyLease, LeaseVerified, OwnsLease, LockRow, RowIsFree
  <2>7. CASE MarkRunning(r)
    BY <2>7 DEF MarkRunning, UpdateRun
  <2>8. CASE Stage(r)
    BY <2>8 DEF Stage
  <2>9. CASE Abandons(r)
    BY <2>9 DEF Abandons
  <2>10. CASE SendCommit(r)
    BY <2>10 DEF SendCommit
  <2>11. CASE StopsWaiting(r)
    BY <2>11 DEF StopsWaiting
  <2>12. CASE Succeeds(r)
    <3>1. outcome[r] = "committed"
      BY <2>12 DEF Succeeds
    <3>. QED
      BY <2>12, <3>1 DEF Succeeds
  <2>13. CASE StaysUncertain(r)
    BY <2>13 DEF StaysUncertain
  <2>14. CASE ServerCommits(r)
    BY <2>14 DEF ServerCommits, UnlockRow, RecordValidPublication, ReleaseLease
  <2>15. CASE ServerAborts(r)
    BY <2>15 DEF ServerAborts, UnlockRow
  <2>. QED
    BY <1>2, <2>1, <2>2, <2>3, <2>4, <2>5, <2>6, <2>7, <2>8, <2>9, <2>10, <2>11, <2>12, <2>13, <2>14, <2>15 DEF ShapeOf
<1>. QED
  BY <1>1, <1>2, NextShapes DEF Verdicts

\* Rows and publication pointer change together, in the COMMIT.
LEMMA PointerStep ==
  ASSUME TypeOK, Transaction, PointerIsCommitted, PublicationIsAtomic, StagedStillTrue, [Next]_vars
  PROVE  (PointerIsCommitted /\ PublicationIsAtomic)'
<1>. USE NoRunAssumption DEF TypeOK, RunTypeOK, LeaseTypeOK, Transaction, TransactionOf, PointerIsCommitted, PublicationIsAtomic, Preparing, InsideTransaction, Over, Goto, runVars, controlVars, leaseVars, sourceVars, serverVars, flowVars
<1>1. CASE OnlyWorldMoves
  BY <1>1 DEF OnlyWorldMoves
<1>2. ASSUME NEW r \in Runs, ShapeOf(r) PROVE (PointerIsCommitted /\ PublicationIsAtomic)'
  <2>1. CASE Create(r)
    BY <2>1 DEF Create, CreateRun
  <2>2. CASE Extract(r)
    BY <2>2 DEF Extract
  <2>3. CASE OnlyFlowMoves(r)
    BY <2>3 DEF OnlyFlowMoves
  <2>4. CASE Granted(r)
    BY <2>4 DEF Granted, GrantLease, RowIsFree
  <2>5. CASE Declines(r)
    BY <2>5 DEF Declines
  <2>6. CASE VerifyLease(r)
    BY <2>6 DEF VerifyLease, LeaseVerified, OwnsLease, LockRow, RowIsFree
  <2>7. CASE MarkRunning(r)
    BY <2>7 DEF MarkRunning, UpdateRun
  <2>8. CASE Stage(r)
    BY <2>8 DEF Stage
  <2>9. CASE Abandons(r)
    BY <2>9 DEF Abandons
  <2>10. CASE SendCommit(r)
    BY <2>10 DEF SendCommit
  <2>11. CASE StopsWaiting(r)
    BY <2>11 DEF StopsWaiting
  <2>12. CASE Succeeds(r)
    BY <2>12 DEF Succeeds
  <2>13. CASE StaysUncertain(r)
    BY <2>13 DEF StaysUncertain
  <2>14. CASE ServerCommits(r)
    <3>1. Upsert(r) = batch[r]
      BY <2>14, UpsertIsBatch DEF ServerCommits, UnlockRow, StagedStillTrue, StagedOf
    <3>. QED
      BY <2>14, <3>1 DEF ServerCommits, UnlockRow, RecordValidPublication
  <2>15. CASE ServerAborts(r)
    BY <2>15 DEF ServerAborts, UnlockRow
  <2>. QED
    BY <1>2, <2>1, <2>2, <2>3, <2>4, <2>5, <2>6, <2>7, <2>8, <2>9, <2>10, <2>11, <2>12, <2>13, <2>14, <2>15 DEF ShapeOf
<1>. QED
  BY <1>1, <1>2, NextShapes

\* acquire_week_lease cannot grant over a row that a publication has locked.
LEMMA FencedStep ==
  ASSUME TypeOK, Transaction, OpenWhileInDoubt, FencedWriter, [Next]_vars
  PROVE  FencedWriter'
<1>. USE NoRunAssumption DEF TypeOK, RunTypeOK, LeaseTypeOK, Transaction, TransactionOf, OpenWhileInDoubt, FencedWriter, Publishing, OwnsLease, Preparing, InsideTransaction, Over, Goto, runVars, controlVars, leaseVars, sourceVars, serverVars, flowVars
<1>1. CASE OnlyWorldMoves
  BY <1>1 DEF OnlyWorldMoves
<1>2. ASSUME NEW r \in Runs, ShapeOf(r) PROVE FencedWriter'
  <2>1. CASE Create(r)
    BY <2>1 DEF Create, CreateRun
  <2>2. CASE Extract(r)
    BY <2>2 DEF Extract
  <2>3. CASE OnlyFlowMoves(r)
    BY <2>3 DEF OnlyFlowMoves
  <2>4. CASE Granted(r)
    BY <2>4 DEF Granted, GrantLease, RowIsFree
  <2>5. CASE Declines(r)
    BY <2>5 DEF Declines
  <2>6. CASE VerifyLease(r)
    BY <2>6 DEF VerifyLease, LeaseVerified, OwnsLease, LockRow, RowIsFree
  <2>7. CASE MarkRunning(r)
    BY <2>7 DEF MarkRunning, UpdateRun
  <2>8. CASE Stage(r)
    BY <2>8 DEF Stage
  <2>9. CASE Abandons(r)
    BY <2>9 DEF Abandons
  <2>10. CASE SendCommit(r)
    BY <2>10 DEF SendCommit
  <2>11. CASE StopsWaiting(r)
    BY <2>11 DEF StopsWaiting
  <2>12. CASE Succeeds(r)
    BY <2>12 DEF Succeeds
  <2>13. CASE StaysUncertain(r)
    BY <2>13 DEF StaysUncertain
  <2>14. CASE ServerCommits(r)
    BY <2>14 DEF ServerCommits, UnlockRow, RecordValidPublication, ReleaseLease
  <2>15. CASE ServerAborts(r)
    BY <2>15 DEF ServerAborts, UnlockRow
  <2>. QED
    BY <1>2, <2>1, <2>2, <2>3, <2>4, <2>5, <2>6, <2>7, <2>8, <2>9, <2>10, <2>11, <2>12, <2>13, <2>14, <2>15 DEF ShapeOf
<1>. QED
  BY <1>1, <1>2, NextShapes

\* Nothing staging looked at changes before the COMMIT.
LEMMA StagedStep ==
  ASSUME TypeOK, Lifecycle, Transaction, OpenWhileInDoubt, StagedStillTrue, [Next]_vars
  PROVE  StagedStillTrue'
<1>. USE NoRunAssumption DEF TypeOK, RunTypeOK, LeaseTypeOK, Lifecycle, LifecycleOf, Transaction, TransactionOf, OpenWhileInDoubt, StagedStillTrue, StagedOf, Disappeared, Upsert, Preparing, InsideTransaction, Over, Goto, runVars, controlVars, leaseVars, sourceVars, serverVars, flowVars
<1>1. CASE OnlyWorldMoves
  BY <1>1 DEF OnlyWorldMoves
<1>2. ASSUME NEW r \in Runs, ShapeOf(r), NEW q \in Runs PROVE StagedOf(q)'
  <2>1. CASE Create(r)
    BY <2>1 DEF Create, CreateRun
  <2>2. CASE Extract(r)
    BY <2>2 DEF Extract
  <2>3. CASE OnlyFlowMoves(r)
    BY <2>3 DEF OnlyFlowMoves
  <2>4. CASE Granted(r)
    BY <2>4 DEF Granted, GrantLease, RowIsFree
  <2>5. CASE Declines(r)
    BY <2>5 DEF Declines
  <2>6. CASE VerifyLease(r)
    BY <2>6 DEF VerifyLease, LeaseVerified, OwnsLease, LockRow, RowIsFree
  <2>7. CASE MarkRunning(r)
    BY <2>7 DEF MarkRunning, UpdateRun
  <2>8. CASE Stage(r)
    <3>1. Disappeared(r) = {} /\ batch[r] # EmptyBatch
      BY <2>8 DEF Stage
    <3>2. lockHolder = r /\ ~commitSent
      BY <2>8 DEF Stage
    <3>3. /\ changes' = [changes EXCEPT ![r] = Upsert(r) # rows]
          /\ UNCHANGED <<rows, batch, lockHolder>>
      BY <2>8 DEF Stage
    <3>4. changes'[r] <=> Upsert(r) # rows
      BY <3>3
    <3>5. /\ Disappeared(r)' = {}
          /\ batch'[r] # EmptyBatch
          /\ changes'[r] <=> Upsert(r)' # rows'
      BY <3>1, <3>3, <3>4
    <3>. QED
      BY <3>2, <3>3, <3>5
  <2>9. CASE Abandons(r)
    BY <2>9 DEF Abandons
  <2>10. CASE SendCommit(r)
    BY <2>10 DEF SendCommit
  <2>11. CASE StopsWaiting(r)
    BY <2>11 DEF StopsWaiting
  <2>12. CASE Succeeds(r)
    BY <2>12 DEF Succeeds
  <2>13. CASE StaysUncertain(r)
    BY <2>13 DEF StaysUncertain
  <2>14. CASE ServerCommits(r)
    BY <2>14 DEF ServerCommits, UnlockRow, RecordValidPublication, ReleaseLease
  <2>15. CASE ServerAborts(r)
    BY <2>15 DEF ServerAborts, UnlockRow
  <2>. QED
    BY <1>2, <2>1, <2>2, <2>3, <2>4, <2>5, <2>6, <2>7, <2>8, <2>9, <2>10, <2>11, <2>12, <2>13, <2>14, <2>15 DEF ShapeOf
<1>. QED
  BY <1>1, <1>2, NextShapes DEF StagedStillTrue

\* A grant is the only step that writes a token, and it writes a new one.
LEMMA TokensStep ==
  ASSUME TypeOK, TokensAreUnique, [Next]_vars
  PROVE  TokensAreUnique'
<1>. USE NoRunAssumption DEF TypeOK, RunTypeOK, LeaseTypeOK, TokensAreUnique, Preparing, InsideTransaction, Over, Goto, runVars, controlVars, leaseVars, sourceVars, serverVars, flowVars
<1>1. CASE OnlyWorldMoves
  BY <1>1 DEF OnlyWorldMoves
<1>2. ASSUME NEW r \in Runs, ShapeOf(r) PROVE TokensAreUnique'
  <2>1. CASE Create(r)
    BY <2>1 DEF Create, CreateRun
  <2>2. CASE Extract(r)
    BY <2>2 DEF Extract
  <2>3. CASE OnlyFlowMoves(r)
    BY <2>3 DEF OnlyFlowMoves
  <2>4. CASE Granted(r)
    BY <2>4 DEF Granted, GrantLease, RowIsFree
  <2>5. CASE Declines(r)
    BY <2>5 DEF Declines
  <2>6. CASE VerifyLease(r)
    BY <2>6 DEF VerifyLease, LeaseVerified, OwnsLease, LockRow, RowIsFree
  <2>7. CASE MarkRunning(r)
    BY <2>7 DEF MarkRunning, UpdateRun
  <2>8. CASE Stage(r)
    BY <2>8 DEF Stage
  <2>9. CASE Abandons(r)
    BY <2>9 DEF Abandons
  <2>10. CASE SendCommit(r)
    BY <2>10 DEF SendCommit
  <2>11. CASE StopsWaiting(r)
    BY <2>11 DEF StopsWaiting
  <2>12. CASE Succeeds(r)
    BY <2>12 DEF Succeeds
  <2>13. CASE StaysUncertain(r)
    BY <2>13 DEF StaysUncertain
  <2>14. CASE ServerCommits(r)
    BY <2>14 DEF ServerCommits, UnlockRow, RecordValidPublication, ReleaseLease
  <2>15. CASE ServerAborts(r)
    BY <2>15 DEF ServerAborts, UnlockRow
  <2>. QED
    BY <1>2, <2>1, <2>2, <2>3, <2>4, <2>5, <2>6, <2>7, <2>8, <2>9, <2>10, <2>11, <2>12, <2>13, <2>14, <2>15 DEF ShapeOf
<1>. QED
  BY <1>1, <1>2, NextShapes

-----------------------------------------------------------------------------
(* The theorems. *)

\* The initial tables satisfy the inductive invariant.
LEMMA InitIInv == Init => IInv
<1>. SUFFICES ASSUME Init PROVE IInv
  OBVIOUS
<1>. USE NoRunAssumption DEF Init, RunInit, LeaseInit
<1>1. TypeOK
  BY TypeOKInit
<1>2. Lifecycle /\ Transaction /\ Verdicts
  BY DEF Lifecycle, LifecycleOf, Transaction, TransactionOf, Verdicts, VerdictOf,
     Preparing, InsideTransaction, Successes, Withheld
<1>3. /\ OpenWhileInDoubt /\ PointerIsCommitted /\ PublicationIsAtomic /\ FencedWriter
      /\ StagedStillTrue
  BY DEF OpenWhileInDoubt, PointerIsCommitted, PublicationIsAtomic, FencedWriter,
     Publishing, StagedStillTrue, StagedOf
<1>4. TokensAreUnique
  BY DEF TokensAreUnique
<1>. QED
  BY <1>1, <1>2, <1>3, <1>4 DEF IInv

\* Every step preserves it.
LEMMA StepIInv == IInv /\ [Next]_vars => IInv'
<1>. SUFFICES ASSUME IInv, [Next]_vars PROVE IInv'
  OBVIOUS
<1>1. TypeOK'
  BY TypeOKStep DEF IInv
<1>2. Lifecycle' /\ Transaction' /\ OpenWhileInDoubt' /\ Verdicts'
  BY LifecycleStep, TransactionStep, OpenWhileInDoubtStep, VerdictsStep DEF IInv
<1>3. PointerIsCommitted' /\ PublicationIsAtomic'
  BY PointerStep DEF IInv
<1>4. FencedWriter' /\ StagedStillTrue' /\ TokensAreUnique'
  BY FencedStep, StagedStep, TokensStep DEF IInv
<1>. QED
  BY <1>1, <1>2, <1>3, <1>4 DEF IInv

\* Columns and locals keep their types.
THEOREM TypeInvariant == Spec => []TypeOK
  BY TypeOKInit, TypeOKStep, PTL DEF Spec

\* IInv is an invariant of the publication of a week.
THEOREM InductiveInvariant == Spec => []IInv
  BY InitIInv, StepIInv, PTL DEF Spec

\* The weekly table is always exactly the calculation of the run that
\* record_valid_publication named last.
THEOREM AtomicPublication == Spec => []PublicationIsAtomic
<1>1. IInv => PublicationIsAtomic
  BY DEF IInv
<1>. QED
  BY <1>1, InductiveInvariant, PTL

\* A run recorded as a success was committed by the server; a run recorded as
\* withheld was not and will not be.
THEOREM TruthfulHistory == Spec => []VerdictMatchesCommit
<1>1. IInv => VerdictMatchesCommit
  BY DEF IInv, TypeOK, Transaction, TransactionOf, OpenWhileInDoubt, Verdicts, VerdictOf,
     VerdictMatchesCommit, CommitInDoubt, Withheld
<1>. QED
  BY <1>1, InductiveInvariant, PTL

\* release_week_lease, inside the transaction, always finds its lease.
THEOREM ReleaseNeverMisses == Spec => []FencedWriter
<1>1. IInv => FencedWriter
  BY DEF IInv
<1>. QED
  BY <1>1, InductiveInvariant, PTL

\* Only the COMMIT of a run sets its outcome to "committed".
LEMMA OnlyServerCommits ==
  ASSUME TypeOK, [Next]_vars, NEW r \in Runs, outcome[r] # "committed",
         outcome'[r] = "committed"
  PROVE  ServerCommits(r)
<1>1. PICK q \in Runs : ShapeOf(q)
  BY NextShapes DEF OnlyWorldMoves
<1>2. ServerCommits(q)
  BY <1>1 DEF TypeOK, ShapeOf, Create, Extract, OnlyFlowMoves, Granted, Declines,
     VerifyLease, MarkRunning, Stage, Abandons, SendCommit, StopsWaiting, Succeeds,
     StaysUncertain, ServerAborts, serverVars
<1>. QED
  BY <1>2 DEF ServerCommits, TypeOK

\* And only the COMMIT of a run moves the publication pointer, to that run.
LEMMA OnlyCommitMovesPointer ==
  ASSUME TypeOK, [Next]_vars, lastValidRun' # lastValidRun
  PROVE  \E r \in Runs : ServerCommits(r)
<1>1. PICK q \in Runs : ShapeOf(q)
  BY NextShapes DEF OnlyWorldMoves
<1>. QED
  BY <1>1 DEF ShapeOf, Create, Extract, OnlyFlowMoves, Granted, GrantLease, Declines,
     VerifyLease, MarkRunning, Stage, Abandons, SendCommit, StopsWaiting, Succeeds,
     StaysUncertain, ServerAborts, controlVars

\* The counts of _stage_weekly_upsert describe the COMMIT that lands later.
THEOREM CountsAreTrue == Spec => CountsDescribeCommit
<1>1. ASSUME IInv, [Next]_vars, NEW r \in Runs, outcome[r] = "none", outcome'[r] = "committed"
      PROVE  rows' # rows <=> changes[r]
  <2>1. ServerCommits(r)
    BY <1>1, OnlyServerCommits DEF IInv
  <2>. QED
    BY <1>1, <2>1 DEF IInv, StagedStillTrue, StagedOf, ServerCommits, UnlockRow
<1>2. IInv /\ [Next]_vars =>
        [\A r \in Runs : outcome[r] = "none" /\ outcome'[r] = "committed" =>
           (rows' # rows <=> changes[r])]_vars
  BY <1>1
<1>. QED
  BY <1>2, InductiveInvariant, PTL DEF Spec, CountsDescribeCommit

\* Publications land in the order of the grants of acquire_week_lease.
THEOREM TokenOrder == Spec => PublishInTokenOrder
<1>1. ASSUME IInv, [Next]_vars, lastValidRun' # lastValidRun, NEW r \in Runs,
             outcome[r] = "committed"
      PROVE  token[r] < token[lastValidRun']
  <2>1. PICK q \in Runs : ServerCommits(q)
    BY <1>1, OnlyCommitMovesPointer DEF IInv
  <2>2. /\ lastValidRun' = q /\ lockHolder = q /\ commitSent
        /\ OwnsLease(q, token[q])
    BY <2>1 DEF ServerCommits, UnlockRow, RecordValidPublication, ReleaseLease
  <2>3. r # q
    BY <1>1, <2>2 DEF IInv, Transaction, TransactionOf
  <2>4. token[q] = fencingToken /\ fencingToken > 0
    BY <1>1, <2>2, NoRunAssumption DEF IInv, OwnsLease, TokensAreUnique
  <2>5. token[r] <= fencingToken /\ token[r] # token[q]
    BY <1>1, <2>3, <2>4 DEF IInv, TokensAreUnique
  <2>. QED
    BY <1>1, <2>2, <2>4, <2>5 DEF IInv, TypeOK, LeaseTypeOK
<1>2. IInv /\ [Next]_vars =>
        [\A r \in Runs : outcome[r] = "committed" /\ lastValidRun' # lastValidRun =>
           token[r] < token[lastValidRun']]_vars
  BY <1>1
<1>. QED
  BY <1>2, InductiveInvariant, PTL DEF Spec, PublishInTokenOrder

\* The publication of a week implements WeeklyReport: every step publishes one
\* calculation whole, declares one verdict, calculates, or shows nothing.
THEOREM PublicationImplementsReport == Spec => ImplementsReport
<1>1. Init => Report!Init
  BY DEF Init, RunInit, LeaseInit, Report!Init, Committed, Verdict, Successes, Withheld
<1>2. IInv /\ [Next]_vars => [Report!Next]_(Report!reportVars)
  <2>. SUFFICES ASSUME IInv, [Next]_vars
                PROVE  Report!Next \/ UNCHANGED Report!reportVars
    OBVIOUS
  <2>. USE DEF IInv, TypeOK, RunTypeOK
  <2>1. CASE OnlyWorldMoves
    BY <2>1 DEF OnlyWorldMoves, Report!reportVars, Committed, Verdict
  <2>2. ASSUME NEW r \in Runs, ShapeOf(r)
        PROVE  Report!Next \/ UNCHANGED Report!reportVars
    <3>1. CASE Extract(r)
      <4>1. batch[r] = EmptyBatch /\ r \notin Committed
        BY <3>1 DEF Extract, Goto, Lifecycle, LifecycleOf, Transaction, TransactionOf,
           Preparing, Committed
      <4>2. /\ batch' = [batch EXCEPT ![r] = source] /\ source \in Aggregates
            /\ UNCHANGED <<rows, lastValidRun, outcome, status>>
        BY <3>1 DEF Extract, runVars, controlVars, serverVars
      <4>3. UNCHANGED <<Committed, Verdict>>
        BY <4>2 DEF Committed, Verdict
      <4>4. Report!Calculate(r)
        BY <4>1, <4>2, <4>3 DEF Report!Calculate
      <4>. QED
        BY <4>4 DEF Report!Next
    <3>2. CASE ServerCommits(r)
      <4>1. /\ commitSent /\ lockHolder = r
            /\ rows' = Upsert(r) /\ lastValidRun' = r
            /\ outcome' = [outcome EXCEPT ![r] = "committed"]
            /\ UNCHANGED <<batch, status>>
        BY <3>2 DEF ServerCommits, UnlockRow, RecordValidPublication, runVars, flowVars
      <4>2. Disappeared(r) = {} /\ batch[r] # EmptyBatch
        BY <4>1 DEF StagedStillTrue, StagedOf
      <4>3. rows' = batch[r]
        BY <4>1, <4>2, UpsertIsBatch
      <4>4. r \notin Committed /\ Verdict[r] = "none"
        BY <4>1 DEF Transaction, TransactionOf, OpenWhileInDoubt, Committed, Verdict,
           Successes, Withheld
      <4>5. Committed' = Committed \cup {r} /\ Verdict' = Verdict
        BY <4>1 DEF Committed, Verdict
      <4>6. Report!Publish(r)
        BY <4>1, <4>2, <4>3, <4>4, <4>5 DEF Report!Publish
      <4>. QED
        BY <4>6 DEF Report!Next
    <3>3. CASE Declines(r) \/ Abandons(r)
      <4>1. PICK s \in Withheld : status' = [status EXCEPT ![r] = s]
        BY <3>3 DEF Declines, Abandons
      <4>2. /\ status[r] \in {"pending", "running"}
            /\ outcome[r] = "none"
            /\ UNCHANGED <<batch, rows, lastValidRun>>
        BY <3>3 DEF Declines, Abandons, Transaction, TransactionOf, Preparing,
           InsideTransaction
      <4>3. outcome' = outcome \/ outcome' = [outcome EXCEPT ![r] = "aborted"]
        BY <3>3 DEF Declines, Abandons
      <4>4. Committed' = Committed /\ r \notin Committed
        BY <4>2, <4>3 DEF Committed
      <4>5. Verdict[r] = "none" /\ Verdict' = [Verdict EXCEPT ![r] = "withheld"]
        BY <4>1, <4>2 DEF Verdict, Successes, Withheld
      <4>6. Report!Declare(r)
        BY <4>2, <4>4, <4>5 DEF Report!Declare
      <4>. QED
        BY <4>6 DEF Report!Next
    <3>4. CASE Succeeds(r)
      <4>1. PICK s \in Successes : status' = [status EXCEPT ![r] = s]
        BY <3>4 DEF Succeeds
      <4>2. /\ status[r] = "running"
            /\ outcome[r] = "committed"
            /\ UNCHANGED <<batch, rows, lastValidRun, outcome>>
        BY <3>4, NoRunAssumption DEF Succeeds, Transaction, TransactionOf, PointerIsCommitted
      <4>3. Committed' = Committed /\ r \in Committed
        BY <4>2 DEF Committed
      <4>4. Verdict[r] = "none" /\ Verdict' = [Verdict EXCEPT ![r] = "published"]
        BY <4>1, <4>2 DEF Verdict, Successes, Withheld
      <4>5. Report!Declare(r)
        BY <4>2, <4>3, <4>4 DEF Report!Declare
      <4>. QED
        BY <4>5 DEF Report!Next
    <3>5. CASE Create(r) \/ MarkRunning(r)
      <4>1. /\ status[r] \in {"absent", "pending"}
            /\ status' = [status EXCEPT ![r] = "pending"]
               \/ status' = [status EXCEPT ![r] = "running"]
            /\ UNCHANGED <<batch, rows, lastValidRun, outcome>>
        BY <3>5 DEF Create, CreateRun, MarkRunning, UpdateRun, controlVars, serverVars
      <4>2. UNCHANGED Verdict
        BY <4>1 DEF Verdict, Successes, Withheld
      <4>. QED
        BY <4>1, <4>2 DEF Report!reportVars, Committed
    <3>6. CASE ServerAborts(r)
      <4>1. /\ outcome[r] = "none"
            /\ outcome' = [outcome EXCEPT ![r] = "aborted"]
            /\ UNCHANGED <<batch, rows, lastValidRun, status>>
        BY <3>6 DEF ServerAborts, UnlockRow, Transaction, TransactionOf, runVars, flowVars
      <4>2. UNCHANGED Committed
        BY <4>1 DEF Committed
      <4>. QED
        BY <4>1, <4>2 DEF Report!reportVars, Verdict
    <3>7. CASE \/ OnlyFlowMoves(r) \/ Granted(r) \/ VerifyLease(r) \/ Stage(r)
               \/ SendCommit(r) \/ StopsWaiting(r) \/ StaysUncertain(r)
      <4>1. UNCHANGED <<batch, rows, lastValidRun, outcome, status>>
        BY <3>7 DEF OnlyFlowMoves, Granted, GrantLease, VerifyLease, Stage, SendCommit,
           StopsWaiting, StaysUncertain, runVars, controlVars, serverVars
      <4>. QED
        BY <4>1 DEF Report!reportVars, Committed, Verdict
    <3>. QED
      BY <2>2, <3>1, <3>2, <3>3, <3>4, <3>5, <3>6, <3>7 DEF ShapeOf
  <2>. QED
    BY <2>1, <2>2, NextShapes
<1>. QED
  BY <1>1, <1>2, InductiveInvariant, PTL DEF Spec, ImplementsReport, Report!Spec

-----------------------------------------------------------------------------
(***************************************************************************)
(* The publication, seen from outside, implements RunHistory.  One more    *)
(* invariant is needed: RejectLease writes "not_attempted" where the other *)
(* ends of a pending run keep what is stored, and the two are the same     *)
(* only because nothing else is stored before _mark_running.               *)
(***************************************************************************)
NotYetAttempted ==
  \A r \in Runs : status[r] \in {"absent", "pending"} => commitResult[r] = "not_attempted"

\* The first write of commit_result is the one of _mark_running.
LEMMA NotYetAttemptedStep ==
  ASSUME TypeOK, NotYetAttempted, [Next]_vars
  PROVE  NotYetAttempted'
<1>. USE DEF TypeOK, RunTypeOK, NotYetAttempted
<1>1. ASSUME UNCHANGED runVars PROVE NotYetAttempted'
  BY <1>1 DEF runVars
<1>2. ASSUME NEW r \in Runs, CreateRun(r) PROVE NotYetAttempted'
  BY <1>2 DEF CreateRun
<1>3. ASSUME NEW r \in Runs, NEW expected \in Active, NEW new, NEW result,
             UpdateRun(r, expected, new, result)
      PROVE  NotYetAttempted'
  <2>1. new \notin {"absent", "pending"}
    BY <1>3 DEF UpdateRun, RunTransitions, Active
  <2>. QED
    BY <1>3, <2>1 DEF UpdateRun
<1>4. ASSUME NEW r \in Runs, NEW result, RecordCommitObservation(r, result)
      PROVE  NotYetAttempted'
  BY <1>4 DEF RecordCommitObservation
<1>5. ASSUME NEW r \in Runs, LiveStep(r) PROVE NotYetAttempted'
  <2>2. CASE QualityGate(r) \/ AcquireLease(r)
    BY <1>1, <1>3, <2>2 DEF QualityGate, AcquireLease, UpdateStatus, Active
  <2>3. CASE RejectLease(r) \/ MarkRunning(r) \/ ReconciliationConflict(r) \/ FinishRun(r)
    BY <1>1, <1>3, <2>3 DEF RejectLease, MarkRunning, ReconciliationConflict, FinishRun, Active
  <2>4. CASE CommitUnconfirmed(r)
    BY <1>1, <1>4, <2>4 DEF CommitUnconfirmed
  <2>5. CASE \/ Extract(r) \/ VerifyLease(r) \/ Stage(r) \/ SendCommit(r)
             \/ CommitAcknowledged(r)
    BY <1>1, <2>5 DEF Extract, VerifyLease, Stage, SendCommit, CommitAcknowledged
  <2>. QED
    BY <1>5, <2>2, <2>3, <2>4, <2>5 DEF LiveStep
<1>6. ASSUME NEW r \in Runs, FailureStep(r) PROVE NotYetAttempted'
  BY <1>3, <1>6 DEF FailureStep, FailRun, VerificationFails, ReconciliationReadFails,
     StageFails, MetadataFails, UpdateStatus, Active
<1>7. ASSUME NEW r \in Runs, ResolveUncertain(r) PROVE NotYetAttempted'
  BY <1>3, <1>4, <1>7 DEF ResolveUncertain, Active
<1>8. ASSUME NEW r \in Runs, Create(r) PROVE NotYetAttempted'
  BY <1>2, <1>8 DEF Create
<1>9. ASSUME NEW r \in Runs, Crash(r) \/ ServerCommits(r) \/ ServerAborts(r)
      PROVE  NotYetAttempted'
  BY <1>1, <1>9 DEF Crash, ServerCommits, ServerAborts
<1>10. CASE LeaseTimeout \/ SourceChanges \/ UNCHANGED vars
  BY <1>1, <1>10 DEF LeaseTimeout, SourceChanges, vars
<1>. QED
  BY <1>5, <1>6, <1>7, <1>8, <1>9, <1>10 DEF Next

\* commit_result is "not_attempted" until the run is marked as running.
THEOREM NothingAttemptedYet == Spec => []NotYetAttempted
<1>1. Init => NotYetAttempted
  BY DEF Init, RunInit, NotYetAttempted
<1>. QED
  BY <1>1, TypeInvariant, NotYetAttemptedStep, PTL DEF Spec

\* What the others see of a COMMIT moves with the outcome and with the COMMIT on
\* its way, and the row lock tells whose it is.
LEMMA BusinessSame ==
  ASSUME IInv, UNCHANGED <<outcome, commitSent>>,
         lockHolder' = lockHolder \/ lockHolder = NoRun
  PROVE  Business' = Business
<1>1. \A q \in Runs : CommitInDoubt(q)' <=> CommitInDoubt(q)
  BY DEF IInv, OpenWhileInDoubt, CommitInDoubt
<1>. QED
  BY <1>1 DEF Business

\* Before the COMMIT is sent nobody sees anything, and a rollback is seen.
LEMMA BusinessAborts ==
  ASSUME IInv, NEW r \in Runs, UnlockRow(r), commitSent' = FALSE,
         outcome' = [outcome EXCEPT ![r] = "aborted"]
  PROVE  Business' = [Business EXCEPT ![r] = "aborted"]
<1>1. \A q \in Runs : ~CommitInDoubt(q)'
  BY DEF CommitInDoubt
<1>2. \A q \in Runs \ {r} : ~CommitInDoubt(q)
  BY DEF CommitInDoubt, UnlockRow
<1>3. outcome \in [Runs -> {"none", "committed", "aborted"}]
  BY DEF IInv, TypeOK
<1>4. \A q \in Runs : Business'[q] = [Business EXCEPT ![r] = "aborted"][q]
  BY <1>1, <1>2, <1>3 DEF Business
<1>. QED
  BY <1>4 DEF Business

\* A pending run that ends keeps its "not_attempted", or is "uncertain".
LEMMA PendingEnds ==
  ASSUME NEW r \in Runs, NEW s \in Withheld, Business' = Business,
         \/ UpdateStatus(r, "pending", s)
         \/ NotYetAttempted /\ commitResult \in [Runs -> CommitResult]
            /\ UpdateRun(r, "pending", s, "not_attempted")
         \/ s = "failed_retryable" /\ UpdateRun(r, "pending", s, "uncertain")
  PROVE  History!WithholdPending(r)
<1>1. \/ UpdateStatus(r, "pending", s)
      \/ UpdateRun(r, "pending", "failed_retryable", "uncertain")
  BY DEF NotYetAttempted, UpdateStatus, UpdateRun
<1>2. \/ History!UpdateStatus(r, "pending", s)
      \/ History!UpdateRun(r, "pending", "failed_retryable", "uncertain")
  BY <1>1 DEF UpdateStatus, UpdateRun, RunTransitions, History!UpdateStatus,
     History!UpdateRun, History!RunTransitions
<1>3. s \in History!Withheld
  BY DEF Withheld, History!Withheld
<1>. QED
  BY <1>2, <1>3 DEF History!WithholdPending

\* A run that ends inside its transaction was not heard of by the server, or the
\* server rolled it back.
LEMMA RunningEnds ==
  ASSUME IInv, NEW r \in Runs, pc[r] \in {"stage", "commit"}, NothingPublished,
         \/ /\ UpdateRun(r, "running", "blocked_quality", "rolled_back")
            /\ Rollback(r)
         \/ /\ UpdateRun(r, "running", "failed_retryable", "rolled_back")
            /\ Rollback(r)
         \/ /\ UpdateRun(r, "running", "failed_retryable", "uncertain")
            /\ Rollback(r)
  PROVE  History!WithholdRunning(r)
<1>1. lockHolder = r /\ ~commitSent /\ outcome[r] = "none" /\ UNCHANGED commitSent
  BY DEF IInv, Transaction, TransactionOf, InsideTransaction, NothingPublished
<1>2. Business[r] = "none"
  BY <1>1 DEF Business, CommitInDoubt
<1>3. Business' = Business \/ Business' = [Business EXCEPT ![r] = "aborted"]
  <2>1. CASE RollsBack(r)
    BY <1>1, <2>1, BusinessAborts DEF RollsBack, IInv, TypeOK
  <2>2. CASE UNCHANGED <<lockHolder, outcome>>
    BY <1>1, <2>2, BusinessSame
  <2>. QED
    BY <2>1, <2>2 DEF Rollback
<1>4. \/ History!UpdateRun(r, "running", "blocked_quality", "rolled_back")
      \/ \E result \in {"rolled_back", "uncertain"} :
            History!UpdateRun(r, "running", "failed_retryable", result)
  BY DEF UpdateRun, RunTransitions, History!UpdateRun, History!RunTransitions
<1>. QED
  BY <1>2, <1>3, <1>4 DEF History!WithholdRunning

\* An unresolved COMMIT, observed by the flow or by the resolver.
LEMMA Observation ==
  ASSUME NEW r \in Runs, NEW result \in {"uncertain", "rolled_back"},
         result = "rolled_back" => outcome[r] = "aborted",
         RecordCommitObservation(r, result), Business' = Business
  PROVE  History!ObserveCommit(r)
<1>1. result = "rolled_back" => Business[r] = "aborted"
  BY DEF Business
<1>2. History!RecordCommitObservation(r, result)
  BY DEF RecordCommitObservation, History!RecordCommitObservation
<1>. QED
  BY <1>1, <1>2 DEF History!ObserveCommit

\* A success, recorded by the flow or by the resolver.
LEMMA Success ==
  ASSUME NEW r \in Runs, NEW s \in Successes, outcome[r] = "committed",
         UpdateRun(r, "running", s, "technically_observed"), Business' = Business
  PROVE  History!RecordSuccess(r)
<1>1. Business[r] = "committed"
  BY DEF Business
<1>2. s \in History!Successes /\ History!UpdateRun(r, "running", s, "technically_observed")
  BY DEF Successes, History!Successes, UpdateRun, RunTransitions, History!UpdateRun,
     History!RunTransitions
<1>. QED
  BY <1>1, <1>2 DEF History!RecordSuccess

\* The steps of a live flow.
LEMMA LiveStepHistory ==
  ASSUME IInv, NotYetAttempted, NEW r \in Runs, LiveStep(r)
  PROVE  History!HistoryNext \/ UNCHANGED History!historyVars
<1>. USE DEF controlVars, serverVars, runVars
<1>1. ASSUME UNCHANGED <<status, commitResult, outcome, commitSent>>,
             lockHolder' = lockHolder \/ lockHolder = NoRun
      PROVE  UNCHANGED History!historyVars
  BY <1>1, BusinessSame DEF History!historyVars
<1>2. CASE Extract(r) \/ Stage(r) \/ CommitAcknowledged(r)
  BY <1>1, <1>2 DEF Extract, Stage, CommitAcknowledged
<1>3. CASE VerifyLease(r)
  BY <1>1, <1>3 DEF VerifyLease, LockRow, RowIsFree
<1>4. CASE QualityGate(r)
  <2>1. CASE UNCHANGED runVars
    BY <1>1, <1>4, <2>1 DEF QualityGate
  <2>2. CASE UpdateStatus(r, "pending", "blocked_quality")
    <3>1. Business' = Business
      BY <1>4, BusinessSame DEF QualityGate
    <3>2. History!WithholdPending(r)
      BY <2>2, <3>1, PendingEnds DEF Withheld
    <3>. QED
      BY <3>2 DEF History!HistoryNext
  <2>. QED
    BY <1>4, <2>1, <2>2 DEF QualityGate
<1>5. CASE AcquireLease(r)
  <2>1. CASE GrantLease(r) /\ UNCHANGED runVars
    BY <1>1, <1>5, <2>1 DEF AcquireLease, GrantLease
  <2>2. CASE UpdateStatus(r, "pending", "skipped_in_progress") /\ UNCHANGED controlVars
    <3>1. Business' = Business
      BY <1>5, <2>2, BusinessSame DEF AcquireLease
    <3>2. History!WithholdPending(r)
      BY <2>2, <3>1, PendingEnds DEF Withheld
    <3>. QED
      BY <3>2 DEF History!HistoryNext
  <2>. QED
    BY <1>5, <2>1, <2>2 DEF AcquireLease
<1>6. CASE RejectLease(r)
  <2>1. Business' = Business
    BY <1>6, BusinessSame DEF RejectLease, LetGo, LockRow, RowIsFree
  <2>2. PICK s \in Withheld : UpdateRun(r, "pending", s, "not_attempted")
    BY <1>6 DEF RejectLease, Withheld
  <2>3. History!WithholdPending(r)
    BY <2>1, <2>2, PendingEnds DEF IInv, TypeOK, RunTypeOK
  <2>. QED
    BY <2>3 DEF History!HistoryNext
<1>7. CASE MarkRunning(r)
  <2>1. Business' = Business
    BY <1>7, BusinessSame DEF MarkRunning
  <2>2. History!BeginPublication(r)
    BY <1>7, <2>1 DEF MarkRunning, UpdateRun, RunTransitions, History!BeginPublication,
       History!UpdateRun, History!RunTransitions
  <2>. QED
    BY <2>2 DEF History!HistoryNext
<1>8. CASE ReconciliationConflict(r)
  <2>1. History!WithholdRunning(r)
    BY <1>8, RunningEnds DEF ReconciliationConflict, Goto
  <2>. QED
    BY <2>1 DEF History!HistoryNext
<1>9. CASE SendCommit(r)
  <2>1. pc[r] = "commit" /\ commitSent' /\ UNCHANGED <<runVars, lockHolder, outcome>>
    BY <1>9 DEF SendCommit, Goto
  <2>2. lockHolder = r /\ ~commitSent /\ outcome[r] = "none" /\ status[r] = "running"
    BY <2>1 DEF IInv, Transaction, TransactionOf, InsideTransaction, Lifecycle, LifecycleOf
  <2>3. Business[r] = "none" /\ Business' = [Business EXCEPT ![r] = "sent"]
    BY <2>1, <2>2 DEF Business, CommitInDoubt
  <2>4. History!CommitIsSent(r)
    BY <2>1, <2>2, <2>3 DEF History!CommitIsSent, History!runVars
  <2>. QED
    BY <2>4 DEF History!HistoryNext
<1>10. CASE CommitUnconfirmed(r)
  <2>1. Business' = Business
    BY <1>10, BusinessSame DEF CommitUnconfirmed
  <2>2. CASE UNCHANGED runVars
    BY <1>1, <1>10, <2>2 DEF CommitUnconfirmed
  <2>3. CASE ~UNCHANGED runVars
    <3>1. PICK result \in {"uncertain", "rolled_back"} :
             /\ result = "rolled_back" => outcome[r] = "aborted"
             /\ RecordCommitObservation(r, result)
      BY <1>10, <2>3 DEF CommitUnconfirmed
    <3>2. History!ObserveCommit(r)
      BY <2>1, <3>1, Observation
    <3>. QED
      BY <3>2 DEF History!HistoryNext
  <2>. QED
    BY <2>2, <2>3
<1>11. CASE FinishRun(r)
  <2>1. Business' = Business
    BY <1>11, BusinessSame DEF FinishRun
  <2>2. CASE UNCHANGED runVars
    BY <1>1, <1>11, <2>2 DEF FinishRun
  <2>3. CASE ~UNCHANGED runVars
    <3>1. PICK s \in Successes : UpdateRun(r, "running", s, "technically_observed")
      BY <1>11, <2>3 DEF FinishRun, Successes
    <3>2. outcome[r] = "committed"
      BY <1>11 DEF FinishRun, Goto, IInv, Transaction, TransactionOf
    <3>3. History!RecordSuccess(r)
      BY <2>1, <3>1, <3>2, Success
    <3>. QED
      BY <3>3 DEF History!HistoryNext
  <2>. QED
    BY <2>2, <2>3
<1>. QED
  BY <1>2, <1>3, <1>4, <1>5, <1>6, <1>7, <1>8, <1>9, <1>10, <1>11 DEF LiveStep

\* The steps that need a failure.
LEMMA FailureStepHistory ==
  ASSUME IInv, NotYetAttempted, NEW r \in Runs, FailureStep(r)
  PROVE  History!HistoryNext
<1>1. CASE FailRun(r)
  <2>1. Business' = Business
    BY <1>1, BusinessSame DEF FailRun, controlVars, serverVars
  <2>2. History!WithholdPending(r)
    BY <1>1, <2>1, PendingEnds DEF FailRun, Withheld
  <2>. QED
    BY <2>2 DEF History!HistoryNext
<1>2. CASE VerificationFails(r)
  <2>1. Business' = Business
    BY <1>2, BusinessSame DEF VerificationFails, LetGo, LockRow, RowIsFree, serverVars
  <2>2. History!WithholdPending(r)
    BY <1>2, <2>1, PendingEnds DEF VerificationFails, Withheld
  <2>. QED
    BY <2>2 DEF History!HistoryNext
<1>3. CASE ReconciliationReadFails(r) \/ StageFails(r) \/ MetadataFails(r)
  <2>1. History!WithholdRunning(r)
    BY <1>3, RunningEnds DEF ReconciliationReadFails, StageFails, MetadataFails, Goto, Rollback
  <2>. QED
    BY <2>1 DEF History!HistoryNext
<1>. QED
  BY <1>1, <1>2, <1>3 DEF FailureStep

\* The steps around the flows.
LEMMA OtherStepsHistory ==
  ASSUME IInv, NEW r \in Runs,
         Create(r) \/ Crash(r) \/ ResolveUncertain(r) \/ ServerCommits(r) \/ ServerAborts(r)
  PROVE  History!HistoryNext \/ UNCHANGED History!historyVars
<1>. USE DEF controlVars, serverVars, runVars
<1>1. CASE Create(r)
  <2>1. Business' = Business
    BY <1>1, BusinessSame DEF Create
  <2>2. History!OpenRun(r)
    BY <1>1, <2>1 DEF Create, CreateRun, History!OpenRun, History!CreateRun
  <2>. QED
    BY <2>2 DEF History!HistoryNext
<1>2. CASE Crash(r)
  BY <1>2, BusinessSame DEF Crash, History!historyVars
<1>3. CASE ResolveUncertain(r)
  <2>1. Business' = Business
    BY <1>3, BusinessSame DEF ResolveUncertain
  <2>2. CASE lastValidRun = r
    <3>1. outcome[r] = "committed"
      BY <2>2, NoRunAssumption DEF IInv, PointerIsCommitted
    <3>2. UpdateRun(r, "running", "succeeded", "technically_observed")
      BY <1>3, <2>2 DEF ResolveUncertain
    <3>3. History!RecordSuccess(r)
      BY <2>1, <3>1, <3>2, Success DEF Successes
    <3>. QED
      BY <3>3 DEF History!HistoryNext
  <2>3. CASE lastValidRun # r
    <3>1. RecordCommitObservation(r, "uncertain")
      BY <1>3, <2>3 DEF ResolveUncertain
    <3>2. History!ObserveCommit(r)
      BY <2>1, <3>1, Observation
    <3>. QED
      BY <3>2 DEF History!HistoryNext
  <2>. QED
    BY <2>2, <2>3
<1>4. CASE ServerCommits(r)
  <2>1. /\ commitSent /\ lockHolder = r /\ ~commitSent' /\ UNCHANGED runVars
        /\ outcome' = [outcome EXCEPT ![r] = "committed"]
    BY <1>4 DEF ServerCommits, UnlockRow
  <2>2. outcome[r] = "none"
    BY <2>1 DEF IInv, Transaction, TransactionOf
  <2>3. outcome \in [Runs -> {"none", "committed", "aborted"}]
    BY DEF IInv, TypeOK
  <2>4. Business[r] = "sent" /\ Business' = [Business EXCEPT ![r] = "committed"]
    BY <2>1, <2>2, <2>3 DEF Business, CommitInDoubt
  <2>5. History!CommitLands(r)
    BY <2>1, <2>4 DEF History!CommitLands, History!runVars
  <2>. QED
    BY <2>5 DEF History!HistoryNext
<1>5. CASE ServerAborts(r)
  <2>1. /\ UnlockRow(r) /\ lockHolder = r /\ commitSent' = FALSE /\ UNCHANGED runVars
        /\ outcome' = [outcome EXCEPT ![r] = "aborted"]
    BY <1>5 DEF ServerAborts, UnlockRow
  <2>2. Business' = [Business EXCEPT ![r] = "aborted"]
    BY <2>1, BusinessAborts
  <2>3. status[r] # "absent"
    BY <2>1 DEF IInv, Transaction, TransactionOf, Lifecycle, LifecycleOf, Preparing
  <2>4. Business[r] \in {"none", "sent"}
    BY <2>1 DEF Business, IInv, Transaction, TransactionOf
  <2>5. History!TransactionAborts(r)
    BY <2>1, <2>2, <2>3, <2>4 DEF History!TransactionAborts, History!runVars
  <2>. QED
    BY <2>5 DEF History!HistoryNext
<1>. QED
  BY <1>1, <1>2, <1>3, <1>4, <1>5

\* Seen from outside, as the task queue sees it, a publication is a run history:
\* the row and the server never do more than RunHistory says.
THEOREM PublicationImplementsHistory == Spec => ImplementsHistory
<1>1. Init => History!HistoryInit
  BY DEF Init, RunInit, LeaseInit, Business, CommitInDoubt, History!HistoryInit,
     History!RunInit
<1>2. IInv /\ NotYetAttempted /\ [Next]_vars => [History!HistoryNext]_(History!historyVars)
  <2>. SUFFICES ASSUME IInv, NotYetAttempted, [Next]_vars
                PROVE  History!HistoryNext \/ UNCHANGED History!historyVars
    OBVIOUS
  <2>1. CASE LeaseTimeout \/ SourceChanges \/ UNCHANGED vars
    BY <2>1, BusinessSame DEF LeaseTimeout, ExpireLease, SourceChanges, vars, runVars,
       controlVars, serverVars, History!historyVars
  <2>. QED
    BY <2>1, LiveStepHistory, FailureStepHistory, OtherStepsHistory DEF Next
<1>. QED
  BY <1>1, <1>2, InductiveInvariant, NothingAttemptedYet, PTL
     DEF Spec, ImplementsHistory, History!HistorySpec

=============================================================================
