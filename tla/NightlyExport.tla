--------------------------- MODULE NightlyExport ----------------------------
(***************************************************************************)
(* The nightly job (scripts/nightly_export.py): invocations of the command *)
(* by the scheduler or by hand, on any number of hosts.  Each one claims   *)
(* its date in job_runs, exports the day, runs the weekly pipeline as a    *)
(* process group of its own, and ends its row.  Signals interrupt it, it   *)
(* can be killed at any moment, and the reply to a COMMIT can be lost.     *)
(*                                                                         *)
(* A row left in processing is ended by nobody but an operator, along the  *)
(* runbook of infra/README.md.                                             *)
(***************************************************************************)
EXTENDS JobRunner

CONSTANT SignalsMeet  \* a second SIGINT or SIGTERM can come so close to a first
                      \* that it finds the clean-up not yet holding signals back

ASSUME SignalsAssumption == SignalsMeet \in BOOLEAN

VARIABLES pc,         \* where each invocation stands
          group,      \* the process group of its pipeline
          answer      \* how the invocation ended: what it logged or returned

vars == <<jobVars, pc, group, answer>>

Acquiring == {"acquire", "acquiring", "read_completed", "read_processing",
              "read_latest"}
Working   == {"export", "complete", "completing"}
Watching  == {"wait", "stop"}
Failing   == {"fail", "failing"}
Answers   == {"none", "completed", "failed", "skipped_completed", "skipped_processing",
              "skipped_conflict", "error", "reconciliation_required", "killed"}

Init == /\ JobInit
        /\ pc = [i \in Invocations |-> "idle"]
        /\ group = [i \in Invocations |-> "none"]
        /\ answer = [i \in Invocations |-> "none"]

Goto(i, from, to) == pc[i] = from /\ pc' = [pc EXCEPT ![i] = to]

\* The invocation is over.
End(i, from, how) == /\ Goto(i, from, "over")
                     /\ answer' = [answer EXCEPT ![i] = how]

-----------------------------------------------------------------------------
(* execute_nightly_run: the claim. *)

Start(i) == /\ Goto(i, "idle", "acquire")
            /\ UNCHANGED <<jobVars, group, answer>>

\* The claim is sent; or an index refuses it, and the winner is looked for.
Acquire(i) ==
  /\ \/ /\ SendAcquisition(i)
        /\ Goto(i, "acquire", "acquiring")
     \/ /\ IndexIsFree /\ Claimed(i)
        /\ Goto(i, "acquire", "read_completed")
        /\ UNCHANGED jobVars
  /\ UNCHANGED <<group, answer>>

AcquireConfirmed(i) ==
  /\ jobStatus[i] = "processing"
  /\ Goto(i, "acquiring", "export")
  /\ UNCHANGED <<jobVars, group, answer>>

\* An error of the COMMIT is never taken for a claim.
AcquireUnconfirmed(i) ==
  /\ End(i, "acquiring", "error")
  /\ UNCHANGED <<jobVars, group>>

\* _read_conflict: three statements, and rows may change between them.
ReadCompleted(i) ==
  /\ IF \E j \in SameDate(i) : jobStatus[j] = "completed"
     THEN End(i, "read_completed", "skipped_completed")
     ELSE Goto(i, "read_completed", "read_processing") /\ UNCHANGED answer
  /\ UNCHANGED <<jobVars, group>>

ReadProcessing(i) ==
  /\ IF \E j \in Invocations : jobStatus[j] = "processing"
     THEN End(i, "read_processing", "skipped_processing")
     ELSE Goto(i, "read_processing", "read_latest") /\ UNCHANGED answer
  /\ UNCHANGED <<jobVars, group>>

\* Mutant: there is always a row to answer with.
ReadLatest_Assumed(i) ==
  /\ \E j \in SameDate(i) : jobStatus[j] # "absent"
  /\ End(i, "read_latest", "skipped_conflict")
  /\ UNCHANGED <<jobVars, group>>

\* The latest row of the date, whatever its status, or none: an error.
ReadLatest(i) ==
  /\ End(i, "read_latest", IF \E j \in SameDate(i) : jobStatus[j] # "absent"
                       THEN "skipped_conflict" ELSE "error")
  /\ UNCHANGED <<jobVars, group>>

\* The database fails before or after the conflict.
AcquisitionFails(i) ==
  /\ \E at \in Acquiring \ {"acquiring"} : End(i, at, "error")
  /\ UNCHANGED <<jobVars, group>>

-----------------------------------------------------------------------------
(* Its work. *)

\* export_telemetry_day publishes the day's file or validates the one it finds; then
\* run_pipeline starts the child, leader of a session of its own.  A signal held
\* back while it was created is one that comes right after.
Export(i) == /\ Goto(i, "export", "wait")
             /\ group' = [group EXCEPT ![i] = "leader"]
             /\ UNCHANGED <<jobVars, answer>>

\* Only exit code zero is a success.
ToVerdict(i) == Goto(i, "wait", "complete") \/ Goto(i, "wait", "fail")

\* Mutant: the exit of the leader is taken for the end of its group.
WaitReturns_LeaderOnly(i) ==
  /\ group[i] # "leader"
  /\ ToVerdict(i)
  /\ UNCHANGED <<jobVars, group, answer>>

\* The leader was reaped.  What is left of its group is stopped, with
\* signals held back, or cannot be confirmed stopped: then the row stays as it is.
WaitReturns(i) ==
  /\ \/ /\ group[i] = "gone"
        /\ ToVerdict(i)
        /\ UNCHANGED <<group, answer>>
     \/ /\ group[i] = "descendants"
        /\ ToVerdict(i)
        /\ group' = [group EXCEPT ![i] = "gone"]
        /\ UNCHANGED answer
     \/ /\ group[i] = "descendants"
        /\ End(i, "wait", "reconciliation_required")
        /\ UNCHANGED group
  /\ UNCHANGED jobVars

\* A signal raises ControlledInterruption: out of the wait, into the clean-up; and
\* out of the clean-up, before _stop_child holds further signals back.
Interrupt(i) ==
  /\ pc[i] \in IF SignalsMeet THEN Watching ELSE {"wait"}
  /\ pc' = [pc EXCEPT ![i] = IF @ = "wait" THEN "stop" ELSE "fail"]
  /\ UNCHANGED <<jobVars, group, answer>>

\* _stop_child: the group is stopped, or cannot be confirmed stopped.
StopChild(i) ==
  /\ \/ /\ Goto(i, "stop", "fail")
        /\ group' = [group EXCEPT ![i] = "gone"]
        /\ UNCHANGED answer
     \/ /\ End(i, "stop", "reconciliation_required")
        /\ UNCHANGED group
  /\ UNCHANGED jobVars

\* An exception or a signal anywhere else in the work; the reply to the COMMIT of
\* the completion may be what is lost.
WorkFails(i) ==
  /\ \E at \in Working : Goto(i, at, "fail")
  /\ UNCHANGED <<jobVars, group, answer>>

-----------------------------------------------------------------------------
(* Its end. *)

\* A transition waits for the transaction that holds the row.
Complete(i) ==
  /\ \/ SendTransition(i, "completed") /\ Goto(i, "complete", "completing")
     \/ /\ sent[i] = "none" /\ ~Finishable(i)
        /\ Goto(i, "complete", "fail")
        /\ UNCHANGED jobVars
  /\ UNCHANGED <<group, answer>>

CompleteConfirmed(i) ==
  /\ jobStatus[i] = "completed"
  /\ End(i, "completing", "completed")
  /\ UNCHANGED <<jobVars, group>>

Fail(i) ==
  /\ SendTransition(i, "failed")
  /\ Goto(i, "fail", "failing")
  /\ UNCHANGED <<group, answer>>

\* Mutant: the result of the transition is not looked at.
FailRefused_Unchecked(i) ==
  /\ sent[i] = "none" /\ ~Finishable(i)
  /\ End(i, "fail", "failed")
  /\ UNCHANGED <<jobVars, group>>

\* The row was not processing any more: its state is not confirmed.
FailRefused(i) ==
  /\ sent[i] = "none" /\ ~Finishable(i)
  /\ End(i, "fail", "error")
  /\ UNCHANGED <<jobVars, group>>

FailConfirmed(i) ==
  /\ jobStatus[i] = "failed"
  /\ End(i, "failing", "failed")
  /\ UNCHANGED <<jobVars, group>>

FailUnconfirmed(i) ==
  /\ \E at \in Failing : End(i, at, "error")
  /\ UNCHANGED <<jobVars, group>>

-----------------------------------------------------------------------------
(* Around it. *)

\* SIGKILL, a lost host, or a signal while no handler is installed.
Killed(i) ==
  /\ \E at \in Acquiring \cup Working \cup Watching \cup Failing : End(i, at, "killed")
  /\ UNCHANGED <<jobVars, group>>

\* The pipeline's leader exits, and may leave Prefect processes behind.
LeaderExits(i) ==
  /\ group[i] = "leader"
  /\ \E rest \in {"descendants", "gone"} : group' = [group EXCEPT ![i] = rest]
  /\ UNCHANGED <<jobVars, pc, answer>>

DescendantsExit(i) ==
  /\ group[i] = "descendants"
  /\ group' = [group EXCEPT ![i] = "gone"]
  /\ UNCHANGED <<jobVars, pc, answer>>

Database(i) == ServerEnds(i) /\ UNCHANGED <<group, pc, answer>>

Running(i) == group[i] \in {"leader", "descendants"}

\* Mutant: only rows somebody logged for reconciliation are reconciled.
Reconcilable_OnlyLogged(i) == /\ pc[i] = "over" /\ ~Running(i) /\ Finishable(i)
                              /\ answer[i] = "reconciliation_required"

\* The runbook: neither the invocation nor a process of its pipeline is active.  It
\* also wants the pipeline's COMMIT confirmed, which is taken to succeed some day.
Reconcilable(i) == pc[i] = "over" /\ ~Running(i) /\ Finishable(i)

OperatorReconciles(i) ==
  /\ Reconcilable(i)
  /\ jobStatus' = [jobStatus EXCEPT ![i] = "failed"]
  /\ UNCHANGED <<sent, group, pc, answer>>

Proceeds(i) ==
  \/ Acquire(i) \/ AcquireConfirmed(i) \/ AcquireUnconfirmed(i)
  \/ ReadCompleted(i) \/ ReadProcessing(i) \/ ReadLatest(i)
  \/ Export(i) \/ WaitReturns(i) \/ StopChild(i)
  \/ Complete(i) \/ CompleteConfirmed(i)
  \/ Fail(i) \/ FailRefused(i) \/ FailConfirmed(i)

Disturbed(i) == \/ AcquisitionFails(i) \/ Interrupt(i) \/ WorkFails(i)
                \/ FailUnconfirmed(i) \/ Killed(i)

Next == \E i \in Invocations :
          \/ Start(i) \/ Proceeds(i) \/ Disturbed(i)
          \/ LeaderExits(i) \/ DescendantsExit(i) \/ Database(i) \/ OperatorReconciles(i)

Spec == Init /\ [][Next]_vars

\* A live invocation goes on and hears of a COMMIT that ended, or gives it up; the
\* database ends every transaction, the pipeline and its processes exit, and the
\* operator follows the runbook.  Nobody is obliged to start, to signal or to kill.
Fairness == \A i \in Invocations :
  /\ WF_vars(Proceeds(i) \/ WorkFails(i) \/ FailUnconfirmed(i))
  /\ WF_vars(Database(i))
  /\ WF_vars(LeaderExits(i)) /\ WF_vars(DescendantsExit(i))
  /\ WF_vars(OperatorReconciles(i))

FairSpec == Spec /\ Fairness

-----------------------------------------------------------------------------
(* What must hold. *)

\* Every column, and every local of an invocation, stays in its domain.
TypeOK ==
  /\ jobStatus \in [Invocations -> JobStatus]
  /\ sent \in [Invocations -> {"none", "processing", "completed", "failed"}]
  /\ pc \in [Invocations -> {"idle", "over"} \cup Acquiring \cup Working
                              \cup Watching \cup Failing]
  /\ group \in [Invocations -> {"none", "leader", "descendants", "gone"}]
  /\ answer \in [Invocations -> Answers]

\* scripts/README.md: "Controlled interrupts terminate the pipeline process group
\* and wait for confirmed exit before the job is released".  While a process of a
\* pipeline runs its row is processing, so no other night can start beside it.
WritersAreOwned == \A i \in Invocations : Running(i) => jobStatus[i] = "processing"

\* No date is completed twice, however often it is invoked and whatever replies are
\* lost, and two invocations never process at once.
CompletedOnce ==
  \A i, j \in Invocations : i # j =>
    /\ ~(jobStatus[i] = "processing" /\ jobStatus[j] = "processing")
    /\ TargetDate[i] = TargetDate[j] =>
         ~(jobStatus[i] = "completed" /\ jobStatus[j] \in {"processing", "completed"})

\* What an invocation logged or returned is what its row says for good: a lost reply
\* is never told as an end, and a date is skipped as completed only if it is.
AnswerMatchesRow ==
  \A i \in Invocations :
    /\ answer[i] \in {"completed", "failed"} => jobStatus[i] = answer[i]
    /\ answer[i] = "skipped_completed" =>
         \E j \in SameDate(i) : jobStatus[j] = "completed"

\* A terminal row never changes, also when the reply to its COMMIT was lost and its
\* invocation, or the operator, goes on to fail it.
FinishedIsFinal ==
  [][\A i \in Invocations : jobStatus[i] \in {"completed", "failed"} =>
       jobStatus'[i] = jobStatus[i]]_vars

\* Every invocation ends, whatever it loses and however its conflict dissolves.
EveryInvocationEnds == \A i \in Invocations : pc[i] # "idle" ~> pc[i] = "over"

\* Whatever was killed or lost, the runbook finds every claim nobody holds.
EveryClaimIsFreed ==
  \A i \in Invocations : jobStatus[i] = "processing" ~> jobStatus[i] # "processing"
=============================================================================
