----------------------------- MODULE TaskQueue ------------------------------
(***************************************************************************)
(* The asynchronous execution of weekly runs (services/task_queue): the    *)
(* acceptance of a request, the relay from the durable outbox to the       *)
(* broker, the Celery workers that claim a task and run the pipeline, and  *)
(* the reconciler.  The tasks of one week are modelled.                    *)
(*                                                                         *)
(* Messages are delivered at least once: the relay publishes again what it *)
(* is not sure to have published, and the broker delivers again what a     *)
(* lost worker had not acknowledged.  The pipeline is seen through         *)
(* RunHistory, which WeeklyPublication implements.                         *)
(***************************************************************************)
EXTENDS TaskStore

CONSTANTS Workers, Relays,
          MaxPublishAttempts   \* TRACKFLOW_RELAY_MAX_PUBLISH_ATTEMPTS

ASSUME PublishAssumption == MaxPublishAttempts \in Nat \ {0}

VARIABLES accepting, \* the transaction that accepts each request: "no", "locked" or "free"
          outbox,    \* row of task_dispatch_outbox of each run
          relay,     \* what each relay process is doing
          queue,     \* copies of each task's message ready in the broker
          delayed,   \* copies that wait for their countdown
          worker,    \* what each worker process is doing
          entries    \* history: how often the pipeline of a run was entered

brokerVars == <<queue, delayed>>
relayVars  == <<outbox, relay>>
workVars   == <<worker, entries>>
vars == <<historyVars, taskVars, accepting, relayVars, brokerVars, workVars>>

\* A relay token is fresh at each claim of an outbox row, and so is the number of
\* publish attempts the claim returns: the latter stands for both.
OutboxRow == [status : DispatchStatus, attempts : 0 .. MaxPublishAttempts,
              lease : {"null", "ahead", "past"}]

IdleRelay  == [at |-> "idle"]
IdleWorker == [at |-> "idle"]

RelayState ==
  [at : {"idle"}] \cup
  [at : {"publish", "confirm", "fail"}, run : Runs, attempts : 1 .. MaxPublishAttempts]

Results == {"succeeded", "blocked_quality", "uncertain", "failed", "raised"}

WorkerState ==
  [at : {"idle"}] \cup
  [at : {"rejected"}, run : Runs] \cup
  [at : {"preflight", "retry", "pipeline"}, run : Runs,
   attempt : 1 .. MaxFailedExecutions] \cup
  [at : {"close"}, run : Runs, attempt : 1 .. MaxFailedExecutions, result : Results]

Init == /\ HistoryInit
        /\ TaskInit
        /\ accepting = [r \in Runs |-> "no"]
        /\ outbox = [r \in Runs |-> [status |-> "pending", attempts |-> 0, lease |-> "null"]]
        /\ relay = [b \in Relays |-> IdleRelay]
        /\ queue = [r \in Runs |-> 0]
        /\ delayed = [r \in Runs |-> 0]
        /\ worker = [w \in Workers |-> IdleWorker]
        /\ entries = [r \in Runs |-> 0]

-----------------------------------------------------------------------------
(* Acceptance and relay. *)

\* Mutant: the lock of the week is not taken.
LocksWeek_Never(r) ==
  /\ status[r] = "absent"
  /\ accepting[r] = "no"
  /\ accepting' = [accepting EXCEPT ![r] = "locked"]
  /\ UNCHANGED <<historyVars, taskVars, relayVars, brokerVars, workVars>>

\* accept_async_task is one transaction.  It waits for the advisory lock of the week ...
LocksWeek(r) ==
  /\ status[r] = "absent"
  /\ \A s \in Runs : accepting[s] = "no"
  /\ accepting' = [accepting EXCEPT ![r] = "locked"]
  /\ UNCHANGED <<historyVars, taskVars, relayVars, brokerVars, workVars>>

\* ... looks for an active run, and refuses the request (409) if there is one ...
LooksForRun(r) ==
  /\ accepting[r] = "locked"
  /\ accepting' = [accepting EXCEPT ![r] =
                     IF \E s \in Runs : status[s] \in Active THEN "no" ELSE "free"]
  /\ UNCHANGED <<historyVars, taskVars, relayVars, brokerVars, workVars>>

\* ... then inserts run, task and outbox row.  The COMMIT releases the lock; that its reply
\* may be lost changes nothing in the tables.
Accept(r) ==
  /\ accepting[r] = "free"
  /\ accepting' = [accepting EXCEPT ![r] = "no"]
  /\ OpenRun(r)
  /\ InsertTask(r)
  /\ UNCHANGED <<deadLetters, relayVars, brokerVars, workVars>>

\* The transaction is rolled back (503), which releases the lock too.
AcceptanceFails(r) ==
  /\ accepting[r] # "no"
  /\ accepting' = [accepting EXCEPT ![r] = "no"]
  /\ UNCHANGED <<historyVars, taskVars, relayVars, brokerVars, workVars>>

Publishable == {"pending", "retry_wait", "publication_uncertain"}

\* Mutant: attempts are only bounded where a publication fails.
Swept_WithoutExhaustion(r) ==
  IF outbox[r].status = "publishing" /\ outbox[r].lease = "past"
  THEN "publication_uncertain" ELSE outbox[r].status

\* The first two statements of _claim_one, for one row.
Swept(r) ==
  LET seen == IF outbox[r].status = "publishing" /\ outbox[r].lease = "past"
              THEN "publication_uncertain" ELSE outbox[r].status
  IN IF seen \in Publishable /\ outbox[r].attempts >= MaxPublishAttempts
     THEN "reconciliation_required" ELSE seen

SweptOutbox == [r \in Runs |-> [outbox[r] EXCEPT !.status = Swept(r)]]

\* The third: exhausted dispatches show in their tasks.
SweepTasks ==
  task' = [r \in Runs |->
             IF Swept(r) = "reconciliation_required"
             THEN [task[r] EXCEPT !.dispatch = "reconciliation_required"] ELSE task[r]]

\* _claim_one, when a row is ready: swept, then claimed under a fresh token.
RelayClaims(b, r) ==
  /\ relay[b] = IdleRelay
  /\ task[r].state # "absent"
  /\ Swept(r) \in Publishable
  /\ outbox[r].attempts < MaxPublishAttempts
  /\ outbox[r].lease # "ahead"
  /\ SweepTasks
  /\ outbox' = [SweptOutbox EXCEPT ![r].status = "publishing",
                                   ![r].attempts = @ + 1,
                                   ![r].lease = "ahead"]
  /\ relay' = [relay EXCEPT ![b] = [at |-> "publish", run |-> r,
                                    attempts |-> outbox[r].attempts + 1]]
  /\ UNCHANGED <<accepting, historyVars, deadLetters, brokerVars, workVars>>

\* _claim_one, when no row is ready or another relay holds it.
RelaySweeps(b) ==
  /\ relay[b] = IdleRelay
  /\ SweepTasks
  /\ outbox' = SweptOutbox
  /\ UNCHANGED <<accepting, historyVars, deadLetters, relay, brokerVars, workVars>>

\* send_task returns, or raises with or without the broker having the message.
Publish(b) ==
  /\ relay[b].at = "publish"
  /\ \E sent, returned \in BOOLEAN :
        /\ returned => sent
        /\ relay' = [relay EXCEPT ![b].at = IF returned THEN "confirm" ELSE "fail"]
        /\ queue' = [queue EXCEPT ![relay[b].run] = IF sent THEN @ + 1 ELSE @]
  /\ UNCHANGED <<accepting, historyVars, taskVars, outbox, delayed, workVars>>

HoldsDispatch(b) == LET r == relay[b].run IN
  outbox[r].status = "publishing" /\ outbox[r].attempts = relay[b].attempts

\* The publication is recorded, unless the claim of the row was lost.
RelayConfirms(b) ==
  /\ relay[b].at = "confirm"
  /\ LET r == relay[b].run IN
     IF HoldsDispatch(b)
     THEN /\ outbox' = [outbox EXCEPT ![r].status = "published", ![r].lease = "null"]
          /\ task' = [task EXCEPT ![r].dispatch = "published",
                                  ![r].state = IF @ = "accepted" THEN "queued" ELSE @]
     ELSE UNCHANGED <<outbox, task>>
  /\ relay' = [relay EXCEPT ![b] = IdleRelay]
  /\ UNCHANGED <<accepting, historyVars, deadLetters, brokerVars, workVars>>

\* Mutant: the last attempt is announced one attempt too early.
RelayFails_OneEarly(b) ==
  /\ relay[b].at = "fail"
  /\ LET r == relay[b].run
         last == relay[b].attempts >= MaxPublishAttempts
     IN /\ outbox' = IF HoldsDispatch(b)
                     THEN [outbox EXCEPT ![r].status = IF last THEN "reconciliation_required"
                                                               ELSE "retry_wait",
                                         ![r].lease = "null"]
                     ELSE outbox
        /\ task' = IF relay[b].attempts + 1 >= MaxPublishAttempts
                   THEN [task EXCEPT ![r].dispatch = "reconciliation_required"] ELSE task
  /\ relay' = [relay EXCEPT ![b] = IdleRelay]
  /\ UNCHANGED <<accepting, historyVars, deadLetters, brokerVars, workVars>>

\* The failure is recorded; the task's own column without looking at the claim.
RelayFails(b) ==
  /\ relay[b].at = "fail"
  /\ LET r == relay[b].run
         last == relay[b].attempts >= MaxPublishAttempts
     IN /\ outbox' = IF HoldsDispatch(b)
                     THEN [outbox EXCEPT ![r].status = IF last THEN "reconciliation_required"
                                                               ELSE "retry_wait",
                                         ![r].lease = "null"]
                     ELSE outbox
        /\ task' = IF last THEN [task EXCEPT ![r].dispatch = "reconciliation_required"]
                           ELSE task
  /\ relay' = [relay EXCEPT ![b] = IdleRelay]
  /\ UNCHANGED <<accepting, historyVars, deadLetters, brokerVars, workVars>>

-----------------------------------------------------------------------------
(* A worker handles one message: run_weekly_pipeline_task. *)

Busy(w, at) == worker[w].at = at
RunOf(w) == worker[w].run

\* The worker returns or raises: late acknowledgement removes the message.
Done(w) == worker' = [worker EXCEPT ![w] = IdleWorker]

\* The claim, in its own transaction.
ReceiveAndClaim(w, r) ==
  /\ worker[w] = IdleWorker
  /\ queue[r] > 0
  /\ queue' = [queue EXCEPT ![r] = @ - 1]
  /\ \/ /\ ClaimExecution(r)
        /\ worker' = [worker EXCEPT ![w] = [at |-> "preflight", run |-> r,
                                            attempt |-> task'[r].attempt]]
     \/ /\ ~Claimable(r)
        /\ worker' = [worker EXCEPT ![w] = [at |-> "rejected", run |-> r]]
        /\ UNCHANGED taskVars
  /\ UNCHANGED <<accepting, historyVars, relayVars, delayed, entries>>

\* The runtime was built and probed; the boundary into Prefect is fenced.
EnterPipeline(w) ==
  /\ Busy(w, "preflight")
  /\ LET r == RunOf(w) IN
     \/ /\ CanStart(r, worker[w].attempt)
        /\ StartPrefect(r)
        /\ worker' = [worker EXCEPT ![w].at = "pipeline"]
        /\ entries' = [entries EXCEPT ![r] = @ + 1]
     \/ /\ ~CanStart(r, worker[w].attempt)
        /\ Done(w)
        /\ UNCHANGED <<task, entries>>
  /\ UNCHANGED <<accepting, historyVars, deadLetters, relayVars, brokerVars>>

\* OperationalError with attempts left: the retry is scheduled ...
ProbeFails(w) ==
  /\ Busy(w, "preflight")
  /\ worker[w].attempt < MaxFailedExecutions
  /\ ScheduleRetry(RunOf(w), worker[w].attempt)
  /\ worker' = [worker EXCEPT ![w].at = "retry"]
  /\ UNCHANGED <<accepting, historyVars, deadLetters, relayVars, brokerVars, entries>>

\* ... and then published with a countdown, by self.retry.
PublishRetry(w) ==
  /\ Busy(w, "retry")
  /\ delayed' = [delayed EXCEPT ![RunOf(w)] = @ + 1]
  /\ Done(w)
  /\ UNCHANGED <<accepting, historyVars, taskVars, relayVars, queue, entries>>

\* The last OperationalError, or any other exception before the pipeline.
PreflightFails(w) ==
  /\ Busy(w, "preflight")
  /\ CloseAsFailure(RunOf(w), worker[w].attempt, "claimed")
  /\ Done(w)
  /\ UNCHANGED <<accepting, historyVars, relayVars, brokerVars, entries>>

\* The heartbeat thread renews the claim while the pipeline runs.
Heartbeat(w) ==
  /\ Busy(w, "pipeline")
  /\ HeartbeatExecution(RunOf(w), worker[w].attempt)
  /\ UNCHANGED <<accepting, historyVars, deadLetters, relayVars, brokerVars, workVars>>

\* The pipeline moves on inside run_weekly_pipeline.
PipelineAdvances(w) ==
  /\ Busy(w, "pipeline")
  /\ BeginPublication(RunOf(w)) \/ CommitIsSent(RunOf(w))
  /\ UNCHANGED <<accepting, taskVars, relayVars, brokerVars, workVars>>

Returns(w, result) ==
  worker' = [worker EXCEPT ![w] = [at |-> "close", run |-> worker[w].run,
                                   attempt |-> worker[w].attempt, result |-> result]]

\* It returns after recording the fate of the run.  The result of a verification
\* that raised does not carry the "uncertain" its row has.
PipelineReturns(w) ==
  /\ Busy(w, "pipeline")
  /\ LET r == RunOf(w) IN
     \/ /\ WithholdPending(r)
        /\ Returns(w, IF status'[r] = "blocked_quality" THEN "blocked_quality" ELSE "failed")
     \/ /\ WithholdRunning(r)
        /\ Returns(w, IF commitResult'[r] = "uncertain" THEN "uncertain"
                      ELSE IF status'[r] = "blocked_quality" THEN "blocked_quality"
                      ELSE "failed")
     \/ /\ business[r] # "none"
        /\ ObserveCommit(r)
        /\ Returns(w, "uncertain")
     \/ /\ RecordSuccess(r)
        /\ Returns(w, "succeeded")
  /\ UNCHANGED <<accepting, taskVars, relayVars, brokerVars, entries>>

\* An exception leaves it, or the soft time limit does.
PipelineRaises(w) ==
  /\ Busy(w, "pipeline")
  /\ Returns(w, "raised")
  /\ UNCHANGED <<accepting, historyVars, taskVars, relayVars, brokerVars, entries>>

Verdict(state, published) == [state |-> state, published |-> published]

\* The verdict on the task: state and published.
Answer(result) == CASE result = "succeeded"       -> Verdict("succeeded", "yes")
                    [] result = "blocked_quality" -> Verdict("succeeded", "no")
                    [] OTHER -> Verdict("reconciliation_required", "null")

\* The result of the pipeline closes the task, if the claim still holds.
CloseTask(w) ==
  /\ Busy(w, "close")
  /\ IF worker[w].result = "failed"
     THEN CloseAsFailure(RunOf(w), worker[w].attempt, "running")
     ELSE /\ CloseClaim(RunOf(w), worker[w].attempt, "running",
                        Answer(worker[w].result).state, Answer(worker[w].result).published)
          /\ UNCHANGED deadLetters
  /\ Done(w)
  /\ UNCHANGED <<accepting, historyVars, relayVars, brokerVars, entries>>

-----------------------------------------------------------------------------
(* reconcile_task, from the relay's loop or from a worker refused a claim. *)

\* Mutant: an open run is taken for one that failed.
HistoryVerdict_OpenFails(r) ==
  CASE commitResult[r] = "uncertain" -> Verdict("reconciliation_required", "null")
    [] status[r] \in Successes       -> Verdict("succeeded", "yes")
    [] status[r] = "blocked_quality" -> Verdict("succeeded", "no")
    [] OTHER                         -> Verdict("failed", "no")

\* What the run history decides about a task; "open" when it decides nothing.
HistoryVerdict(r) ==
  CASE commitResult[r] = "uncertain" -> Verdict("reconciliation_required", "null")
    [] status[r] \in Successes /\ commitResult[r] = "technically_observed"
                                     -> Verdict("succeeded", "yes")
    [] status[r] = "blocked_quality" -> Verdict("succeeded", "no")
    [] status[r] \in {"superseded", "skipped_in_progress", "failed_retryable"}
                                     -> Verdict("failed", "no")
    [] OTHER                         -> Verdict("open", "null")

Abandoned(r) == task[r].state = "running" /\ task[r].deadline = "past"

\* Mutant: a closed task is reconciled again.
Reconcile_Reopening(r) ==
  LET verdict == HistoryVerdict(r) IN
  /\ task' = IF verdict.state # "open"
             THEN [task EXCEPT ![r].state = verdict.state, ![r].published = verdict.published,
                               ![r].token = 0, ![r].deadline = "null"]
             ELSE IF Abandoned(r)
             THEN [task EXCEPT ![r].state = "reconciliation_required",
                               ![r].published = "null", ![r].deadline = "null"]
             ELSE task
  /\ UNCHANGED deadLetters

\* An open task is closed by the history of its run, whatever its claim says, or
\* as abandoned; a missing dead letter is inserted again.
Reconcile(r) ==
  LET verdict == HistoryVerdict(r) IN
  \/ /\ task[r].state = "failure_pending_dlq"
     /\ \E inserted \in BOOLEAN :
           /\ DeadLetterInserted(r, inserted)
           /\ task' = IF inserted THEN [task EXCEPT ![r].state = "dead_lettered"] ELSE task
  \/ /\ task[r].state \in Waiting \cup Owned
     /\ task' = IF verdict.state # "open"
                THEN [task EXCEPT ![r].state = verdict.state, ![r].published = verdict.published,
                                  ![r].token = 0, ![r].deadline = "null"]
                ELSE IF Abandoned(r)
                THEN [task EXCEPT ![r].state = "reconciliation_required",
                                  ![r].published = "null", ![r].deadline = "null"]
                ELSE task
     /\ UNCHANGED deadLetters
  \/ /\ task[r].state \in Closed \ {"failure_pending_dlq"}
     /\ UNCHANGED taskVars

\* A worker whose message found nothing to claim reconciles and gives it up.
ReconcileRejected(w) ==
  /\ Busy(w, "rejected")
  /\ Reconcile(RunOf(w))
  /\ Done(w)
  /\ UNCHANGED <<accepting, historyVars, relayVars, brokerVars, entries>>

\* Mutant: only tasks whose run is over are looked for.
Reconcilable_OnlyTerminalRuns(r) ==
  \/ task[r].state = "failure_pending_dlq"
  \/ task[r].state \in Owned /\ task[r].deadline = "past" /\ status[r] \in Terminal

\* The candidates of reconcile_one.
Reconcilable(r) ==
  \/ task[r].state = "failure_pending_dlq"
  \/ Abandoned(r)
  \/ task[r].state \in Owned /\ task[r].deadline = "past" /\ status[r] \in Terminal

ReconcileOne(r) ==
  /\ Reconcilable(r)
  /\ Reconcile(r)
  /\ UNCHANGED <<accepting, historyVars, relayVars, brokerVars, workVars>>

-----------------------------------------------------------------------------
(* The server, the clocks, and what goes wrong. *)

ServerAnswers(r) ==
  /\ business[r] = "sent"
  /\ CommitLands(r) \/ TransactionAborts(r)
  /\ UNCHANGED <<accepting, taskVars, relayVars, brokerVars, workVars>>

TaskDeadline(r) ==
  /\ DeadlinePasses(r)
  /\ UNCHANGED <<accepting, historyVars, relayVars, brokerVars, workVars>>

RelayDeadline(r) ==
  /\ outbox[r].lease = "ahead"
  /\ outbox' = [outbox EXCEPT ![r].lease = "past"]
  /\ UNCHANGED <<accepting, historyVars, taskVars, relay, brokerVars, workVars>>

\* A countdown ends, never before the next_attempt_at computed just before it.
CountdownEnds(r) ==
  /\ delayed[r] > 0
  /\ task[r].state = "retry_wait" => task[r].deadline = "past"
  /\ queue' = [queue EXCEPT ![r] = @ + delayed[r]]
  /\ delayed' = [delayed EXCEPT ![r] = 0]
  /\ UNCHANGED <<accepting, historyVars, taskVars, relayVars, workVars>>

\* The process of a worker is lost: the broker delivers its message again.
WorkerLost(w) ==
  /\ worker[w] # IdleWorker
  /\ queue' = [queue EXCEPT ![RunOf(w)] = @ + 1]
  /\ Done(w)
  /\ UNCHANGED <<accepting, historyVars, taskVars, relayVars, delayed, entries>>

\* The handler ends with an exception of its own, or at the hard time limit: the
\* message is acknowledged and nothing is recorded.
WorkerGivesUp(w) ==
  /\ worker[w] # IdleWorker
  /\ Done(w)
  /\ UNCHANGED <<accepting, historyVars, taskVars, relayVars, brokerVars, entries>>

RelayLost(b) ==
  /\ relay[b] # IdleRelay
  /\ relay' = [relay EXCEPT ![b] = IdleRelay]
  /\ UNCHANGED <<accepting, historyVars, taskVars, outbox, brokerVars, workVars>>

-----------------------------------------------------------------------------

RelayStep(b) ==
  \/ \E r \in Runs : RelayClaims(b, r)
  \/ RelaySweeps(b) \/ Publish(b) \/ RelayConfirms(b) \/ RelayFails(b)

WorkerStep(w) ==
  \/ \E r \in Runs : ReceiveAndClaim(w, r)
  \/ ReconcileRejected(w) \/ EnterPipeline(w) \/ PublishRetry(w)
  \/ PipelineAdvances(w) \/ PipelineReturns(w) \/ CloseTask(w)

Clock(r) == TaskDeadline(r) \/ RelayDeadline(r) \/ CountdownEnds(r)

Acceptance(r) == LocksWeek(r) \/ LooksForRun(r) \/ Accept(r) \/ AcceptanceFails(r)

Next ==
  \/ \E r \in Runs : Acceptance(r) \/ ReconcileOne(r) \/ ServerAnswers(r) \/ Clock(r)
  \/ \E b \in Relays : RelayStep(b) \/ RelayLost(b)
  \/ \E w \in Workers : \/ WorkerStep(w) \/ Heartbeat(w)
                        \/ ProbeFails(w) \/ PreflightFails(w) \/ PipelineRaises(w)
                        \/ WorkerLost(w) \/ WorkerGivesUp(w)

Spec == Init /\ [][Next]_vars

\* Relays, workers, reconciler, server and clocks keep going, and a dead letter
\* that can be inserted is inserted some day.  Nobody is obliged to request, to
\* send a heartbeat, to fail or to be lost.
Fairness ==
  /\ \A b \in Relays : /\ WF_vars(\E r \in Runs : RelayClaims(b, r))
                        /\ WF_vars(RelaySweeps(b))
                        /\ WF_vars(Publish(b) \/ RelayConfirms(b) \/ RelayFails(b))
  /\ \A w \in Workers : WF_vars(WorkerStep(w))
  /\ \A r \in Runs : /\ WF_vars(ReconcileOne(r))
                      /\ WF_vars(ServerAnswers(r))
                      /\ WF_vars(TaskDeadline(r))
                      /\ WF_vars(RelayDeadline(r))
                      /\ WF_vars(CountdownEnds(r))

FairSpec == Spec /\ Fairness

-----------------------------------------------------------------------------
(* What must hold. *)

\* Every row, and every local of a process, stays in its domain.
TypeOK ==
  /\ RunTypeOK
  /\ TaskTypeOK
  /\ business \in [Runs -> {"none", "sent", "committed", "aborted"}]
  /\ accepting \in [Runs -> {"no", "locked", "free"}]
  /\ outbox \in [Runs -> OutboxRow]
  /\ relay \in [Relays -> RelayState]
  /\ queue \in [Runs -> Nat]
  /\ delayed \in [Runs -> Nat]
  /\ worker \in [Workers -> WorkerState]
  /\ entries \in [Runs -> Nat]

\* However often a message is published, delivered again or retried, and however
\* late a worker wakes up, the pipeline of a task is entered once at most.
OneExecution == \A r \in Runs : entries[r] <= 1

\* "published" in the answer of GET /tasks/{task_id} agrees with the server: yes
\* only for a COMMIT that landed, no only if none landed or can still land.
TruthfulAnswer ==
  \A r \in Runs :
    /\ task[r].published = "yes" => business[r] = "committed"
    /\ task[r].published = "no"  => business[r] \notin {"sent", "committed"}

\* The outbox row and the task tell the same end of the dispatch, although a
\* failing relay writes the task's column without looking at its claim.
DispatchEnds == {"published", "reconciliation_required"}
DispatchAgrees ==
  \A r \in Runs :
    outbox[r].status \in DispatchEnds \/ task[r].dispatch \in DispatchEnds =>
      outbox[r].status = task[r].dispatch

\* Two accepted requests of a week are never open together, though they arrive at the same
\* time and each looks before it inserts, so a COMMIT on its way meets no other publication
\* of a request, even after its worker is lost.
OneOpenRequest ==
  \A r, s \in Runs : r # s /\ (status[r] \in Active \/ business[r] = "sent") =>
                       status[s] \notin Active /\ business[s] # "sent"

\* What a client was once told is final, success or failure, and so is what it
\* was told of the publication, whoever closes the task again or late.
AnswerIsFinal ==
  [][\A r \in Runs :
       LET told == PublicStatus(task[r].state) IN
       told \in {"success", "failure"} =>
         /\ PublicStatus(task'[r].state) = told
         /\ task'[r].published = task[r].published]_vars

\* A task that entered the pipeline is closed, by its worker or, when the worker
\* is lost or gave up, by the reconciler.
RunningTaskEnds == \A r \in Runs : task[r].state = "running" ~> task[r].state \in Closed

\* The dispatch of an accepted task ends, whatever relays are lost on the way.
DispatchSettles ==
  \A r \in Runs : task[r].state # "absent" ~> task[r].dispatch \in DispatchEnds

-----------------------------------------------------------------------------
(* What a document of the repository says, and the code does not.             *)

\* PIPELINE_DESIGN.md: failures do not prevent a week from being tried again.
\* The run of a task that failed for good does not keep its week occupied.
FailureFreesItsWeek ==
  \A r \in Runs : task[r].state = "dead_lettered" ~> status[r] \notin Active
=============================================================================
