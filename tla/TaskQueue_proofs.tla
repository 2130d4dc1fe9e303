-------------------------- MODULE TaskQueue_proofs --------------------------
(***************************************************************************)
(* Proofs about TaskQueue for any runs, workers, relays and bounds: what   *)
(* holds of the durable rows however often a message is published, lost,   *)
(* delayed or delivered again.                                             *)
(***************************************************************************)
EXTENDS TaskQueue, TLAPS

-----------------------------------------------------------------------------
(* The inductive invariant, one part per run, worker or relay. *)

\* The status of a run and what the server has of its COMMIT.
Fate(r) ==
  /\ status[r] \in {"absent", "pending"} => business[r] = "none"
  /\ business[r] = "sent" => status[r] = "running"
  /\ status[r] \in Successes => business[r] = "committed"
  /\ status[r] \in Withheld => business[r] \in {"none", "aborted"}

\* Before its request a run has a task nobody has touched; until its pipeline is
\* entered it is pending at most, and only a started or closed task was entered.
Opened(r) ==
  /\ status[r] = "absent" =>
       /\ task[r].state = "absent" /\ task[r].dispatch = "pending" /\ task[r].published = "null"
       /\ outbox[r].status = "pending" /\ outbox[r].attempts = 0
  /\ entries[r] \in {0, 1}
  /\ entries[r] = 0 => status[r] \in {"absent", "pending"}
  /\ task[r].state \in {"absent", "claimed"} \cup Waiting => entries[r] = 0

\* Only a closed task tells of a publication; what it tells can no longer change.
Told(r) ==
  /\ task[r].published # "null" => task[r].state \in Closed
  /\ task[r].published = "yes" => business[r] = "committed"
  /\ task[r].published = "no" => status[r] \in Withheld \/ entries[r] = 0

RunInv(r) == Fate(r) /\ Opened(r) /\ Told(r)

\* A worker in the pipeline, or back from it, is the one that entered it; the
\* result it carries is the fate of the run.
WorkerInv(w) ==
  /\ worker[w].at \in {"pipeline", "close"} => entries[worker[w].run] = 1
  /\ worker[w].at = "close" =>
       /\ worker[w].result = "succeeded" => business[worker[w].run] = "committed"
       /\ worker[w].result \in {"blocked_quality", "failed"} =>
            status[worker[w].run] \in Withheld

OneActive == \A r, s \in Runs : r # s /\ status[r] \in Active => status[s] \notin Active

\* The end of a dispatch is told by both rows, and the last attempt is either
\* under way or has ended the dispatch.
DispatchInv(r) ==
  /\ outbox[r].status \in DispatchEnds \/ task[r].dispatch \in DispatchEnds =>
       outbox[r].status = task[r].dispatch
  /\ outbox[r].attempts = MaxPublishAttempts =>
       outbox[r].status \in {"publishing"} \cup DispatchEnds

\* A relay holds an attempt of its own, and while no later one was claimed nobody
\* else can have recorded a publication.
RelayInv(b) ==
  relay[b].at # "idle" =>
    /\ relay[b].attempts <= outbox[relay[b].run].attempts
    /\ relay[b].attempts = outbox[relay[b].run].attempts =>
         outbox[relay[b].run].status
           \in {"publishing", "publication_uncertain", "reconciliation_required"}

RelaysDiffer ==
  \A b, c \in Relays :
    b # c /\ relay[b].at # "idle" /\ relay[c].at # "idle" /\ relay[b].run = relay[c].run =>
      relay[b].attempts # relay[c].attempts

DispatchSide == (\A r \in Runs : DispatchInv(r)) /\ (\A b \in Relays : RelayInv(b))
                /\ RelaysDiffer

RunSide == (\A r \in Runs : RunInv(r)) /\ (\A w \in Workers : WorkerInv(w)) /\ OneActive

\* One transaction holds the lock of the week, and what it saw there stays true until it ends:
\* no other step makes a run active.
AcceptSide ==
  /\ \A r, s \in Runs : r # s /\ accepting[r] # "no" => accepting[s] = "no"
  /\ \A r, s \in Runs : accepting[r] = "free" => status[s] \notin Active

IInv == TypeOK /\ RunSide /\ DispatchSide /\ AcceptSide

-----------------------------------------------------------------------------
(* Type correctness. *)

\* A step of the system, by who takes it.
LEMMA NextCases ==
  ASSUME Next
  PROVE  \/ \E r \in Runs : Accept(r) \/ ReconcileOne(r) \/ ServerAnswers(r)
         \/ \E r \in Runs : LocksWeek(r) \/ LooksForRun(r) \/ AcceptanceFails(r)
         \/ \E r \in Runs : TaskDeadline(r) \/ RelayDeadline(r) \/ CountdownEnds(r)
         \/ \E b \in Relays, r \in Runs : RelayClaims(b, r)
         \/ \E b \in Relays : \/ RelaySweeps(b) \/ Publish(b) \/ RelayConfirms(b)
                              \/ RelayFails(b) \/ RelayLost(b)
         \/ \E w \in Workers, r \in Runs : ReceiveAndClaim(w, r)
         \/ \E w \in Workers : \/ ReconcileRejected(w) \/ EnterPipeline(w)
                               \/ PublishRetry(w) \/ PipelineAdvances(w)
                               \/ PipelineReturns(w) \/ CloseTask(w) \/ Heartbeat(w)
                               \/ ProbeFails(w) \/ PreflightFails(w)
                               \/ PipelineRaises(w) \/ WorkerLost(w) \/ WorkerGivesUp(w)
BY DEF Next, Acceptance, Clock, RelayStep, WorkerStep

LEMMA TypeInit == Init => TypeOK
BY PublishAssumption, AttemptsAssumption
DEF Init, HistoryInit, RunInit, TaskInit, TypeOK, RunTypeOK, TaskTypeOK, RunStatus,
    CommitResult, TaskRow, NewTask, DispatchStatus, OutboxRow, RelayState, IdleRelay,
    WorkerState, IdleWorker

\* What the statements of the store leave in the row of a task.
LEMMA FencedType ==
  ASSUME TypeOK, NEW r \in Runs, NEW a, NEW s, NEW row \in TaskRow, IfHeld(r, a, s, row)
  PROVE  task' \in [Runs -> TaskRow]
<1>1. task \in [Runs -> TaskRow] BY DEF TypeOK, TaskTypeOK
<1>2. task' = [task EXCEPT ![r] = row] \/ task' = task BY DEF IfHeld
<1> QED BY <1>1, <1>2

LEMMA CloseType ==
  ASSUME TypeOK, NEW r \in Runs, NEW a, NEW from, NEW s \in Closed,
         NEW p \in {"null", "yes", "no"}, CloseClaim(r, a, from, s, p)
  PROVE  task' \in [Runs -> TaskRow]
<1>1. task[r] \in TaskRow BY DEF TypeOK, TaskTypeOK
<1>2. [task[r] EXCEPT !.state = s, !.deadline = "null", !.published = p] \in TaskRow
  BY <1>1 DEF TaskRow
<1> QED BY <1>2, FencedType DEF CloseClaim

LEMMA FailureType ==
  ASSUME TypeOK, NEW r \in Runs, NEW a, NEW from, CloseAsFailure(r, a, from)
  PROVE  TaskTypeOK'
<1>1. PICK inserted \in BOOLEAN :
        /\ DeadLetterInserted(r, inserted)
        /\ CloseClaim(r, a, from,
                      IF inserted THEN "dead_lettered" ELSE "failure_pending_dlq", "no")
  BY DEF CloseAsFailure
<1>2. task' \in [Runs -> TaskRow] BY <1>1, CloseType DEF Closed
<1>3. deadLetters' \subseteq Runs
  BY <1>1 DEF DeadLetterInserted, TypeOK, TaskTypeOK
<1> QED BY <1>2, <1>3 DEF TaskTypeOK

\* Reconciliation inserts a missing dead letter, closes an open task by its run's
\* history, closes an abandoned one, or changes nothing.
Settled(r, s, p) ==
  /\ task[r].state \in Waiting \cup Owned
  /\ UNCHANGED deadLetters
  /\ task' = [task EXCEPT ![r] = [@ EXCEPT !.state = s, !.published = p,
                                           !.token = 0, !.deadline = "null"]]

LEMMA ReconcileCases ==
  ASSUME TypeOK, NEW r \in Runs, Reconcile(r)
  PROVE  \/ UNCHANGED taskVars
         \/ /\ task[r].state = "failure_pending_dlq"
            /\ deadLetters' = deadLetters \cup {r}
            /\ task' = [task EXCEPT ![r] = [@ EXCEPT !.state = "dead_lettered"]]
         \/ Settled(r, "reconciliation_required", "null")
         \/ Settled(r, "succeeded", "yes") /\ status[r] \in Successes
         \/ Settled(r, "succeeded", "no") /\ status[r] \in Withheld
         \/ Settled(r, "failed", "no") /\ status[r] \in Withheld
         \/ /\ task[r].state = "running"
            /\ UNCHANGED deadLetters
            /\ task' = [task EXCEPT ![r] = [@ EXCEPT !.state = "reconciliation_required",
                                              !.published = "null", !.deadline = "null"]]
<1>1. CASE task[r].state \in Closed \ {"failure_pending_dlq"}
  BY <1>1 DEF Reconcile, Closed, Waiting, Owned
<1>2. CASE task[r].state = "failure_pending_dlq"
  <2>1. PICK inserted \in BOOLEAN :
          /\ DeadLetterInserted(r, inserted)
          /\ task' = IF inserted THEN [task EXCEPT ![r].state = "dead_lettered"] ELSE task
    BY <1>2 DEF Reconcile, Closed, Waiting, Owned
  <2>2. CASE inserted BY <1>2, <2>1, <2>2 DEF DeadLetterInserted
  <2>3. CASE ~inserted BY <2>1, <2>3 DEF DeadLetterInserted, taskVars
  <2> QED BY <2>2, <2>3
<1>3. CASE task[r].state \in Waiting \cup Owned
  <2> DEFINE v == HistoryVerdict(r)
  <2>1. /\ UNCHANGED deadLetters
        /\ task' = IF v.state # "open"
                   THEN [task EXCEPT ![r].state = v.state, ![r].published = v.published,
                                     ![r].token = 0, ![r].deadline = "null"]
                   ELSE IF Abandoned(r)
                   THEN [task EXCEPT ![r].state = "reconciliation_required",
                                     ![r].published = "null", ![r].deadline = "null"]
                   ELSE task
    BY <1>3 DEF Reconcile, Waiting, Owned, Closed
  <2>2. \/ v = Verdict("reconciliation_required", "null")
        \/ v = Verdict("succeeded", "yes") /\ status[r] \in Successes
        \/ v = Verdict("succeeded", "no") /\ status[r] \in Withheld
        \/ v = Verdict("failed", "no") /\ status[r] \in Withheld
        \/ v = Verdict("open", "null")
    BY DEF HistoryVerdict, Withheld
  <2> HIDE DEF v
  <2>3. CASE v = Verdict("open", "null")
    <3>1. v.state = "open" BY <2>3 DEF Verdict
    <3>2. CASE Abandoned(r) BY <2>1, <3>1, <3>2 DEF Abandoned
    <3>3. CASE ~Abandoned(r) BY <2>1, <3>1, <3>3 DEF taskVars
    <3> QED BY <3>2, <3>3
  <2>4. ASSUME NEW s \in Closed, NEW p, v = Verdict(s, p) PROVE Settled(r, s, p)
    <3>1. v.state = s /\ v.published = p /\ s # "open" BY <2>4 DEF Verdict, Closed
    <3> QED BY <1>3, <2>1, <3>1 DEF Settled
  <2> QED BY <2>2, <2>3, <2>4 DEF Closed
<1> QED BY <1>1, <1>2, <1>3 DEF Reconcile

LEMMA ReconcileType ==
  ASSUME TypeOK, NEW r \in Runs, Reconcile(r)
  PROVE  TaskTypeOK'
<1>0. task[r] \in TaskRow BY DEF TypeOK, TaskTypeOK
<1>1. ASSUME NEW s \in Closed, NEW p \in {"null", "yes", "no"}, Settled(r, s, p)
      PROVE  TaskTypeOK'
  <2>1. 0 \in 0 .. MaxFailedExecutions BY AttemptsAssumption
  <2>2. [task[r] EXCEPT !.state = s, !.published = p, !.token = 0, !.deadline = "null"]
          \in TaskRow
    BY <1>0, <2>1 DEF TaskRow
  <2> QED BY <1>1, <2>2 DEF Settled, TypeOK, TaskTypeOK
<1>2. /\ [task[r] EXCEPT !.state = "dead_lettered"] \in TaskRow
      /\ [task[r] EXCEPT !.state = "reconciliation_required",
                         !.published = "null", !.deadline = "null"] \in TaskRow
  <2>1. {"dead_lettered", "reconciliation_required"} \subseteq Closed BY DEF Closed
  <2> QED BY <1>0, <2>1 DEF TaskRow
<1> QED BY <1>1, <1>2, ReconcileCases DEF TypeOK, TaskTypeOK, Closed, taskVars

LEMMA SweepType ==
  ASSUME TypeOK, SweepTasks
  PROVE  /\ task' \in [Runs -> TaskRow]
         /\ SweptOutbox \in [Runs -> OutboxRow]
<1>1. ASSUME NEW r \in Runs
      PROVE  /\ Swept(r) \in DispatchStatus
             /\ [task[r] EXCEPT !.dispatch = "reconciliation_required"] \in TaskRow
  <2>1. outbox[r].status \in DispatchStatus BY DEF TypeOK, OutboxRow
  <2>2. task[r] \in TaskRow BY DEF TypeOK, TaskTypeOK
  <2>3. "reconciliation_required" \in DispatchStatus BY DEF DispatchStatus
  <2> QED BY <2>1, <2>2, <2>3 DEF Swept, DispatchStatus, TaskRow
<1>2. \A r \in Runs : [task[r] EXCEPT !.dispatch = "reconciliation_required"] \in TaskRow
  BY <1>1
<1>3. task' \in [Runs -> TaskRow] BY <1>2 DEF SweepTasks, TypeOK, TaskTypeOK
<1>4. SweptOutbox \in [Runs -> OutboxRow]
  BY <1>1 DEF SweptOutbox, TypeOK, OutboxRow
<1> QED BY <1>3, <1>4

LEMMA HistoryType ==
  ASSUME TypeOK, NEW r \in Runs,
         \/ WithholdPending(r) \/ BeginPublication(r) \/ CommitIsSent(r)
         \/ WithholdRunning(r) \/ ObserveCommit(r) \/ RecordSuccess(r)
         \/ CommitLands(r) \/ TransactionAborts(r)
  PROVE  /\ RunTypeOK'
         /\ business' \in [Runs -> {"none", "sent", "committed", "aborted"}]
<1> USE DEF TypeOK, RunTypeOK, RunStatus, Active, Terminal, Successes, Withheld, CommitResult,
            UpdateRun, UpdateStatus, RecordCommitObservation, runVars
<1>1. CASE WithholdPending(r) BY <1>1 DEF WithholdPending
<1>2. CASE BeginPublication(r) BY <1>2 DEF BeginPublication
<1>3. CASE CommitIsSent(r) BY <1>3 DEF CommitIsSent
<1>4. CASE WithholdRunning(r) BY <1>4 DEF WithholdRunning
<1>5. CASE ObserveCommit(r) BY <1>5 DEF ObserveCommit
<1>6. CASE RecordSuccess(r) BY <1>6 DEF RecordSuccess
<1>7. CASE CommitLands(r) BY <1>7 DEF CommitLands
<1>8. CASE TransactionAborts(r) BY <1>8 DEF TransactionAborts
<1> QED BY <1>1, <1>2, <1>3, <1>4, <1>5, <1>6, <1>7, <1>8

\* What a worker that handles a message can become.
LEMMA WorkerRows ==
  ASSUME NEW r \in Runs, NEW a \in 1 .. MaxFailedExecutions
  PROVE  /\ IdleWorker \in WorkerState
         /\ [at |-> "rejected", run |-> r] \in WorkerState
         /\ \A at \in {"preflight", "retry", "pipeline"} :
              [at |-> at, run |-> r, attempt |-> a] \in WorkerState
         /\ \A x \in Results :
              [at |-> "close", run |-> r, attempt |-> a, result |-> x] \in WorkerState
BY DEF WorkerState, IdleWorker

LEMMA RelayRows ==
  ASSUME NEW r \in Runs, NEW a \in 1 .. MaxPublishAttempts
  PROVE  /\ IdleRelay \in RelayState
         /\ \A at \in {"publish", "confirm", "fail"} :
              [at |-> at, run |-> r, attempts |-> a] \in RelayState
BY DEF RelayState, IdleRelay

\* What is known of a worker or relay from where it stands.
LEMMA BusyWorker ==
  ASSUME TypeOK, NEW w \in Workers, worker[w] # IdleWorker
  PROVE  /\ worker[w].run \in Runs
         /\ worker[w].at \in {"rejected", "preflight", "retry", "pipeline", "close"}
         /\ worker[w].at = "rejected" => worker[w] = [at |-> "rejected", run |-> worker[w].run]
         /\ worker[w].at # "rejected" => worker[w].attempt \in 1 .. MaxFailedExecutions
         /\ worker[w].at \in {"preflight", "retry", "pipeline"} =>
              worker[w] = [at |-> worker[w].at, run |-> worker[w].run,
                           attempt |-> worker[w].attempt]
BY DEF TypeOK, WorkerState, IdleWorker

LEMMA WorkerAt ==
  ASSUME TypeOK, NEW w \in Workers, worker[w].at # "idle"
  PROVE  /\ worker[w].run \in Runs
         /\ worker[w].at \in {"preflight", "retry", "pipeline"} =>
              worker[w] = [at |-> worker[w].at, run |-> worker[w].run,
                           attempt |-> worker[w].attempt]
<1>1. worker[w] # IdleWorker BY DEF IdleWorker
<1> QED BY <1>1, BusyWorker

LEMMA BusyRelay ==
  ASSUME TypeOK, NEW b \in Relays, relay[b] # IdleRelay
  PROVE  /\ relay[b].run \in Runs
         /\ relay[b].at \in {"publish", "confirm", "fail"}
         /\ relay[b].attempts \in 1 .. MaxPublishAttempts
         /\ relay[b] = [at |-> relay[b].at, run |-> relay[b].run,
                        attempts |-> relay[b].attempts]
BY DEF TypeOK, RelayState, IdleRelay

LEMMA BusyAt ==
  ASSUME TypeOK, NEW b \in Relays, relay[b].at # "idle"
  PROVE  relay[b].run \in Runs /\ relay[b].attempts \in 1 .. MaxPublishAttempts
<1>1. relay[b] # IdleRelay BY DEF IdleRelay
<1> QED BY <1>1, BusyRelay

LEMMA RequestType ==
  ASSUME TypeOK, NEW r \in Runs,
         Accept(r) \/ ReconcileOne(r) \/ ServerAnswers(r)
  PROVE  TypeOK'
<1> USE DEF TypeOK, relayVars, brokerVars, workVars
<1>1. CASE Accept(r)
  <2>1. NewTask("accepted") \in TaskRow
    BY AttemptsAssumption DEF NewTask, TaskRow, Waiting, DispatchStatus
  <2>2. TaskTypeOK' BY <1>1, <2>1 DEF Accept, InsertTask, TaskTypeOK
  <2>3. RunTypeOK' /\ UNCHANGED business
    BY <1>1 DEF Accept, OpenRun, CreateRun, RunTypeOK, RunStatus, Active
  <2> QED BY <1>1, <2>2, <2>3 DEF Accept
<1>2. CASE ReconcileOne(r)
  BY <1>2, ReconcileType DEF ReconcileOne, historyVars, RunTypeOK
<1>3. CASE ServerAnswers(r)
  BY <1>3, HistoryType DEF ServerAnswers, taskVars, TaskTypeOK
<1> QED BY <1>1, <1>2, <1>3

LEMMA LockType ==
  ASSUME TypeOK, NEW r \in Runs, LocksWeek(r) \/ LooksForRun(r) \/ AcceptanceFails(r)
  PROVE  TypeOK'
<1>1. accepting' \in [Runs -> {"no", "locked", "free"}]
  BY DEF LocksWeek, LooksForRun, AcceptanceFails, TypeOK
<1> QED BY <1>1 DEF LocksWeek, LooksForRun, AcceptanceFails, TypeOK, RunTypeOK, TaskTypeOK,
                    historyVars, taskVars, relayVars, brokerVars, workVars

LEMMA ClockType ==
  ASSUME TypeOK, NEW r \in Runs,
         TaskDeadline(r) \/ RelayDeadline(r) \/ CountdownEnds(r)
  PROVE  TypeOK'
<1> USE DEF TypeOK, historyVars, RunTypeOK, relayVars, brokerVars, workVars
<1>1. CASE TaskDeadline(r)
  <2>1. [task[r] EXCEPT !.deadline = "past"] \in TaskRow
    <3>1. task[r] \in TaskRow BY DEF TaskTypeOK
    <3> QED BY <3>1 DEF TaskRow
  <2> QED BY <1>1, <2>1 DEF TaskDeadline, DeadlinePasses, TaskTypeOK
<1>2. CASE RelayDeadline(r)
  BY <1>2 DEF RelayDeadline, taskVars, TaskTypeOK, OutboxRow
<1>3. CASE CountdownEnds(r)
  BY <1>3 DEF CountdownEnds, taskVars, TaskTypeOK
<1> QED BY <1>1, <1>2, <1>3

LEMMA RelayClaimsType ==
  ASSUME TypeOK, NEW b \in Relays, NEW r \in Runs, RelayClaims(b, r)
  PROVE  TypeOK'
<1> USE DEF TypeOK, historyVars, RunTypeOK, relayVars, brokerVars, workVars
<1>1. outbox[r].attempts \in Nat /\ outbox[r].attempts + 1 \in 1 .. MaxPublishAttempts
  BY PublishAssumption DEF RelayClaims, OutboxRow
<1>2. /\ task' \in [Runs -> TaskRow]
      /\ SweptOutbox \in [Runs -> OutboxRow]
  BY SweepType DEF RelayClaims
<1>3. SweptOutbox[r].attempts = outbox[r].attempts
  BY DEF SweptOutbox, OutboxRow
<1> DEFINE row == [SweptOutbox[r] EXCEPT !.status = "publishing",
                                         !.attempts = outbox[r].attempts + 1,
                                         !.lease = "ahead"]
<1>4. outbox' = [SweptOutbox EXCEPT ![r] = row]
  BY <1>2, <1>3 DEF RelayClaims
<1>5. row \in OutboxRow
  <2>1. outbox[r].attempts + 1 \in 0 .. MaxPublishAttempts
    BY <1>1, PublishAssumption
  <2>2. SweptOutbox[r] \in OutboxRow BY <1>2
  <2> HIDE DEF TypeOK
  <2> QED BY <2>1, <2>2 DEF OutboxRow, DispatchStatus
<1>6. outbox' \in [Runs -> OutboxRow]
  BY <1>2, <1>4, <1>5
<1>7. relay' \in [Relays -> RelayState]
  BY <1>1, RelayRows DEF RelayClaims
<1> QED BY <1>2, <1>6, <1>7 DEF RelayClaims, TaskTypeOK

LEMMA RelayType ==
  ASSUME TypeOK, NEW b \in Relays,
         \/ RelaySweeps(b) \/ Publish(b) \/ RelayConfirms(b) \/ RelayFails(b)
         \/ RelayLost(b)
  PROVE  TypeOK'
<1> USE DEF TypeOK, historyVars, RunTypeOK, relayVars, brokerVars, workVars
<1>1. CASE RelaySweeps(b)
  BY <1>1, SweepType DEF RelaySweeps, TaskTypeOK
<1>2. CASE Publish(b)
  <2> DEFINE r == relay[b].run
  <2>1. /\ r \in Runs
        /\ \A at \in {"confirm", "fail"} : [relay[b] EXCEPT !.at = at] \in RelayState
    <3>1. relay[b].at = "publish" BY <1>2 DEF Publish
    <3>2. r \in Runs BY <3>1, BusyRelay DEF IdleRelay
    <3>3. /\ relay[b].attempts \in 1 .. MaxPublishAttempts
          /\ relay[b] = [at |-> "publish", run |-> r, attempts |-> relay[b].attempts]
      BY <3>1, BusyRelay DEF IdleRelay
    <3>4. \A at \in {"confirm", "fail"} : [relay[b] EXCEPT !.at = at] =
            [at |-> at, run |-> r, attempts |-> relay[b].attempts]
      BY <3>3
    <3>5. \A at \in {"confirm", "fail"} : [relay[b] EXCEPT !.at = at] \in RelayState
      BY <3>2, <3>3, <3>4, RelayRows
    <3> QED BY <3>2, <3>5
  <2>2. PICK sent, returned \in BOOLEAN :
          /\ relay' = [relay EXCEPT ![b].at = IF returned THEN "confirm" ELSE "fail"]
          /\ queue' = [queue EXCEPT ![r] = IF sent THEN @ + 1 ELSE @]
    BY <1>2 DEF Publish
  <2>3. relay' \in [Relays -> RelayState] BY <2>1, <2>2
  <2>4. queue' \in [Runs -> Nat] BY <2>1, <2>2
  <2> QED BY <1>2, <2>3, <2>4 DEF Publish, taskVars, TaskTypeOK
<1>3. CASE RelayConfirms(b) \/ RelayFails(b)
  <2> DEFINE r == relay[b].run
  <2>1. r \in Runs BY <1>3, BusyRelay DEF RelayConfirms, RelayFails, IdleRelay
  <2>2. outbox' \in [Runs -> OutboxRow]
    <3>1. outbox[r] \in OutboxRow BY <2>1
    <3>2. \A s \in DispatchStatus :
            [outbox[r] EXCEPT !.status = s, !.lease = "null"] \in OutboxRow
      BY <3>1 DEF OutboxRow
    <3>3. {"published", "reconciliation_required", "retry_wait"} \subseteq DispatchStatus
      BY DEF DispatchStatus
    <3>4. \/ outbox' = outbox
          \/ \E s \in DispatchStatus :
               outbox' = [outbox EXCEPT ![r] = [outbox[r] EXCEPT !.status = s, !.lease = "null"]]
      <4>1. CASE RelayConfirms(b)
        <5>1. CASE HoldsDispatch(b)
          <6>1. outbox' = [outbox EXCEPT ![r].status = "published", ![r].lease = "null"]
            BY <4>1, <5>1 DEF RelayConfirms
          <6>2. "published" \in DispatchStatus BY <3>3
          <6> QED BY <6>1, <6>2
        <5>2. CASE ~HoldsDispatch(b) BY <4>1, <5>2 DEF RelayConfirms
        <5> QED BY <5>1, <5>2
      <4>2. CASE RelayFails(b)
        <5>1. PICK s \in {"reconciliation_required", "retry_wait"} :
                outbox' = IF HoldsDispatch(b)
                          THEN [outbox EXCEPT ![r] = [outbox[r] EXCEPT !.status = s,
                                                                       !.lease = "null"]]
                          ELSE outbox
          BY ZenonT(60), <4>2 DEF RelayFails
        <5> QED BY <5>1, <3>3
      <4> QED BY <1>3, <4>1, <4>2
    <3> QED BY <2>1, <3>2, <3>4
  <2>3. \A d \in {"published", "reconciliation_required"} :
          /\ [task[r] EXCEPT !.dispatch = d] \in TaskRow
          /\ [task[r] EXCEPT !.dispatch = d, !.state = IF @ = "accepted" THEN "queued" ELSE @]
               \in TaskRow
    <3>1. task[r] \in TaskRow BY <2>1 DEF TaskTypeOK
    <3>2. \A d \in DispatchStatus : [task[r] EXCEPT !.dispatch = d] \in TaskRow
      BY <3>1 DEF TaskRow
    <3>3. \A d \in DispatchStatus, s \in {"queued", task[r].state} :
            [task[r] EXCEPT !.dispatch = d, !.state = s] \in TaskRow
      BY <3>1 DEF TaskRow, Waiting
    <3> QED BY <3>2, <3>3 DEF DispatchStatus
  <2>4. task' \in [Runs -> TaskRow]
    BY <1>3, <2>1, <2>3 DEF RelayConfirms, RelayFails, TaskTypeOK
  <2>5. relay' \in [Relays -> RelayState]
    BY <1>3 DEF RelayConfirms, RelayFails, RelayState, IdleRelay
  <2> QED BY <1>3, <2>2, <2>4, <2>5 DEF RelayConfirms, RelayFails, TaskTypeOK
<1>4. CASE RelayLost(b)
  BY <1>4 DEF RelayLost, taskVars, TaskTypeOK, RelayState, IdleRelay
<1> QED BY <1>1, <1>2, <1>3, <1>4

\* A fenced statement of a claim moves the row it holds, or changes nothing.
LEMMA ClaimRows ==
  ASSUME TypeOK, NEW r \in Runs
  PROVE  /\ \A d \in {"ahead", "past"} : [task[r] EXCEPT !.deadline = d] \in TaskRow
         /\ [task[r] EXCEPT !.state = "running", !.deadline = "ahead"] \in TaskRow
         /\ [task[r] EXCEPT !.state = "retry_wait", !.token = 0, !.deadline = "ahead"] \in TaskRow
<1>1. task[r] \in TaskRow /\ 0 \in 0 .. MaxFailedExecutions
  BY AttemptsAssumption DEF TypeOK, TaskTypeOK
<1>2. /\ \A d \in {"ahead", "past"} : [task[r] EXCEPT !.deadline = d] \in TaskRow
      /\ [task[r] EXCEPT !.state = "running", !.deadline = "ahead"] \in TaskRow
  BY <1>1 DEF TaskRow, Owned
<1>3. [task[r] EXCEPT !.state = "retry_wait", !.token = 0, !.deadline = "ahead"] \in TaskRow
  BY <1>1 DEF TaskRow, Waiting
<1> QED BY <1>2, <1>3

LEMMA ReceiveType ==
  ASSUME TypeOK, NEW w \in Workers, NEW r \in Runs, ReceiveAndClaim(w, r)
  PROVE  TypeOK'
<1> USE DEF TypeOK, historyVars, RunTypeOK, relayVars, brokerVars, workVars
<1>1. queue' \in [Runs -> Nat] BY DEF ReceiveAndClaim
<1>2. CASE ClaimExecution(r)
  <2> DEFINE n == task[r].attempt + 1
  <2>1. task[r] \in TaskRow /\ task[r].attempt \in 0 .. MaxFailedExecutions
    BY DEF TaskTypeOK, TaskRow
  <2>2. n \in 1 .. MaxFailedExecutions /\ n \in 0 .. MaxFailedExecutions
    BY <1>2, <2>1, AttemptsAssumption DEF ClaimExecution, Claimable
  <2>3. [task[r] EXCEPT !.state = "claimed", !.attempt = n, !.token = n, !.deadline = "ahead"]
          \in TaskRow
    <3> HIDE DEF n, TypeOK
    <3> QED BY <2>1, <2>2 DEF TaskRow, Owned
  <2>4. task' = [task EXCEPT ![r] = [task[r] EXCEPT !.state = "claimed", !.attempt = n,
                                                     !.token = n, !.deadline = "ahead"]]
    BY <1>2, <2>1 DEF ClaimExecution, TaskTypeOK
  <2>5. task' \in [Runs -> TaskRow] /\ task'[r].attempt = n
    BY <2>1, <2>3, <2>4 DEF TaskTypeOK, TaskRow
  <2>6. worker' = [worker EXCEPT ![w] = [at |-> "preflight", run |-> r, attempt |-> n]]
    BY <1>2, <2>5 DEF ReceiveAndClaim, ClaimExecution
  <2>7. worker' \in [Workers -> WorkerState]
    BY <2>2, <2>6, WorkerRows
  <2> QED BY <1>1, <1>2, <2>5, <2>7 DEF ReceiveAndClaim, ClaimExecution, TaskTypeOK
<1>3. CASE ~Claimable(r)
  <2>1. [at |-> "rejected", run |-> r] \in WorkerState BY DEF WorkerState
  <2> QED BY <1>1, <1>3, <2>1 DEF ReceiveAndClaim, ClaimExecution, taskVars, TaskTypeOK
<1> QED BY <1>2, <1>3 DEF ReceiveAndClaim, ClaimExecution

\* What becomes of a worker that is done, or steps on.
LEMMA WorkerMoves ==
  ASSUME TypeOK, NEW w \in Workers
  PROVE  /\ Done(w) => worker' \in [Workers -> WorkerState]
         /\ \A at \in {"retry", "pipeline"} :
              /\ worker[w].at = "preflight"
              /\ worker' = [worker EXCEPT ![w].at = at]
              => worker' \in [Workers -> WorkerState]
         /\ \A x \in Results : worker[w].at = "pipeline" /\ Returns(w, x) =>
              worker' \in [Workers -> WorkerState]
<1> USE DEF TypeOK
<1>1. Done(w) => worker' \in [Workers -> WorkerState]
  BY DEF Done, WorkerState, IdleWorker
<1>2. ASSUME NEW at \in {"retry", "pipeline"}, worker[w].at = "preflight",
             worker' = [worker EXCEPT ![w].at = at]
      PROVE  worker' \in [Workers -> WorkerState]
  <2>1. /\ worker[w].run \in Runs /\ worker[w].attempt \in 1 .. MaxFailedExecutions
        /\ worker[w] = [at |-> "preflight", run |-> worker[w].run,
                        attempt |-> worker[w].attempt]
    BY <1>2, BusyWorker DEF IdleWorker
  <2>2. [worker[w] EXCEPT !.at = at]
          = [at |-> at, run |-> worker[w].run, attempt |-> worker[w].attempt]
    BY <2>1
  <2>3. [worker[w] EXCEPT !.at = at] \in WorkerState
    <3> DEFINE run == worker[w].run  attempt == worker[w].attempt
    <3>1. run \in Runs /\ attempt \in 1 .. MaxFailedExecutions BY <2>1
    <3>2. [at |-> at, run |-> run, attempt |-> attempt] \in WorkerState
      <4> HIDE DEF run, attempt, TypeOK
      <4> QED BY <3>1, WorkerRows
    <3> QED BY <2>2, <3>2
  <2> QED BY <1>2, <2>3
<1>3. ASSUME NEW x \in Results, worker[w].at = "pipeline", Returns(w, x)
      PROVE  worker' \in [Workers -> WorkerState]
  <2>1. worker[w].run \in Runs /\ worker[w].attempt \in 1 .. MaxFailedExecutions
    BY <1>3, BusyWorker DEF IdleWorker
  <2> QED BY <1>3, <2>1, WorkerRows DEF Returns
<1> QED BY <1>1, <1>2, <1>3

LEMMA PreparationType ==
  ASSUME TypeOK, NEW w \in Workers,
         \/ ReconcileRejected(w) \/ EnterPipeline(w) \/ PublishRetry(w) \/ ProbeFails(w)
         \/ PreflightFails(w) \/ WorkerLost(w) \/ WorkerGivesUp(w)
  PROVE  TypeOK'
<1> USE WorkerMoves DEF TypeOK, historyVars, RunTypeOK, relayVars, brokerVars, Busy, RunOf
<1> DEFINE r == worker[w].run
<1>1. r \in Runs
  BY BusyWorker DEF ReconcileRejected, EnterPipeline, PublishRetry, ProbeFails, PreflightFails,
                    WorkerLost, WorkerGivesUp, IdleWorker
<1>2. CASE ReconcileRejected(w)
  <2>1. TaskTypeOK' BY <1>1, <1>2, ReconcileType DEF ReconcileRejected
  <2>2. worker' \in [Workers -> WorkerState] BY <1>2 DEF ReconcileRejected
  <2> QED BY <1>2, <2>1, <2>2 DEF ReconcileRejected
<1>3. CASE EnterPipeline(w)
  <2>1. UNCHANGED task \/ StartPrefect(r) BY <1>3 DEF EnterPipeline
  <2>2. StartPrefect(r) => task' \in [Runs -> TaskRow]
    <3> DEFINE row == [task[r] EXCEPT !.state = "running", !.deadline = "ahead"]
    <3>1. task \in [Runs -> TaskRow] BY DEF TaskTypeOK
    <3>2. row \in TaskRow BY <1>1, ClaimRows
    <3>3. StartPrefect(r) => task' = [task EXCEPT ![r] = row] BY <1>1, <3>1 DEF StartPrefect
    <3> HIDE DEF row, r, TypeOK
    <3> QED BY <1>1, <3>1, <3>2, <3>3
  <2>3. TaskTypeOK' BY <1>3, <2>1, <2>2 DEF EnterPipeline, TaskTypeOK
  <2>4. entries' \in [Runs -> Nat] BY <1>1, <1>3 DEF EnterPipeline
  <2>5. worker' \in [Workers -> WorkerState] BY <1>3 DEF EnterPipeline
  <2> QED BY <1>3, <2>3, <2>4, <2>5 DEF EnterPipeline
<1>4. CASE PublishRetry(w)
  BY <1>1, <1>4 DEF PublishRetry, taskVars, TaskTypeOK
<1>5. CASE ProbeFails(w)
  BY <1>1, <1>5, ClaimRows, FencedType DEF ProbeFails, ScheduleRetry, TaskTypeOK
<1>6. CASE PreflightFails(w)
  BY <1>1, <1>6, FailureType DEF PreflightFails
<1>7. CASE WorkerLost(w)
  BY <1>1, <1>7 DEF WorkerLost, taskVars, TaskTypeOK
<1>8. CASE WorkerGivesUp(w)
  BY <1>8 DEF WorkerGivesUp, taskVars, TaskTypeOK
<1> QED BY <1>2, <1>3, <1>4, <1>5, <1>6, <1>7, <1>8

LEMMA PipelineType ==
  ASSUME TypeOK, NEW w \in Workers,
         \/ PipelineAdvances(w) \/ PipelineReturns(w) \/ CloseTask(w) \/ Heartbeat(w)
         \/ PipelineRaises(w)
  PROVE  TypeOK'
<1> USE WorkerMoves DEF TypeOK, historyVars, relayVars, brokerVars, workVars, Busy, RunOf
<1> DEFINE r == worker[w].run
<1>1. r \in Runs
  BY BusyWorker DEF PipelineAdvances, PipelineReturns, CloseTask, Heartbeat, PipelineRaises,
                    IdleWorker
<1>2. CASE PipelineAdvances(w)
  BY <1>1, <1>2, HistoryType DEF PipelineAdvances, taskVars, TaskTypeOK
<1>3. CASE PipelineReturns(w)
  <2>1. PICK x \in Results : Returns(w, x)
    BY <1>3 DEF PipelineReturns, Results
  <2>2. \/ WithholdPending(r) \/ WithholdRunning(r)
        \/ ObserveCommit(r) \/ RecordSuccess(r)
    BY <1>3 DEF PipelineReturns
  <2>3. worker' \in [Workers -> WorkerState] BY <1>3, <2>1 DEF PipelineReturns
  <2> QED BY <1>1, <1>3, <2>2, <2>3, HistoryType DEF PipelineReturns, taskVars, TaskTypeOK
<1>4. CASE CloseTask(w)
  <2>1. TaskTypeOK'
    <3>1. CASE worker[w].result = "failed"
      BY <1>1, <1>4, <3>1, FailureType DEF CloseTask
    <3>2. CASE worker[w].result # "failed"
      <4>1. /\ Answer(worker[w].result).state \in Closed
            /\ Answer(worker[w].result).published \in {"null", "yes", "no"}
        BY DEF Answer, Verdict, Closed
      <4> QED BY <1>1, <1>4, <3>2, <4>1, CloseType DEF CloseTask, TaskTypeOK
    <3> QED BY <3>1, <3>2
  <2> QED BY <1>4, <2>1 DEF CloseTask, RunTypeOK
<1>5. CASE Heartbeat(w)
  BY <1>1, <1>5, ClaimRows, FencedType DEF Heartbeat, HeartbeatExecution, TaskTypeOK, RunTypeOK
<1>6. CASE PipelineRaises(w)
  BY <1>6 DEF PipelineRaises, taskVars, TaskTypeOK, RunTypeOK, Results
<1> QED BY <1>2, <1>3, <1>4, <1>5, <1>6

LEMMA TypeStep == TypeOK /\ [Next]_vars => TypeOK'
<1> SUFFICES ASSUME TypeOK, [Next]_vars PROVE TypeOK'
  OBVIOUS
<1>1. CASE UNCHANGED vars
  BY <1>1 DEF TypeOK, RunTypeOK, TaskTypeOK, vars, historyVars, taskVars, relayVars,
              brokerVars, workVars
<1>2. CASE Next
  BY <1>2, NextCases, RequestType, LockType, ClockType, RelayClaimsType, RelayType, ReceiveType,
     PreparationType, PipelineType
<1> QED BY <1>1, <1>2

-----------------------------------------------------------------------------
(* What a step does to the row of one task. *)

Becomes(r, s, p) ==
  /\ task'[r].state = s
  /\ task'[r].published = p
  /\ task'[r].dispatch = task[r].dispatch
  /\ \A x \in Runs : x # r => task'[x] = task[x]

Keeps(r) == Becomes(r, task[r].state, task[r].published)

\* The same, from one of some states.
Moves(r, from, s, p) == task[r].state \in from /\ Becomes(r, s, p)

LEMMA RowShape ==
  ASSUME TypeOK, NEW r \in Runs, NEW row, task' = [task EXCEPT ![r] = row],
         row.dispatch = task[r].dispatch
  PROVE  Becomes(r, row.state, row.published)
BY DEF Becomes, TypeOK, TaskTypeOK

LEMMA FencedShape ==
  ASSUME TypeOK, NEW r \in Runs, NEW a, NEW from, NEW row, row.dispatch = task[r].dispatch,
         IfHeld(r, a, from, row)
  PROVE  Keeps(r) \/ Moves(r, {from}, row.state, row.published)
<1>1. CASE HoldsClaim(r, a, from)
  BY <1>1, RowShape DEF IfHeld, HoldsClaim, Moves
<1>2. CASE ~HoldsClaim(r, a, from)
  BY <1>2 DEF IfHeld, Keeps, Becomes
<1> QED BY <1>1, <1>2

LEMMA CloseShape ==
  ASSUME TypeOK, NEW r \in Runs, NEW a, NEW from, NEW s, NEW p, CloseClaim(r, a, from, s, p)
  PROVE  Keeps(r) \/ Moves(r, {from}, s, p)
<1> DEFINE row == [task[r] EXCEPT !.state = s, !.deadline = "null", !.published = p]
<1>1. task[r] \in TaskRow BY DEF TypeOK, TaskTypeOK
<1>2. row.dispatch = task[r].dispatch /\ row.state = s /\ row.published = p
  BY <1>1 DEF TaskRow
<1>3. IfHeld(r, a, from, row) BY DEF CloseClaim
<1> HIDE DEF row
<1> QED BY <1>2, <1>3, FencedShape

LEMMA FailureShape ==
  ASSUME TypeOK, NEW r \in Runs, NEW a, NEW from, CloseAsFailure(r, a, from)
  PROVE  \/ Keeps(r)
         \/ Moves(r, {from}, "dead_lettered", "no")
         \/ Moves(r, {from}, "failure_pending_dlq", "no")
<1>1. PICK inserted \in BOOLEAN :
        CloseClaim(r, a, from,
                   IF inserted THEN "dead_lettered" ELSE "failure_pending_dlq", "no")
  BY DEF CloseAsFailure
<1>2. CASE inserted BY <1>1, <1>2, CloseShape
<1>3. CASE ~inserted BY <1>1, <1>3, CloseShape
<1> QED BY <1>2, <1>3

LEMMA ReconcileShape ==
  ASSUME TypeOK, NEW r \in Runs, Reconcile(r)
  PROVE  \/ Keeps(r)
         \/ Moves(r, {"failure_pending_dlq"}, "dead_lettered", task[r].published)
         \/ Moves(r, Waiting \cup Owned, "reconciliation_required", "null")
         \/ Moves(r, Waiting \cup Owned, "succeeded", "yes") /\ status[r] \in Successes
         \/ Moves(r, Waiting \cup Owned, "succeeded", "no") /\ status[r] \in Withheld
         \/ Moves(r, Waiting \cup Owned, "failed", "no") /\ status[r] \in Withheld
<1>0. task[r] \in TaskRow BY DEF TypeOK, TaskTypeOK
<1>1. UNCHANGED taskVars => Keeps(r) BY DEF taskVars, Keeps, Becomes
<1>2. ASSUME NEW s, NEW p, Settled(r, s, p) PROVE Moves(r, Waiting \cup Owned, s, p)
  <2> DEFINE row == [task[r] EXCEPT !.state = s, !.published = p, !.token = 0,
                                    !.deadline = "null"]
  <2>1. row.dispatch = task[r].dispatch /\ row.state = s /\ row.published = p
    BY <1>0 DEF TaskRow
  <2>2. task' = [task EXCEPT ![r] = row] BY <1>2 DEF Settled
  <2> HIDE DEF row
  <2> QED BY <1>2, <2>1, <2>2, RowShape DEF Settled, Moves
<1>3. ASSUME task' = [task EXCEPT ![r] = [@ EXCEPT !.state = "dead_lettered"]]
      PROVE  Becomes(r, "dead_lettered", task[r].published)
  BY <1>0, <1>3 DEF Becomes, TypeOK, TaskTypeOK, TaskRow
<1>4. ASSUME task' = [task EXCEPT ![r] = [@ EXCEPT !.state = "reconciliation_required",
                                           !.published = "null", !.deadline = "null"]]
      PROVE  Becomes(r, "reconciliation_required", "null")
  BY <1>0, <1>4 DEF Becomes, TypeOK, TaskTypeOK, TaskRow
<1> QED BY <1>1, <1>2, <1>3, <1>4, ReconcileCases DEF Moves, Owned

\* The claim, the start, the retry and the heartbeat.
LEMMA ClaimShape ==
  ASSUME TypeOK, NEW r \in Runs, NEW a
  PROVE  /\ ClaimExecution(r) => Moves(r, Waiting \cup {"claimed"}, "claimed", task[r].published)
         /\ CanStart(r, a) /\ StartPrefect(r) =>
              Moves(r, {"claimed"}, "running", task[r].published)
         /\ ScheduleRetry(r, a) =>
              \/ Keeps(r)
              \/ Moves(r, {"claimed"}, "retry_wait", task[r].published)
         /\ HeartbeatExecution(r, a) => Keeps(r)
         /\ DeadlinePasses(r) => Keeps(r)
<1>0. task[r] \in TaskRow BY DEF TypeOK, TaskTypeOK
<1>1. ASSUME ClaimExecution(r)
      PROVE  Moves(r, Waiting \cup {"claimed"}, "claimed", task[r].published)
  <2> DEFINE n == task[r].attempt + 1
             row == [task[r] EXCEPT !.state = "claimed", !.attempt = n, !.token = n,
                                    !.deadline = "ahead"]
  <2>1. task' = [task EXCEPT ![r] = row]
    BY <1>0, <1>1 DEF ClaimExecution, TypeOK, TaskTypeOK
  <2>2. /\ row.dispatch = task[r].dispatch /\ row.state = "claimed"
        /\ row.published = task[r].published
    <3> HIDE DEF n
    <3> QED BY <1>0 DEF TaskRow
  <2>3. task[r].state \in Waiting \cup {"claimed"}
    BY <1>1 DEF ClaimExecution, Claimable, Waiting
  <2> HIDE DEF row
  <2> QED BY <2>1, <2>2, <2>3, RowShape DEF Moves
<1>2. ASSUME CanStart(r, a), StartPrefect(r)
      PROVE  Moves(r, {"claimed"}, "running", task[r].published)
  BY <1>0, <1>2 DEF CanStart, HoldsClaim, StartPrefect, Moves, Becomes, TypeOK, TaskTypeOK, TaskRow
<1>3. ASSUME ScheduleRetry(r, a)
      PROVE  \/ Keeps(r)
             \/ Moves(r, {"claimed"}, "retry_wait", task[r].published)
  <2> DEFINE row == [task[r] EXCEPT !.state = "retry_wait", !.token = 0, !.deadline = "ahead"]
  <2>1. IfHeld(r, a, "claimed", row) BY <1>3 DEF ScheduleRetry
  <2>2. /\ row.dispatch = task[r].dispatch /\ row.state = "retry_wait"
        /\ row.published = task[r].published
    BY <1>0 DEF TaskRow
  <2> HIDE DEF row
  <2> QED BY <2>1, <2>2, FencedShape
<1>4. HeartbeatExecution(r, a) => Keeps(r)
  BY <1>0 DEF HeartbeatExecution, IfHeld, Keeps, Becomes, TypeOK, TaskTypeOK, TaskRow
<1>5. DeadlinePasses(r) => Keeps(r)
  BY <1>0 DEF DeadlinePasses, Keeps, Becomes, TypeOK, TaskTypeOK, TaskRow
<1> QED BY <1>1, <1>2, <1>3, <1>4, <1>5

-----------------------------------------------------------------------------
(* The dispatch: outbox, relays and the dispatch column of the tasks. *)

KeepsDispatch == /\ UNCHANGED <<outbox, relay>>
                 /\ \A r \in Runs : task'[r].dispatch = task[r].dispatch

LEMMA DispatchKept ==
  ASSUME DispatchSide, KeepsDispatch PROVE DispatchSide'
BY DEF DispatchSide, KeepsDispatch, DispatchInv, RelayInv, RelaysDiffer

LEMMA WorkersKeepDispatch ==
  ASSUME TypeOK, NEW w \in Workers,
         \/ ReconcileRejected(w) \/ EnterPipeline(w) \/ PublishRetry(w)
         \/ PipelineAdvances(w) \/ PipelineReturns(w) \/ CloseTask(w) \/ Heartbeat(w)
         \/ ProbeFails(w) \/ PreflightFails(w) \/ PipelineRaises(w) \/ WorkerLost(w)
         \/ WorkerGivesUp(w) \/ \E r \in Runs : ReceiveAndClaim(w, r)
  PROVE  KeepsDispatch
<1> USE DEF KeepsDispatch, relayVars, Busy, RunOf, Moves, Keeps, Becomes
<1>1. CASE worker[w] = IdleWorker
  <2>1. PICK r \in Runs : ReceiveAndClaim(w, r)
    BY <1>1 DEF ReconcileRejected, EnterPipeline, PublishRetry, PipelineAdvances,
                PipelineReturns, CloseTask, Heartbeat, ProbeFails, PreflightFails,
                PipelineRaises, WorkerLost, WorkerGivesUp, IdleWorker
  <2> QED BY <2>1, ClaimShape DEF ReceiveAndClaim, taskVars
<1>2. CASE worker[w] # IdleWorker
  <2> DEFINE r == worker[w].run
  <2>1. r \in Runs BY <1>2, BusyWorker
  <2>2. CASE ReconcileRejected(w)
    BY <2>1, <2>2, ReconcileShape DEF ReconcileRejected
  <2>3. CASE EnterPipeline(w)
    BY <2>1, <2>3, ClaimShape DEF EnterPipeline
  <2>4. CASE ProbeFails(w) BY <2>1, <2>4, ClaimShape DEF ProbeFails
  <2>5. CASE Heartbeat(w) BY <2>1, <2>5, ClaimShape DEF Heartbeat
  <2>6. CASE PreflightFails(w) BY <2>1, <2>6, FailureShape DEF PreflightFails
  <2>7. CASE CloseTask(w) BY <2>1, <2>7, FailureShape, CloseShape DEF CloseTask
  <2>8. CASE \/ PublishRetry(w) \/ PipelineAdvances(w) \/ PipelineReturns(w)
             \/ PipelineRaises(w) \/ WorkerLost(w) \/ WorkerGivesUp(w)
    BY <2>8 DEF PublishRetry, PipelineAdvances, PipelineReturns, PipelineRaises, WorkerLost,
                WorkerGivesUp, taskVars
  <2> QED BY <1>2, <2>2, <2>3, <2>4, <2>5, <2>6, <2>7, <2>8 DEF ReceiveAndClaim
<1> QED BY <1>1, <1>2

LEMMA AcceptShape ==
  ASSUME IInv, NEW r \in Runs, Accept(r)
  PROVE  Moves(r, {"absent"}, "accepted", "null")
<1>1. task[r].state = "absent" /\ task[r].dispatch = "pending"
  BY DEF IInv, RunSide, RunInv, Opened, Accept, OpenRun, CreateRun
<1> QED BY <1>1 DEF IInv, Accept, InsertTask, NewTask, TypeOK, TaskTypeOK, Moves, Becomes

LEMMA RequestsKeepDispatch ==
  ASSUME IInv, NEW r \in Runs,
         \/ Accept(r) \/ ReconcileOne(r) \/ ServerAnswers(r) \/ TaskDeadline(r)
         \/ CountdownEnds(r)
  PROVE  KeepsDispatch
<1> USE DEF KeepsDispatch, relayVars, IInv, Moves, Keeps, Becomes
<1>1. CASE Accept(r) BY <1>1, AcceptShape DEF Accept
<1>2. CASE ReconcileOne(r) BY <1>2, ReconcileShape DEF ReconcileOne
<1>3. CASE TaskDeadline(r) BY <1>3, ClaimShape DEF TaskDeadline
<1>4. CASE ServerAnswers(r) \/ CountdownEnds(r)
  BY <1>4 DEF ServerAnswers, CountdownEnds, taskVars
<1> QED BY <1>1, <1>2, <1>3, <1>4

\* A sweep ends or reopens only what was being published.
LEMMA SweptCases ==
  ASSUME TypeOK, NEW r \in Runs, DispatchInv(r)
  PROVE  /\ \/ Swept(r) = outbox[r].status
            \/ /\ outbox[r].status = "publishing"
               /\ Swept(r) \in {"publication_uncertain", "reconciliation_required"}
         /\ Swept(r) \in Publishable => outbox[r].attempts < MaxPublishAttempts
         /\ Swept(r) \in DispatchStatus
<1>1. outbox[r].attempts \in 0 .. MaxPublishAttempts /\ outbox[r].status \in DispatchStatus
  BY DEF TypeOK, OutboxRow
<1> QED BY <1>1, PublishAssumption DEF Swept, DispatchInv, Publishable, DispatchEnds,
                                       DispatchStatus

LEMMA SweptRows ==
  ASSUME TypeOK, SweepTasks
  PROVE  \A r \in Runs :
           /\ SweptOutbox[r].status = Swept(r)
           /\ SweptOutbox[r].attempts = outbox[r].attempts
           /\ task'[r].dispatch = IF Swept(r) = "reconciliation_required"
                                  THEN "reconciliation_required" ELSE task[r].dispatch
           /\ task'[r].state = task[r].state
           /\ task'[r].published = task[r].published
BY DEF SweepTasks, SweptOutbox, TypeOK, TaskTypeOK, TaskRow, OutboxRow

\* What a sweep does to every row, in the terms of the invariant.
LEMMA SweepKeepsInv ==
  ASSUME TypeOK, DispatchSide, SweepTasks, NEW r \in Runs
  PROVE  /\ SweptOutbox[r].attempts = outbox[r].attempts
         /\ SweptOutbox[r].status \in DispatchEnds \/ task'[r].dispatch \in DispatchEnds =>
              SweptOutbox[r].status = task'[r].dispatch
         /\ SweptOutbox[r].attempts = MaxPublishAttempts =>
              SweptOutbox[r].status \in {"publishing"} \cup DispatchEnds
         /\ outbox[r].status
              \in {"publishing", "publication_uncertain", "reconciliation_required"} =>
            SweptOutbox[r].status
              \in {"publishing", "publication_uncertain", "reconciliation_required"}
<1>1. DispatchInv(r) BY DEF DispatchSide
<1>2. /\ \/ Swept(r) = outbox[r].status
         \/ /\ outbox[r].status = "publishing"
            /\ Swept(r) \in {"publication_uncertain", "reconciliation_required"}
      /\ Swept(r) \in Publishable => outbox[r].attempts < MaxPublishAttempts
      /\ Swept(r) \in DispatchStatus
  BY <1>1, SweptCases
<1>3. /\ SweptOutbox[r].status = Swept(r)
      /\ SweptOutbox[r].attempts = outbox[r].attempts
      /\ task'[r].dispatch = IF Swept(r) = "reconciliation_required"
                             THEN "reconciliation_required" ELSE task[r].dispatch
  BY SweptRows
<1>4. Swept(r) \in DispatchEnds \/ task'[r].dispatch \in DispatchEnds =>
        Swept(r) = task'[r].dispatch
  BY <1>1, <1>2, <1>3 DEF DispatchInv, DispatchEnds
<1>5. outbox[r].attempts = MaxPublishAttempts =>
        Swept(r) \in {"publishing"} \cup DispatchEnds
  BY <1>2, PublishAssumption DEF Publishable, DispatchEnds, DispatchStatus
<1> QED BY <1>2, <1>3, <1>4, <1>5

LEMMA SweepsDispatch ==
  ASSUME TypeOK, DispatchSide, NEW b \in Relays, RelaySweeps(b)
  PROVE  DispatchSide'
<1>1. \A r \in Runs : DispatchInv(r)'
  BY SweepKeepsInv DEF RelaySweeps, DispatchInv
<1>2. ASSUME NEW c \in Relays PROVE RelayInv(c)'
  <2>1. CASE relay[c] = IdleRelay
    BY <2>1 DEF RelaySweeps, RelayInv, IdleRelay
  <2>2. CASE relay[c] # IdleRelay
    <3>1. relay[c].run \in Runs /\ relay[c].at # "idle" BY <2>2, BusyRelay
    <3> QED BY <3>1, SweepKeepsInv DEF RelaySweeps, RelayInv, DispatchSide
  <2> QED BY <2>1, <2>2
<1>3. RelaysDiffer' BY DEF RelaySweeps, RelaysDiffer, DispatchSide
<1> QED BY <1>1, <1>2, <1>3 DEF DispatchSide

LEMMA ClaimsDispatch ==
  ASSUME TypeOK, DispatchSide, NEW b \in Relays, NEW r \in Runs, RelayClaims(b, r)
  PROVE  DispatchSide'
<1> DEFINE n == outbox[r].attempts + 1
<1>1. /\ SweepTasks
      /\ Swept(r) \in Publishable
      /\ relay[b] = IdleRelay
      /\ relay' = [relay EXCEPT ![b] = [at |-> "publish", run |-> r, attempts |-> n]]
  BY DEF RelayClaims
<1>2. /\ SweptOutbox \in [Runs -> OutboxRow]
      /\ outbox' = [SweptOutbox EXCEPT ![r].status = "publishing", ![r].attempts = @ + 1,
                                       ![r].lease = "ahead"]
  BY <1>1, SweepType DEF RelayClaims
<1>3. /\ \A x \in Runs : x # r => outbox'[x] = SweptOutbox[x]
      /\ outbox'[r].status = "publishing"
      /\ outbox'[r].attempts = n
  BY <1>1, <1>2, SweptRows DEF OutboxRow
<1>4. \A x \in Runs : outbox[x].attempts \in Nat BY DEF TypeOK, OutboxRow
<1>5. ASSUME NEW x \in Runs PROVE DispatchInv(x)'
  <2>1. CASE x = r
    <3>1. SweptOutbox[r].status = Swept(r) BY <1>1, SweptRows
    <3>2. Swept(r) \notin DispatchEnds BY <1>1 DEF Publishable, DispatchEnds
    <3> QED BY <1>1, <1>3, <2>1, <3>1, <3>2, SweepKeepsInv DEF DispatchInv, DispatchEnds
  <2>2. CASE x # r
    BY <1>1, <1>3, <2>2, SweepKeepsInv DEF DispatchInv
  <2> QED BY <2>1, <2>2
<1>6. \A c \in Relays : c # b => relay'[c] = relay[c]
  BY <1>1
<1>7. relay'[b].at = "publish" /\ relay'[b].run = r /\ relay'[b].attempts = n
  BY <1>1 DEF TypeOK
<1>8. ASSUME NEW c \in Relays, c # b, relay[c].at # "idle"
      PROVE  /\ relay[c].run \in Runs
             /\ relay[c].attempts \in Nat
             /\ relay[c].attempts <= outbox[relay[c].run].attempts
             /\ relay[c].run = r => relay[c].attempts # n /\ relay[c].attempts <= n
  <2>1. relay[c].run \in Runs /\ relay[c].attempts \in Nat
    <3>1. relay[c] # IdleRelay BY <1>8 DEF IdleRelay
    <3>2. relay[c].run \in Runs /\ relay[c].attempts \in 1 .. MaxPublishAttempts
      BY <3>1, BusyRelay
    <3> QED BY <3>2
  <2>2. relay[c].attempts <= outbox[relay[c].run].attempts
    BY <1>8 DEF DispatchSide, RelayInv
  <2> QED BY <1>4, <2>1, <2>2
<1>9. ASSUME NEW c \in Relays PROVE RelayInv(c)'
  <2>1. CASE c = b BY <1>3, <1>4, <1>7, <2>1 DEF RelayInv
  <2>2. CASE c # b /\ relay[c].at = "idle" BY <1>6, <2>2 DEF RelayInv
  <2>3. CASE c # b /\ relay[c].at # "idle" /\ relay[c].run = r
    BY <1>3, <1>6, <1>8, <2>3 DEF RelayInv
  <2>4. CASE c # b /\ relay[c].at # "idle" /\ relay[c].run # r
    <3>1. outbox'[relay[c].run] = SweptOutbox[relay[c].run] BY <1>3, <1>8, <2>4
    <3>2. RelayInv(c) BY DEF DispatchSide
    <3> QED BY <1>1, <1>6, <1>8, <2>4, <3>1, <3>2, SweepKeepsInv DEF RelayInv
  <2> QED BY <2>1, <2>2, <2>3, <2>4
<1>10. RelaysDiffer'
  <2> HIDE DEF n
  <2> QED BY <1>6, <1>7, <1>8 DEF DispatchSide, RelaysDiffer
<1> QED BY <1>5, <1>9, <1>10 DEF DispatchSide

\* A relay that publishes, gives up or is lost, and the clock, record nothing.
LEMMA QuietDispatch ==
  ASSUME TypeOK, DispatchSide,
         \/ \E b \in Relays : Publish(b) \/ RelayLost(b)
         \/ \E r \in Runs : RelayDeadline(r)
  PROVE  DispatchSide'
<1>1. ASSUME NEW b \in Relays, Publish(b) \/ RelayLost(b) PROVE DispatchSide'
  <2>1. /\ UNCHANGED <<outbox, task>>
        /\ \A c \in Relays : c # b => relay'[c] = relay[c]
        /\ \/ relay'[b].at = "idle"
           \/ /\ relay[b].at = "publish"
              /\ relay'[b].run = relay[b].run
              /\ relay'[b].attempts = relay[b].attempts
    <3>1. CASE Publish(b)
      <4>1. relay[b] = [at |-> relay[b].at, run |-> relay[b].run,
                        attempts |-> relay[b].attempts]
        BY <3>1, BusyRelay DEF Publish, IdleRelay
      <4>2. PICK at \in {"confirm", "fail"} : relay' = [relay EXCEPT ![b].at = at]
        BY <3>1 DEF Publish
      <4> QED BY <3>1, <4>1, <4>2 DEF Publish, taskVars, TypeOK
    <3>2. CASE RelayLost(b)
      BY <3>2 DEF RelayLost, taskVars, TypeOK, IdleRelay
    <3> QED BY <1>1, <3>1, <3>2
  <2>2. \A c \in Relays : relay'[c].at # "idle" =>
          /\ relay[c].at # "idle"
          /\ relay'[c].run = relay[c].run
          /\ relay'[c].attempts = relay[c].attempts
    BY <2>1
  <2> QED BY <2>1, <2>2 DEF DispatchSide, DispatchInv, RelayInv, RelaysDiffer
<1>2. ASSUME NEW r \in Runs, RelayDeadline(r) PROVE DispatchSide'
  <2>1. /\ UNCHANGED <<task, relay>>
        /\ \A x \in Runs : /\ outbox'[x].status = outbox[x].status
                           /\ outbox'[x].attempts = outbox[x].attempts
    BY <1>2 DEF RelayDeadline, taskVars, TypeOK, OutboxRow
  <2>2. \A c \in Relays : relay[c].at # "idle" => relay[c].run \in Runs
    BY BusyAt
  <2> QED BY <2>1, <2>2 DEF DispatchSide, DispatchInv, RelayInv, RelaysDiffer
<1> QED BY <1>1, <1>2

\* Only the relay that holds the last claim of a row records what it did, and the
\* last attempt has no later one.
LEMMA RecordsDispatch ==
  ASSUME TypeOK, DispatchSide, NEW b \in Relays, RelayConfirms(b) \/ RelayFails(b)
  PROVE  DispatchSide'
<1>0. relay[b].at # "idle" BY DEF RelayConfirms, RelayFails
<1> PICK r \in Runs : r = relay[b].run BY <1>0, BusyAt
<1>1. /\ r = relay[b].run
      /\ relay[b].at # "idle"
      /\ relay[b].attempts \in 1 .. MaxPublishAttempts
      /\ outbox[r].attempts \in 0 .. MaxPublishAttempts
  BY <1>0, BusyAt DEF TypeOK, OutboxRow
<1>2. /\ relay[b].attempts <= outbox[r].attempts
      /\ relay[b].attempts = outbox[r].attempts =>
           outbox[r].status
             \in {"publishing", "publication_uncertain", "reconciliation_required"}
  BY <1>1 DEF DispatchSide, RelayInv
<1>3. /\ relay'[b].at = "idle"
      /\ \A c \in Relays : c # b => relay'[c] = relay[c]
  BY DEF RelayConfirms, RelayFails, TypeOK, IdleRelay
<1>4. RelaysDiffer' BY <1>3 DEF RelaysDiffer, DispatchSide
<1>5. \A c \in Relays : c # b /\ relay[c].at # "idle" =>
        /\ relay[c].run \in Runs
        /\ relay[c].run = r => relay[c].attempts # relay[b].attempts
  BY <1>1, BusyAt DEF DispatchSide, RelaysDiffer
\* What a record changes: the row of r under its own claim, the task of r.
<1>6. /\ \A x \in Runs : x # r => outbox'[x] = outbox[x]
      /\ \A x \in Runs : x # r => task'[x].dispatch = task[x].dispatch
      /\ outbox'[r].attempts = outbox[r].attempts
  <2>1. outbox[r] \in OutboxRow BY <1>1 DEF TypeOK
  <2>2. CASE RelayConfirms(b)
    BY <1>1, <2>1, <2>2 DEF RelayConfirms, TypeOK, TaskTypeOK, OutboxRow
  <2>3. CASE RelayFails(b)
    BY <1>1, <2>1, <2>3 DEF RelayFails, TypeOK, TaskTypeOK, OutboxRow
  <2> QED BY <2>2, <2>3
<1>7. \/ /\ outbox'[r].status = outbox[r].status
         /\ task'[r].dispatch = task[r].dispatch
      \/ /\ HoldsDispatch(b)
         /\ outbox'[r].status = "published"
         /\ task'[r].dispatch = "published"
      \/ /\ HoldsDispatch(b) /\ relay[b].attempts < MaxPublishAttempts
         /\ outbox'[r].status = "retry_wait"
         /\ task'[r].dispatch = task[r].dispatch
      \/ /\ relay[b].attempts = MaxPublishAttempts
         /\ outbox'[r].status \in {outbox[r].status, "reconciliation_required"}
         /\ HoldsDispatch(b) => outbox'[r].status = "reconciliation_required"
         /\ task'[r].dispatch = "reconciliation_required"
  <2>1. task[r] \in TaskRow /\ outbox[r] \in OutboxRow
    BY <1>1 DEF TypeOK, TaskTypeOK
  <2>2. CASE RelayConfirms(b)
    <3>1. CASE HoldsDispatch(b)
      BY <1>1, <2>1, <2>2, <3>1 DEF RelayConfirms, TypeOK, TaskTypeOK, OutboxRow, TaskRow
    <3>2. CASE ~HoldsDispatch(b) BY <1>1, <2>2, <3>2 DEF RelayConfirms
    <3> QED BY <3>1, <3>2
  <2>3. CASE RelayFails(b)
    <3> DEFINE end == IF relay[b].attempts >= MaxPublishAttempts
                      THEN "reconciliation_required" ELSE "retry_wait"
    <3>1. outbox'[r].status = IF HoldsDispatch(b) THEN end ELSE outbox[r].status
      BY <1>1, <2>1, <2>3 DEF RelayFails, TypeOK, OutboxRow
    <3>2. task'[r].dispatch = IF relay[b].attempts >= MaxPublishAttempts
                              THEN "reconciliation_required" ELSE task[r].dispatch
      BY <1>1, <2>1, <2>3 DEF RelayFails, TypeOK, TaskTypeOK, TaskRow
    <3>3. CASE relay[b].attempts >= MaxPublishAttempts
      BY <1>1, <3>1, <3>2, <3>3, PublishAssumption
    <3>4. CASE ~(relay[b].attempts >= MaxPublishAttempts)
      BY <1>1, <3>1, <3>2, <3>4, PublishAssumption
    <3> QED BY <3>3, <3>4
  <2> QED BY <2>2, <2>3
<1>8. HoldsDispatch(b) <=>
        outbox[r].status = "publishing" /\ outbox[r].attempts = relay[b].attempts
  BY <1>1 DEF HoldsDispatch
<1>9. DispatchInv(r)'
  <2>1. DispatchInv(r) BY DEF DispatchSide
  <2>2. CASE relay[b].attempts = MaxPublishAttempts
    <3>1. outbox[r].attempts = relay[b].attempts
      BY <1>1, <1>2, <2>2, PublishAssumption
    <3>2. outbox[r].status \in {"publishing", "reconciliation_required"}
      BY <1>2, <2>1, <2>2, <3>1 DEF DispatchInv, DispatchEnds
    <3> QED BY <1>1, <1>6, <1>7, <1>8, <2>1, <2>2, <3>1, <3>2 DEF DispatchInv, DispatchEnds
  <2>3. CASE relay[b].attempts # MaxPublishAttempts
    <3> QED BY <1>1, <1>6, <1>7, <1>8, <2>1, <2>3 DEF DispatchInv, DispatchEnds
  <2> QED BY <2>2, <2>3
<1>10. \A x \in Runs : DispatchInv(x)'
  BY <1>6, <1>9 DEF DispatchInv, DispatchSide
<1>11. ASSUME NEW c \in Relays PROVE RelayInv(c)'
  <2>1. CASE c = b \/ relay[c].at = "idle" BY <1>3, <2>1 DEF RelayInv
  <2>2. CASE c # b /\ relay[c].at # "idle"
    <3>1. RelayInv(c) BY DEF DispatchSide
    <3>2. CASE relay[c].run # r
      BY <1>3, <1>5, <1>6, <2>2, <3>1, <3>2 DEF RelayInv
    <3>3. CASE relay[c].run = r
      <4>1. /\ relay'[c] = relay[c]
            /\ relay[c].attempts # relay[b].attempts
            /\ outbox'[r].attempts = outbox[r].attempts
        BY <1>3, <1>5, <1>6, <2>2, <3>3
      <4>2. relay[c].attempts = outbox[r].attempts => outbox'[r].status = outbox[r].status
        <5> SUFFICES ASSUME relay[c].attempts = outbox[r].attempts
                     PROVE  outbox'[r].status = outbox[r].status
          OBVIOUS
        <5>1. ~HoldsDispatch(b) BY <1>8, <4>1
        <5>2. relay[c].attempts \in 1 .. MaxPublishAttempts
          BY <2>2, BusyAt
        <5>3. relay[b].attempts # MaxPublishAttempts
          BY <1>1, <1>2, <4>1, <5>2, PublishAssumption
        <5> QED BY <1>7, <5>1, <5>3
      <4> QED BY <2>2, <3>1, <3>3, <4>1, <4>2 DEF RelayInv
    <3> QED BY <3>2, <3>3
  <2> QED BY <2>1, <2>2
<1> QED BY <1>4, <1>10, <1>11 DEF DispatchSide

-----------------------------------------------------------------------------
(* The runs: what relays, clocks and the statements of the store leave true. *)

\* What must not be lost, for the results workers carry.
Remembered ==
  \A r \in Runs : /\ entries[r] = 1 => entries'[r] = 1
                  /\ business[r] = "committed" => business'[r] = "committed"
                  /\ status[r] \in Withheld => status'[r] \in Withheld

LEMMA OtherWorkers ==
  ASSUME TypeOK, NEW w \in Workers, WorkerInv(w), Remembered, worker'[w] = worker[w]
  PROVE  WorkerInv(w)'
<1>1. worker[w].at \in {"pipeline", "close"} => worker[w] # IdleWorker BY DEF IdleWorker
<1>2. worker[w].at \in {"pipeline", "close"} => worker[w].run \in Runs
  BY <1>1, BusyWorker
<1> QED BY <1>2 DEF WorkerInv, Remembered

KeepsHistory == UNCHANGED <<status, business>>

\* The row of one task moves and no run does.
LEMMA TaskMoveKeepsRuns ==
  ASSUME TypeOK, RunSide, NEW r \in Runs, KeepsHistory, UNCHANGED <<outbox, entries>>,
         \/ Keeps(r)
         \/ Moves(r, Waiting \cup {"claimed"}, "claimed", task[r].published)
         \/ Moves(r, {"claimed"}, "retry_wait", task[r].published)
         \/ Moves(r, {"failure_pending_dlq"}, "dead_lettered", task[r].published)
         \/ Moves(r, Waiting \cup Owned, "reconciliation_required", "null")
         \/ Moves(r, Waiting \cup Owned, "succeeded", "yes") /\ business[r] = "committed"
         \/ /\ \E s \in Closed : Moves(r, Waiting \cup Owned, s, "no")
            /\ status[r] \in Withheld \/ entries[r] = 0
  PROVE  (\A x \in Runs : RunInv(x)') /\ OneActive' /\ Remembered
<1> USE DEF KeepsHistory
<1>1. OneActive' /\ Remembered BY DEF RunSide, OneActive, Remembered
<1>2. \A x \in Runs : x # r => task'[x] = task[x]
  BY DEF Keeps, Moves, Becomes
<1>3. \A x \in Runs : Fate(x)' BY DEF RunSide, RunInv, Fate
<1>4. RunInv(r) BY DEF RunSide
<1>5. Opened(r)'
  BY <1>4 DEF RunInv, Opened, Keeps, Moves, Becomes, Waiting, Owned, Closed
<1>6. Told(r)'
  BY <1>4 DEF RunInv, Told, Keeps, Moves, Becomes, Waiting, Owned, Closed
<1>7. \A x \in Runs : x # r => Opened(x)' /\ Told(x)'
  BY <1>2 DEF RunSide, RunInv, Opened, Told
<1> QED BY <1>1, <1>3, <1>5, <1>6, <1>7 DEF RunInv

HistoryMoves(r, s, b) ==
  /\ status'[r] = s
  /\ business'[r] = b
  /\ \A x \in Runs : x # r => status'[x] = status[x] /\ business'[x] = business[x]

From(r, s, b) == status[r] = s /\ business[r] = b

\* The moves of a run whose pipeline was entered.
HistoryStep(r) ==
  \/ /\ HistoryMoves(r, status[r], business[r])
  \/ /\ status[r] = "pending"
     /\ \E s \in Withheld : HistoryMoves(r, s, business[r])
  \/ /\ status[r] = "pending"
     /\ HistoryMoves(r, "running", business[r])
  \/ /\ From(r, "running", "none")
     /\ \E s \in Withheld : HistoryMoves(r, s, "none") \/ HistoryMoves(r, s, "aborted")
  \/ From(r, "running", "none") /\ HistoryMoves(r, "running", "sent")
  \/ /\ business[r] = "sent"
     /\ HistoryMoves(r, status[r], "committed") \/ HistoryMoves(r, status[r], "aborted")
  \/ /\ From(r, "running", "committed")
     /\ \E s \in Successes : HistoryMoves(r, s, "committed")

LEMMA HistoryShape ==
  ASSUME TypeOK, NEW r \in Runs
  PROVE  /\ \/ WithholdPending(r) \/ BeginPublication(r) \/ CommitIsSent(r)
            \/ WithholdRunning(r) \/ ObserveCommit(r) \/ RecordSuccess(r)
            \/ CommitLands(r)
            \/ /\ business[r] = "sent"
               /\ TransactionAborts(r)
            => HistoryStep(r)
         /\ WithholdPending(r) \/ WithholdRunning(r) => status'[r] \in Withheld
<1> USE DEF HistoryMoves, HistoryStep, From, TypeOK, RunTypeOK, UpdateStatus, UpdateRun, runVars
<1>1. ASSUME WithholdPending(r)
      PROVE  HistoryStep(r) /\ status'[r] \in Withheld
  <2>1. PICK s \in Withheld : status[r] = "pending" /\ status' = [status EXCEPT ![r] = s]
    BY <1>1 DEF WithholdPending, Withheld
  <2> QED BY <1>1, <2>1 DEF WithholdPending
<1>2. BeginPublication(r) => HistoryStep(r) BY DEF BeginPublication
<1>3. CommitIsSent(r) => HistoryStep(r) BY DEF CommitIsSent
<1>4. ASSUME WithholdRunning(r)
      PROVE  HistoryStep(r) /\ status'[r] \in Withheld
  <2>1. PICK s \in Withheld : status[r] = "running" /\ status' = [status EXCEPT ![r] = s]
    BY <1>4 DEF WithholdRunning, Withheld
  <2>2. /\ business[r] = "none"
        /\ UNCHANGED business \/ business' = [business EXCEPT ![r] = "aborted"]
    BY <1>4 DEF WithholdRunning
  <2> QED BY <2>1, <2>2
<1>5. ObserveCommit(r) => HistoryStep(r) BY DEF ObserveCommit, RecordCommitObservation
<1>6. ASSUME RecordSuccess(r) PROVE HistoryStep(r)
  <2>1. PICK s \in Successes : status[r] = "running" /\ status' = [status EXCEPT ![r] = s]
    BY <1>6 DEF RecordSuccess
  <2> QED BY <1>6, <2>1 DEF RecordSuccess
<1>7. CommitLands(r) => HistoryStep(r) BY DEF CommitLands
<1>8. business[r] = "sent" /\ TransactionAborts(r) => HistoryStep(r) BY DEF TransactionAborts
<1> QED BY <1>1, <1>2, <1>3, <1>4, <1>5, <1>6, <1>7, <1>8

LEMMA HistoryKeepsRuns ==
  ASSUME TypeOK, RunSide, NEW r \in Runs, entries[r] = 1, HistoryStep(r),
         UNCHANGED <<task, outbox, entries>>
  PROVE  (\A x \in Runs : RunInv(x)') /\ OneActive' /\ Remembered
<1>1. \A x \in Runs : x # r => status'[x] = status[x] /\ business'[x] = business[x]
  BY DEF HistoryStep, HistoryMoves
<1>2. RunInv(r) BY DEF RunSide
<1>3. Fate(r)'
  BY <1>2 DEF RunInv, Fate, HistoryStep, HistoryMoves, From, Withheld, Successes
<1>4. status[r] # "absent" /\ status'[r] # "absent"
  <2>1. status[r] # "absent"
    BY <1>2 DEF RunInv, Opened
  <2> QED BY <2>1 DEF HistoryStep, HistoryMoves, From, Withheld, Successes
<1>5. Opened(r)' BY <1>2, <1>4 DEF RunInv, Opened
<1>6. /\ status[r] \in Withheld => status'[r] \in Withheld
      /\ business[r] = "committed" => business'[r] = "committed"
      /\ status'[r] \in Active => status[r] \in Active
  BY <1>2 DEF RunInv, Fate, HistoryStep, HistoryMoves, From, Withheld, Successes, Active
<1>7. Told(r)' BY <1>2, <1>6 DEF RunInv, Told
<1>8. \A x \in Runs : x # r => RunInv(x)'
  BY <1>1 DEF RunSide, RunInv, Fate, Opened, Told
<1>9. OneActive' BY <1>1, <1>6 DEF RunSide, OneActive
<1>10. Remembered BY <1>1, <1>6 DEF Remembered
<1> QED BY <1>3, <1>5, <1>7, <1>8, <1>9, <1>10 DEF RunInv

\* A relay may move a task from accepted to queued, and sees no run.
LEMMA RelaysKeepRuns ==
  ASSUME TypeOK, RunSide, KeepsHistory, UNCHANGED <<entries, worker>>,
         \A r \in Runs :
           /\ task'[r].published = task[r].published
           /\ \/ task'[r].state = task[r].state
              \/ task[r].state = "accepted" /\ task'[r].state = "queued"
           /\ outbox[r].status = "pending" /\ outbox[r].attempts = 0 =>
                /\ task'[r].dispatch = task[r].dispatch
                /\ outbox'[r].attempts = 0 => outbox'[r].status = "pending"
                /\ task[r].state = "absent" => outbox'[r].attempts = 0
  PROVE  RunSide'
<1> USE DEF KeepsHistory
<1>1. ASSUME NEW r \in Runs PROVE RunInv(r)'
  <2>1. RunInv(r) BY DEF RunSide
  <2>2. Fate(r)' BY <2>1 DEF RunInv, Fate
  <2>3. Opened(r)' BY <2>1 DEF RunInv, Opened, Waiting
  <2>4. Told(r)' BY <2>1 DEF RunInv, Told, Closed
  <2> QED BY <2>2, <2>3, <2>4 DEF RunInv
<1>2. \A w \in Workers : WorkerInv(w)' BY DEF RunSide, WorkerInv
<1>3. OneActive' BY DEF RunSide, OneActive
<1> QED BY <1>1, <1>2, <1>3 DEF RunSide

LEMMA RelaySideRuns ==
  ASSUME TypeOK, RunSide, DispatchSide,
         \/ \E b \in Relays : \/ RelaySweeps(b) \/ Publish(b) \/ RelayConfirms(b)
                              \/ RelayFails(b) \/ RelayLost(b)
         \/ \E b \in Relays, r \in Runs : RelayClaims(b, r)
         \/ \E r \in Runs : RelayDeadline(r) \/ CountdownEnds(r)
  PROVE  RunSide'
<1> USE DEF KeepsHistory, historyVars, workVars
<1>1. ASSUME NEW r \in Runs, SweepTasks
      PROVE  /\ task'[r].published = task[r].published
             /\ task'[r].state = task[r].state
             /\ outbox[r].status = "pending" /\ outbox[r].attempts = 0 =>
                  /\ task'[r].dispatch = task[r].dispatch
                  /\ SweptOutbox[r].status = "pending"
                  /\ SweptOutbox[r].attempts = 0
  <2>1. outbox[r].status = "pending" => Swept(r) = "pending"
    BY <1>1, SweptCases DEF DispatchSide
  <2> QED BY <1>1, <2>1, SweptRows
<1>2. ASSUME NEW b \in Relays, RelaySweeps(b) PROVE RunSide'
  BY <1>1, <1>2, RelaysKeepRuns DEF RelaySweeps
<1>3. ASSUME NEW b \in Relays, NEW r \in Runs, RelayClaims(b, r) PROVE RunSide'
  <2>1. \A x \in Runs : x # r => outbox'[x] = SweptOutbox[x]
    BY <1>3, SweepType DEF RelayClaims
  <2>2. outbox'[r].attempts # 0
    <3>1. outbox[r].attempts \in Nat BY DEF TypeOK, OutboxRow
    <3>2. SweptOutbox \in [Runs -> OutboxRow] /\ SweptOutbox[r].attempts = outbox[r].attempts
      BY <1>3, SweepType, SweptRows DEF RelayClaims
    <3>3. outbox'[r].attempts = outbox[r].attempts + 1
      <4>1. outbox' = [SweptOutbox EXCEPT ![r] =
                         [SweptOutbox[r] EXCEPT !.status = "publishing",
                                                !.attempts = @ + 1, !.lease = "ahead"]]
        BY <1>3 DEF RelayClaims
      <4>2. outbox'[r] = [SweptOutbox[r] EXCEPT !.status = "publishing",
                                                !.attempts = @ + 1, !.lease = "ahead"]
        BY <3>2, <4>1
      <4>3. SweptOutbox[r] \in OutboxRow BY <3>2
      <4> QED BY <3>2, <4>2, <4>3 DEF OutboxRow
    <3> QED BY <3>1, <3>3
  <2>3. task[r].state # "absent" BY <1>3 DEF RelayClaims
  <2> QED BY ZenonT(60), <1>1, <1>3, <2>1, <2>2, <2>3, RelaysKeepRuns DEF RelayClaims
<1>4. ASSUME NEW b \in Relays, RelayConfirms(b) \/ RelayFails(b) PROVE RunSide'
  <2>1. /\ relay[b].run \in Runs
        /\ relay[b].attempts \in 1 .. MaxPublishAttempts
        /\ relay[b].attempts <= outbox[relay[b].run].attempts
    BY <1>4, BusyAt DEF RelayConfirms, RelayFails, DispatchSide, RelayInv
  <2> PICK r \in Runs : r = relay[b].run BY <2>1
  <2>2. outbox[r].attempts # 0
    <3>1. outbox[r].attempts \in Nat BY DEF TypeOK, OutboxRow
    <3> QED BY <2>1, <3>1
  <2>3. task[r] \in TaskRow BY DEF TypeOK, TaskTypeOK
  <2>4. /\ \A x \in Runs : x # r => task'[x] = task[x] /\ outbox'[x] = outbox[x]
        /\ task'[r].published = task[r].published
        /\ \/ task'[r].state = task[r].state
           \/ task[r].state = "accepted" /\ task'[r].state = "queued"
    <3>1. CASE RelayConfirms(b)
      <4>1. CASE HoldsDispatch(b)
        <5>1. /\ task \in [Runs -> TaskRow]
              /\ outbox \in [Runs -> OutboxRow]
          BY DEF TypeOK, TaskTypeOK
        <5>2. /\ outbox' = [outbox EXCEPT ![r] = [outbox[r] EXCEPT !.status = "published",
                                                                 !.lease = "null"]]
              /\ task' = [task EXCEPT ![r] =
                   [task[r] EXCEPT !.dispatch = "published",
                                   !.state = IF @ = "accepted" THEN "queued" ELSE @]]
          BY <3>1, <4>1 DEF RelayConfirms
        <5> QED BY <2>3, <5>1, <5>2 DEF TaskRow
      <4>2. CASE ~HoldsDispatch(b) BY <3>1, <4>2 DEF RelayConfirms
      <4> QED BY <4>1, <4>2
    <3>2. CASE RelayFails(b)
      BY <2>3, <3>2 DEF RelayFails, TypeOK, TaskTypeOK, TaskRow
    <3> QED BY <1>4, <3>1, <3>2
  <2>5. KeepsHistory /\ UNCHANGED <<entries, worker>>
    BY <1>4 DEF RelayConfirms, RelayFails
  <2> QED BY <2>2, <2>4, <2>5, RelaysKeepRuns
<1>5. ASSUME NEW b \in Relays, Publish(b) \/ RelayLost(b) PROVE RunSide'
  <2>1. KeepsHistory /\ UNCHANGED <<entries, worker, task, outbox>>
    BY <1>5 DEF Publish, RelayLost, taskVars
  <2> QED BY <2>1, RelaysKeepRuns
<1>6. ASSUME NEW r \in Runs, RelayDeadline(r) \/ CountdownEnds(r) PROVE RunSide'
  <2>1. /\ KeepsHistory /\ UNCHANGED <<entries, worker, task>>
        /\ \A x \in Runs : /\ outbox'[x].status = outbox[x].status
                           /\ outbox'[x].attempts = outbox[x].attempts
    BY <1>6 DEF RelayDeadline, CountdownEnds, taskVars, relayVars, TypeOK, OutboxRow
  <2> QED BY <2>1, RelaysKeepRuns
<1> QED BY <1>2, <1>3, <1>4, <1>5, <1>6

LEMMA RequestsKeepRuns ==
  ASSUME IInv, NEW r \in Runs,
         Accept(r) \/ ReconcileOne(r) \/ ServerAnswers(r) \/ TaskDeadline(r)
  PROVE  RunSide'
<1> USE DEF IInv, historyVars, relayVars, workVars
<1>1. (\A x \in Runs : RunInv(x)') /\ OneActive' /\ Remembered
  <2>1. CASE Accept(r)
    <3>1. /\ status[r] = "absent" /\ status' = [status EXCEPT ![r] = "pending"]
          /\ \A x \in Runs : status[x] \notin Active
          /\ UNCHANGED <<business, outbox, entries>>
      BY <2>1 DEF Accept, OpenRun, CreateRun, AcceptSide
    <3>2. /\ status'[r] = "pending"
          /\ \A x \in Runs : x # r => status'[x] = status[x]
      BY <3>1 DEF TypeOK, RunTypeOK
    <3>3. Moves(r, {"absent"}, "accepted", "null") BY <2>1, AcceptShape
    <3>4. RunInv(r) BY DEF RunSide
    <3>5. RunInv(r)'
      BY <3>1, <3>2, <3>3, <3>4
      DEF RunInv, Fate, Opened, Told, Moves, Becomes, Waiting, Closed, Withheld, Successes
    <3>6. \A x \in Runs : x # r => RunInv(x)'
      BY <3>1, <3>2, <3>3 DEF RunSide, RunInv, Fate, Opened, Told, Moves, Becomes
    <3>7. OneActive' BY <3>1, <3>2 DEF OneActive
    <3>8. Remembered BY <3>1, <3>2 DEF Remembered, Withheld
    <3> QED BY <3>5, <3>6, <3>7, <3>8
  <2>2. CASE ReconcileOne(r)
    <3>1. status[r] \in Successes => business[r] = "committed"
      BY DEF RunSide, RunInv, Fate
    <3> QED BY <2>2, <3>1, ReconcileShape, TaskMoveKeepsRuns
            DEF ReconcileOne, KeepsHistory, Closed
  <2>3. CASE ServerAnswers(r)
    <3>1. entries[r] = 1
      BY <2>3 DEF ServerAnswers, RunSide, RunInv, Fate, Opened
    <3> QED BY <2>3, <3>1, HistoryShape, HistoryKeepsRuns DEF ServerAnswers, taskVars
  <2>4. CASE TaskDeadline(r)
    BY <2>4, ClaimShape, TaskMoveKeepsRuns DEF TaskDeadline, KeepsHistory
  <2> QED BY <2>1, <2>2, <2>3, <2>4
<1>2. UNCHANGED worker
  BY DEF Accept, ReconcileOne, ServerAnswers, TaskDeadline
<1>3. \A w \in Workers : WorkerInv(w)' BY <1>1, <1>2, OtherWorkers DEF RunSide
<1> QED BY <1>1, <1>3 DEF RunSide

\* A worker that moves: the runs, what is remembered and its own new place are
\* enough.
LEMMA WorkerSide ==
  ASSUME TypeOK, RunSide, NEW w \in Workers, Remembered, OneActive',
         \A x \in Runs : RunInv(x)',
         \A v \in Workers : v # w => worker'[v] = worker[v],
         WorkerInv(w)'
  PROVE  RunSide'
<1>1. \A v \in Workers : v # w => WorkerInv(v)' BY OtherWorkers DEF RunSide
<1> QED BY <1>1 DEF RunSide

\* Before the pipeline a worker knows nothing of its run.
LEMMA PreparationKeepsRuns ==
  ASSUME TypeOK, RunSide, NEW w \in Workers,
         \/ ReconcileRejected(w) \/ PublishRetry(w) \/ ProbeFails(w) \/ PreflightFails(w)
         \/ WorkerLost(w) \/ WorkerGivesUp(w) \/ \E r \in Runs : ReceiveAndClaim(w, r)
  PROVE  RunSide'
<1> USE DEF historyVars, taskVars, relayVars, workVars, Busy, RunOf, Done, KeepsHistory
<1>1. (\A x \in Runs : RunInv(x)') /\ OneActive' /\ Remembered
  <2>0. KeepsHistory /\ UNCHANGED <<outbox, entries>>
    BY DEF ReconcileRejected, PublishRetry, ProbeFails, PreflightFails, WorkerLost,
           WorkerGivesUp, ReceiveAndClaim
  <2>1. ASSUME NEW r \in Runs, ReceiveAndClaim(w, r)
        PROVE  \/ Keeps(r)
               \/ Moves(r, Waiting \cup {"claimed"}, "claimed", task[r].published)
    BY <2>1, ClaimShape DEF ReceiveAndClaim, Keeps, Becomes
  <2>2. CASE ReconcileRejected(w) \/ ProbeFails(w) \/ PreflightFails(w)
    <3>1. worker[w].run \in Runs
      BY <2>2, WorkerAt DEF ReconcileRejected, ProbeFails, PreflightFails
    <3> PICK r \in Runs : r = worker[w].run BY <3>1
    <3>2. RunInv(r) BY DEF RunSide
    <3>3. CASE ReconcileRejected(w)
      BY <2>0, <3>2, <3>3, ReconcileShape, TaskMoveKeepsRuns
      DEF ReconcileRejected, RunInv, Fate, Closed
    <3>4. CASE ProbeFails(w)
      BY <2>0, <3>4, ClaimShape, TaskMoveKeepsRuns DEF ProbeFails
    <3>5. CASE PreflightFails(w)
      <4>1. \/ Keeps(r)
            \/ Moves(r, {"claimed"}, "dead_lettered", "no")
            \/ Moves(r, {"claimed"}, "failure_pending_dlq", "no")
        BY <3>5, FailureShape DEF PreflightFails
      <4>2. \/ Keeps(r)
            \/ /\ \E s \in Closed : Moves(r, Waiting \cup Owned, s, "no")
               /\ entries[r] = 0
        BY <3>2, <4>1 DEF Moves, Closed, Owned, RunInv, Opened
      <4> QED BY <2>0, <4>2, TaskMoveKeepsRuns
    <3> QED BY <2>2, <3>3, <3>4, <3>5
  <2>3. CASE PublishRetry(w) \/ WorkerLost(w) \/ WorkerGivesUp(w)
    <3>1. UNCHANGED task BY <2>3 DEF PublishRetry, WorkerLost, WorkerGivesUp
    <3> QED BY <2>0, <3>1
            DEF RunSide, RunInv, Fate, Opened, Told, OneActive, Remembered
  <2>4. CASE \E r \in Runs : ReceiveAndClaim(w, r)
    BY <2>0, <2>1, <2>4, TaskMoveKeepsRuns
  <2> QED BY <2>2, <2>3, <2>4
<1>2. /\ \A v \in Workers : v # w => worker'[v] = worker[v]
      /\ worker'[w].at \in {"idle", "rejected", "preflight", "retry"}
  <2>1. CASE ProbeFails(w)
    <3>1. worker' = [worker EXCEPT ![w].at = "retry"] BY <2>1 DEF ProbeFails
    <3>2. worker[w] = [at |-> worker[w].at, run |-> worker[w].run,
                       attempt |-> worker[w].attempt]
      BY <2>1, WorkerAt DEF ProbeFails
    <3> QED BY <3>1, <3>2 DEF TypeOK
  <2>2. CASE \/ ReconcileRejected(w) \/ PublishRetry(w) \/ PreflightFails(w)
             \/ WorkerLost(w) \/ WorkerGivesUp(w)
    BY <2>2 DEF ReconcileRejected, PublishRetry, PreflightFails, WorkerLost, WorkerGivesUp,
                TypeOK, IdleWorker
  <2>3. CASE \E r \in Runs : ReceiveAndClaim(w, r)
    <3> PICK r \in Runs : ReceiveAndClaim(w, r) BY <2>3
    <3>1. \/ worker' = [worker EXCEPT ![w] = [at |-> "preflight", run |-> r,
                                              attempt |-> task'[r].attempt]]
          \/ worker' = [worker EXCEPT ![w] = [at |-> "rejected", run |-> r]]
      BY DEF ReceiveAndClaim
    <3> QED BY <3>1 DEF TypeOK
  <2> QED BY <2>1, <2>2, <2>3
<1>3. WorkerInv(w)' BY <1>2 DEF WorkerInv
<1> QED BY <1>1, <1>2, <1>3, WorkerSide

\* The fence: only a claimed task is entered, and no claimed task was entered.
LEMMA EntryKeepsRuns ==
  ASSUME TypeOK, RunSide, NEW w \in Workers, EnterPipeline(w)
  PROVE  RunSide'
<1> USE DEF historyVars, relayVars, Busy, RunOf
<1>1. worker[w].run \in Runs BY WorkerAt DEF EnterPipeline
<1> PICK r \in Runs : r = worker[w].run BY <1>1
<1>2. RunInv(r) BY DEF RunSide
<1>3. UNCHANGED <<status, business, outbox>> BY DEF EnterPipeline
<1>4. CASE CanStart(r, worker[w].attempt)
  <2>1. /\ StartPrefect(r)
        /\ worker' = [worker EXCEPT ![w].at = "pipeline"]
        /\ entries' = [entries EXCEPT ![r] = @ + 1]
    BY <1>4 DEF EnterPipeline
  <2>2. Moves(r, {"claimed"}, "running", task[r].published) BY <1>4, <2>1, ClaimShape
  <2>3. entries[r] = 0 /\ task[r].published = "null"
    <3>1. entries[r] = 0 BY <1>2, <2>2 DEF RunInv, Opened, Moves
    <3>2. task[r].published = "null" BY <1>2, <2>2 DEF RunInv, Told, Moves, Closed
    <3> QED BY <3>1, <3>2
  <2>4. /\ entries'[r] = 1
        /\ \A x \in Runs : x # r => entries'[x] = entries[x]
    BY <2>1, <2>3 DEF TypeOK
  <2>5. status[r] # "absent"
    BY <1>2, <2>2 DEF RunInv, Opened, Moves
  <2>6. RunInv(r)'
    BY <1>2, <1>3, <2>2, <2>3, <2>4, <2>5
    DEF RunInv, Fate, Opened, Told, Moves, Becomes, Waiting
  <2>7. \A x \in Runs : x # r => RunInv(x)'
    BY <1>3, <2>2, <2>4 DEF RunSide, RunInv, Fate, Opened, Told, Moves, Becomes
  <2>8. OneActive' BY <1>3 DEF RunSide, OneActive
  <2>9. Remembered BY <1>3, <2>3, <2>4 DEF Remembered
  <2>10. /\ \A v \in Workers : v # w => worker'[v] = worker[v]
         /\ worker'[w].at = "pipeline" /\ worker'[w].run = r
    <3>1. worker[w] = [at |-> worker[w].at, run |-> worker[w].run,
                       attempt |-> worker[w].attempt]
      BY WorkerAt DEF EnterPipeline
    <3> QED BY <2>1, <3>1 DEF TypeOK
  <2>11. WorkerInv(w)' BY <2>4, <2>10 DEF WorkerInv
  <2> QED BY <2>6, <2>7, <2>8, <2>9, <2>10, <2>11, WorkerSide
<1>5. CASE ~CanStart(r, worker[w].attempt)
  <2>1. UNCHANGED <<task, entries>> /\ Done(w) BY <1>5 DEF EnterPipeline
  <2>2. (\A x \in Runs : RunInv(x)') /\ OneActive' /\ Remembered
    BY <1>3, <2>1 DEF RunSide, RunInv, Fate, Opened, Told, OneActive, Remembered
  <2>3. /\ \A v \in Workers : v # w => worker'[v] = worker[v]
        /\ WorkerInv(w)'
    BY <2>1 DEF Done, TypeOK, WorkerInv, IdleWorker
  <2> QED BY <2>2, <2>3, WorkerSide
<1> QED BY <1>4, <1>5

\* The pipeline moves its run, and its worker comes back with the fate of it.
LEMMA PipelineKeepsRuns ==
  ASSUME TypeOK, RunSide, NEW w \in Workers,
         \/ PipelineAdvances(w) \/ PipelineReturns(w) \/ PipelineRaises(w)
         \/ Heartbeat(w) \/ CloseTask(w)
  PROVE  RunSide'
<1> USE DEF historyVars, taskVars, relayVars, workVars, Busy, RunOf
<1>1. worker[w].run \in Runs
  BY WorkerAt DEF PipelineAdvances, PipelineReturns, PipelineRaises, Heartbeat, CloseTask
<1> PICK r \in Runs : r = worker[w].run BY <1>1
<1>2. RunInv(r) /\ WorkerInv(w) /\ entries[r] = 1
  BY DEF RunSide, WorkerInv, PipelineAdvances, PipelineReturns, PipelineRaises, Heartbeat,
         CloseTask
<1>3. CASE PipelineAdvances(w)
  <2>1. HistoryStep(r) BY <1>3, HistoryShape DEF PipelineAdvances
  <2>2. UNCHANGED <<task, outbox, entries, worker>> BY <1>3 DEF PipelineAdvances
  <2>3. (\A x \in Runs : RunInv(x)') /\ OneActive' /\ Remembered
    BY <1>2, <2>1, <2>2, HistoryKeepsRuns
  <2>4. WorkerInv(w)' BY <1>2, <2>2, <2>3, OtherWorkers
  <2> QED BY <2>2, <2>3, <2>4, WorkerSide
<1>4. CASE PipelineReturns(w)
  <2>1. \/ WithholdPending(r) \/ WithholdRunning(r)
        \/ ObserveCommit(r) \/ RecordSuccess(r)
    BY <1>4 DEF PipelineReturns
  <2>2. UNCHANGED <<task, outbox, entries>> BY <1>4 DEF PipelineReturns
  <2>3. (\A x \in Runs : RunInv(x)') /\ OneActive' /\ Remembered
    BY <1>2, <2>1, <2>2, HistoryShape, HistoryKeepsRuns
  <2>4. PICK x \in Results :
          /\ Returns(w, x)
          /\ x = "succeeded" => business'[r] = "committed"
          /\ x \in {"blocked_quality", "failed"} => status'[r] \in Withheld
    <3>1. CASE WithholdPending(r) \/ WithholdRunning(r)
      <4>1. status'[r] \in Withheld BY <3>1, HistoryShape
      <4>2. PICK x \in Results : Returns(w, x) /\ x # "succeeded"
        <5>1. ~RecordSuccess(r) \/ \E x \in Results : Returns(w, x) /\ x # "succeeded"
          <6>1. RecordSuccess(r) => status'[r] \in Successes
            BY DEF RecordSuccess, UpdateRun, TypeOK, RunTypeOK
          <6> QED BY <4>1, <6>1 DEF Withheld, Successes
        <5> QED BY <1>4, <5>1 DEF PipelineReturns, Results
      <4> QED BY <4>1, <4>2
    <3>2. CASE ObserveCommit(r) /\ ~WithholdPending(r) /\ ~WithholdRunning(r)
      <4>1. ~RecordSuccess(r)
        BY <3>2 DEF ObserveCommit, RecordCommitObservation, RecordSuccess, UpdateRun, TypeOK,
                    RunTypeOK, Successes
      <4>2. Returns(w, "uncertain") BY <1>4, <3>2, <4>1 DEF PipelineReturns
      <4> QED BY <4>2 DEF Results
    <3>3. CASE /\ RecordSuccess(r) /\ ~ObserveCommit(r)
               /\ ~WithholdPending(r) /\ ~WithholdRunning(r)
      <4>1. Returns(w, "succeeded") BY <1>4, <3>3 DEF PipelineReturns
      <4>2. business'[r] = "committed" BY <3>3 DEF RecordSuccess
      <4> QED BY <4>1, <4>2 DEF Results
    <3> QED BY <2>1, <3>1, <3>2, <3>3
  <2>5. /\ \A v \in Workers : v # w => worker'[v] = worker[v]
        /\ worker'[w].at = "close" /\ worker'[w].run = r /\ worker'[w].result = x
    BY <2>4 DEF Returns, TypeOK
  <2>6. WorkerInv(w)' BY <1>2, <2>2, <2>4, <2>5 DEF WorkerInv
  <2> QED BY <2>3, <2>5, <2>6, WorkerSide
<1>5. CASE PipelineRaises(w)
  <2>1. UNCHANGED <<status, business, task, outbox, entries>> BY <1>5 DEF PipelineRaises
  <2>2. (\A x \in Runs : RunInv(x)') /\ OneActive' /\ Remembered
    BY <2>1 DEF RunSide, RunInv, Fate, Opened, Told, OneActive, Remembered
  <2>3. /\ \A v \in Workers : v # w => worker'[v] = worker[v]
        /\ worker'[w].at = "close" /\ worker'[w].run = r /\ worker'[w].result = "raised"
    BY <1>5 DEF PipelineRaises, Returns, TypeOK
  <2>4. WorkerInv(w)' BY <1>2, <2>1, <2>3 DEF WorkerInv
  <2> QED BY <2>2, <2>3, <2>4, WorkerSide
<1>6. CASE Heartbeat(w)
  <2>1. KeepsHistory /\ UNCHANGED <<outbox, entries, worker>>
    BY <1>6 DEF Heartbeat, KeepsHistory
  <2>2. Keeps(r) BY <1>6, ClaimShape DEF Heartbeat
  <2>3. (\A x \in Runs : RunInv(x)') /\ OneActive' /\ Remembered
    BY <2>1, <2>2, TaskMoveKeepsRuns
  <2>4. WorkerInv(w)' BY <1>2, <2>1, <2>3, OtherWorkers
  <2> QED BY <2>1, <2>3, <2>4, WorkerSide
<1>7. CASE CloseTask(w)
  <2>1. KeepsHistory /\ UNCHANGED <<outbox, entries>> /\ Done(w)
    BY <1>7 DEF CloseTask, KeepsHistory
  <2>2. /\ worker[w].result = "succeeded" => business[r] = "committed"
        /\ worker[w].result \in {"blocked_quality", "failed"} => status[r] \in Withheld
    BY <1>2, <1>7 DEF WorkerInv, CloseTask
  <2>3. \/ Keeps(r)
        \/ Moves(r, Waiting \cup Owned, "reconciliation_required", "null")
        \/ Moves(r, Waiting \cup Owned, "succeeded", "yes") /\ business[r] = "committed"
        \/ /\ \E s \in Closed : Moves(r, Waiting \cup Owned, s, "no")
           /\ status[r] \in Withheld
    <3>1. CASE worker[w].result = "failed"
      BY <1>7, <2>2, <3>1, FailureShape DEF CloseTask, Moves, Owned, Closed
    <3>2. CASE worker[w].result # "failed"
      <4> DEFINE a == Answer(worker[w].result)
      <4>1. \/ a = Verdict("succeeded", "yes") /\ worker[w].result = "succeeded"
            \/ a = Verdict("succeeded", "no") /\ worker[w].result = "blocked_quality"
            \/ a = Verdict("reconciliation_required", "null")
        BY DEF Answer
      <4>2. Keeps(r) \/ Moves(r, {"running"}, a.state, a.published)
        BY <1>7, <3>2, CloseShape DEF CloseTask
      <4> HIDE DEF a
      <4> QED BY <2>2, <4>1, <4>2 DEF Verdict, Moves, Owned, Closed
    <3> QED BY <3>1, <3>2
  <2>4. (\A x \in Runs : RunInv(x)') /\ OneActive' /\ Remembered
    BY <2>1, <2>3, TaskMoveKeepsRuns
  <2>5. /\ \A v \in Workers : v # w => worker'[v] = worker[v]
        /\ WorkerInv(w)'
    BY <2>1 DEF Done, TypeOK, WorkerInv, IdleWorker
  <2> QED BY <2>4, <2>5, WorkerSide
<1> QED BY <1>3, <1>4, <1>5, <1>6, <1>7

\* A transaction that locks, looks or is rolled back writes nothing.
LEMMA LocksKeepRest ==
  ASSUME RunSide, DispatchSide, NEW r \in Runs,
         LocksWeek(r) \/ LooksForRun(r) \/ AcceptanceFails(r)
  PROVE  RunSide' /\ DispatchSide'
<1>1. UNCHANGED <<status, business, task, outbox, relay, worker, entries>>
  BY DEF LocksWeek, LooksForRun, AcceptanceFails, historyVars, taskVars, relayVars, workVars
<1>2. RunSide' BY <1>1 DEF RunSide, RunInv, Fate, Opened, Told, WorkerInv, OneActive
<1>3. DispatchSide' BY <1>1 DEF DispatchSide, DispatchInv, RelayInv, RelaysDiffer
<1> QED BY <1>2, <1>3

-----------------------------------------------------------------------------
(* The acceptance: one transaction at a time, and a look that does not go stale. *)

LocksKeepWeek ==
  UNCHANGED accepting /\ \A x \in Runs : status'[x] \in Active => status[x] \in Active

\* Only an acceptance makes a run active.
LEMMA NobodyElseOpens ==
  ASSUME TypeOK, Next, ~\E r \in Runs : Acceptance(r)
  PROVE  LocksKeepWeek
<1> USE DEF LocksKeepWeek, historyVars
<1>1. ASSUME UNCHANGED <<accepting, status>> PROVE LocksKeepWeek BY <1>1
<1>2. ASSUME NEW r \in Runs, HistoryStep(r), UNCHANGED accepting PROVE LocksKeepWeek
  BY <1>2 DEF HistoryStep, HistoryMoves, From, Active, Successes, Withheld
<1>3. ASSUME NEW r \in Runs, ServerAnswers(r) PROVE LocksKeepWeek
  BY <1>2, <1>3, HistoryShape DEF ServerAnswers
<1>4. ASSUME NEW w \in Workers, PipelineAdvances(w) \/ PipelineReturns(w) PROVE LocksKeepWeek
  <2>1. worker[w].run \in Runs
    BY <1>4, WorkerAt DEF PipelineAdvances, PipelineReturns, Busy
  <2>2. HistoryStep(worker[w].run) /\ UNCHANGED accepting
    BY <1>4, <2>1, HistoryShape DEF PipelineAdvances, PipelineReturns, RunOf
  <2> QED BY <1>2, <2>1, <2>2
<1>5. ASSUME \/ \E r \in Runs : \/ ReconcileOne(r) \/ TaskDeadline(r) \/ RelayDeadline(r)
                                \/ CountdownEnds(r)
             \/ \E b \in Relays : \/ RelaySweeps(b) \/ Publish(b) \/ RelayConfirms(b)
                                  \/ RelayFails(b) \/ RelayLost(b)
             \/ \E b \in Relays, r \in Runs : RelayClaims(b, r)
      PROVE  LocksKeepWeek
  BY <1>1, <1>5 DEF ReconcileOne, TaskDeadline, RelayDeadline, CountdownEnds, RelaySweeps,
     Publish, RelayConfirms, RelayFails, RelayLost, RelayClaims
<1>6. ASSUME \/ \E w \in Workers, r \in Runs : ReceiveAndClaim(w, r)
             \/ \E w \in Workers : \/ ReconcileRejected(w) \/ EnterPipeline(w)
                                   \/ PublishRetry(w) \/ CloseTask(w) \/ Heartbeat(w)
                                   \/ ProbeFails(w) \/ PreflightFails(w)
                                   \/ PipelineRaises(w) \/ WorkerLost(w) \/ WorkerGivesUp(w)
      PROVE  LocksKeepWeek
  BY <1>1, <1>6 DEF ReceiveAndClaim, ReconcileRejected, EnterPipeline, PublishRetry, CloseTask,
     Heartbeat, ProbeFails, PreflightFails, PipelineRaises, WorkerLost, WorkerGivesUp
<1> QED BY <1>3, <1>4, <1>5, <1>6, NextCases DEF Acceptance

LEMMA AcceptanceKeepsWeek ==
  ASSUME TypeOK, AcceptSide, NEW r \in Runs, Acceptance(r)
  PROVE  AcceptSide'
<1> USE DEF AcceptSide, TypeOK, historyVars
<1>1. CASE LocksWeek(r) BY <1>1 DEF LocksWeek
<1>2. CASE LooksForRun(r) BY <1>2 DEF LooksForRun
<1>3. CASE AcceptanceFails(r) BY <1>3 DEF AcceptanceFails
\* The COMMIT that inserts the run ends the only transaction that saw a free week.
<1>4. CASE Accept(r)
  <2>1. accepting'[r] = "no" /\ \A x \in Runs : x # r => accepting'[x] = accepting[x]
    BY <1>4 DEF Accept
  <2>2. \A x \in Runs : accepting'[x] = "no" BY <1>4, <2>1 DEF Accept
  <2> QED BY <2>2
<1> QED BY <1>1, <1>2, <1>3, <1>4 DEF Acceptance

LEMMA WeekStep == TypeOK /\ AcceptSide /\ Next => AcceptSide'
<1> SUFFICES ASSUME TypeOK, AcceptSide, Next PROVE AcceptSide'
  OBVIOUS
<1>1. CASE \E r \in Runs : Acceptance(r) BY <1>1, AcceptanceKeepsWeek
<1>2. CASE ~\E r \in Runs : Acceptance(r)
  BY <1>2, NobodyElseOpens DEF LocksKeepWeek, AcceptSide
<1> QED BY <1>1, <1>2

-----------------------------------------------------------------------------
(* The invariant. *)

LEMMA InitIInv == Init => IInv
<1> SUFFICES ASSUME Init PROVE IInv
  OBVIOUS
<1>1. TypeOK BY TypeInit
<1> USE DEF Init, HistoryInit, RunInit, TaskInit, NewTask, IdleWorker, IdleRelay
<1>2. \A r \in Runs : RunInv(r)
  BY DEF RunInv, Fate, Opened, Told, Successes, Withheld
<1>3. \A w \in Workers : WorkerInv(w) BY DEF WorkerInv
<1>4. OneActive BY DEF OneActive, Active
<1>5. DispatchSide
  BY PublishAssumption DEF DispatchSide, DispatchInv, RelayInv, RelaysDiffer, DispatchEnds
<1>6. AcceptSide BY DEF AcceptSide
<1> QED BY <1>1, <1>2, <1>3, <1>4, <1>5, <1>6 DEF IInv, RunSide

LEMMA StepIInv == IInv /\ [Next]_vars => IInv'
<1> SUFFICES ASSUME IInv, [Next]_vars PROVE IInv'
  OBVIOUS
<1>1. TypeOK' BY TypeStep DEF IInv
<1>2. CASE UNCHANGED vars
  BY <1>1, <1>2 DEF IInv, RunSide, RunInv, Fate, Opened, Told, WorkerInv, OneActive,
     DispatchSide, DispatchInv, RelayInv, RelaysDiffer, AcceptSide, vars, historyVars, taskVars,
     relayVars, brokerVars, workVars
<1>3. CASE Next
  <2> USE DEF IInv
  <2>1. RunSide'
    BY <1>3, NextCases, RelaySideRuns, RequestsKeepRuns, LocksKeepRest, PreparationKeepsRuns,
       EntryKeepsRuns, PipelineKeepsRuns
  <2>2. DispatchSide'
    BY <1>3, NextCases, DispatchKept, WorkersKeepDispatch, RequestsKeepDispatch, QuietDispatch,
       SweepsDispatch, ClaimsDispatch, RecordsDispatch, LocksKeepRest
  <2>3. AcceptSide' BY <1>3, WeekStep
  <2> QED BY <1>1, <2>1, <2>2, <2>3
<1> QED BY <1>2, <1>3

\* Every row of the queue, and every local of a relay or worker, keeps its domain.
THEOREM TypeInvariant == Spec => []TypeOK
BY TypeInit, TypeStep, PTL DEF Spec

\* What the rows, the relays and the workers know of each other holds at every step.
THEOREM InductiveInvariant == Spec => []IInv
BY InitIInv, StepIInv, PTL DEF Spec

\* EnterPipeline is fenced by the claim and no task that was entered is claimed
\* again: at-least-once messages give at most one execution.
THEOREM AtMostOneExecution == Spec => []OneExecution
<1>1. IInv => OneExecution
  <2>1. ASSUME IInv, NEW r \in Runs PROVE entries[r] <= 1
    <3>1. entries[r] = 0 \/ entries[r] = 1 BY <2>1 DEF IInv, RunSide, RunInv, Opened
    <3> QED BY <3>1
  <2> QED BY <2>1 DEF OneExecution
<1> QED BY <1>1, InductiveInvariant, PTL

\* What CloseTask, PreflightFails and the reconciler tell of the publication is
\* what the server did, and a "no" can no longer be overtaken by a COMMIT.
THEOREM AnswersAreTruthful == Spec => []TruthfulAnswer
<1>1. IInv => TruthfulAnswer
  BY DEF IInv, RunSide, RunInv, Fate, Opened, Told, TruthfulAnswer, Withheld
<1> QED BY <1>1, InductiveInvariant, PTL

\* RelayFails announces the end of a dispatch in the task without looking at its
\* claim, and the outbox row still says the same.
THEOREM DispatchIsAgreed == Spec => []DispatchAgrees
<1>1. IInv => DispatchAgrees
  BY DEF IInv, DispatchSide, DispatchInv, DispatchAgrees
<1> QED BY <1>1, InductiveInvariant, PTL

\* LooksForRun refuses a week that has an active run, what it saw cannot change while the lock
\* of the week is held, and a COMMIT on its way keeps its run active.
THEOREM OneRequestAtATime == Spec => []OneOpenRequest
<1>1. IInv => OneOpenRequest
  BY DEF IInv, RunSide, RunInv, Fate, OneActive, OneOpenRequest, Active
<1> QED BY <1>1, InductiveInvariant, PTL

-----------------------------------------------------------------------------
(* What was answered once. *)

\* A closed task keeps its answer; only a missing dead letter is still inserted.
Final(r) ==
  task[r].state \in Closed =>
    /\ task'[r].published = task[r].published
    /\ \/ task'[r].state = task[r].state
       \/ /\ task[r].state = "failure_pending_dlq"
          /\ task'[r].state = "dead_lettered"

LEMMA MovesAreFinal ==
  ASSUME NEW r \in Runs,
         \/ Keeps(r)
         \/ Moves(r, {"failure_pending_dlq"}, "dead_lettered", task[r].published)
         \/ \E s, p : Moves(r, {"absent"} \cup Waiting \cup Owned, s, p)
  PROVE  \A x \in Runs : Final(x)
BY DEF Keeps, Moves, Becomes, Final, Waiting, Owned, Closed

LEMMA FinalStep == IInv /\ [Next]_vars => \A r \in Runs : Final(r)
<1> SUFFICES ASSUME IInv, [Next]_vars PROVE \A r \in Runs : Final(r)
  OBVIOUS
<1> USE DEF IInv
<1>1. ASSUME UNCHANGED task PROVE \A r \in Runs : Final(r) BY <1>1 DEF Final
<1>2. ASSUME SweepTasks PROVE \A r \in Runs : Final(r) BY <1>2, SweptRows DEF Final
<1>3. ASSUME NEW r \in Runs, Accept(r) \/ ReconcileOne(r) \/ TaskDeadline(r)
      PROVE  \A x \in Runs : Final(x)
  <2>1. \/ Keeps(r)
        \/ Moves(r, {"failure_pending_dlq"}, "dead_lettered", task[r].published)
        \/ \E s, p : Moves(r, {"absent"} \cup Waiting \cup Owned, s, p)
    <3>1. CASE Accept(r) BY <3>1, AcceptShape DEF Moves
    <3>2. CASE ReconcileOne(r) BY <3>2, ReconcileShape DEF ReconcileOne, Moves
    <3>3. CASE TaskDeadline(r) BY <3>3, ClaimShape DEF TaskDeadline
    <3> QED BY <1>3, <3>1, <3>2, <3>3
  <2> QED BY <2>1, MovesAreFinal
<1>4. ASSUME NEW b \in Relays, RelayConfirms(b) PROVE \A r \in Runs : Final(r)
  <2>1. relay[b].run \in Runs BY <1>4, BusyAt DEF RelayConfirms
  <2> PICK r \in Runs : r = relay[b].run BY <2>1
  <2>2. task[r] \in TaskRow BY DEF TypeOK, TaskTypeOK
  <2>3. CASE HoldsDispatch(b)
    BY <1>4, <2>2, <2>3 DEF RelayConfirms, Final, TypeOK, TaskTypeOK, TaskRow, Closed
  <2>4. CASE ~HoldsDispatch(b) BY <1>1, <1>4, <2>4 DEF RelayConfirms
  <2> QED BY <2>3, <2>4
<1>5. ASSUME NEW b \in Relays, RelayFails(b) PROVE \A r \in Runs : Final(r)
  BY <1>5 DEF RelayFails, Final, TypeOK, TaskTypeOK, TaskRow
<1>6. ASSUME NEW w \in Workers, NEW r \in Runs, ReceiveAndClaim(w, r)
      PROVE  \A x \in Runs : Final(x)
  BY <1>1, <1>6, ClaimShape, MovesAreFinal DEF ReceiveAndClaim, Moves, Owned, taskVars
<1>7. ASSUME NEW w \in Workers,
             \/ ReconcileRejected(w) \/ EnterPipeline(w) \/ CloseTask(w) \/ Heartbeat(w)
             \/ ProbeFails(w) \/ PreflightFails(w)
      PROVE  \A x \in Runs : Final(x)
  <2> USE DEF Busy, RunOf
  <2>1. worker[w].run \in Runs
    BY <1>7, WorkerAt DEF ReconcileRejected, EnterPipeline, CloseTask, Heartbeat, ProbeFails,
                          PreflightFails
  <2> PICK r \in Runs : r = worker[w].run BY <2>1
  <2>2. \/ UNCHANGED task
        \/ Keeps(r)
        \/ Moves(r, {"failure_pending_dlq"}, "dead_lettered", task[r].published)
        \/ \E s, p : Moves(r, {"absent"} \cup Waiting \cup Owned, s, p)
    <3>1. CASE ReconcileRejected(w)
      BY <3>1, ReconcileShape DEF ReconcileRejected, Moves
    <3>2. CASE EnterPipeline(w)
      BY <3>2, ClaimShape DEF EnterPipeline, Moves, Owned
    <3>3. CASE CloseTask(w)
      BY <3>3, FailureShape, CloseShape DEF CloseTask, Moves, Owned
    <3>4. CASE Heartbeat(w) BY <3>4, ClaimShape DEF Heartbeat
    <3>5. CASE ProbeFails(w) BY <3>5, ClaimShape DEF ProbeFails, Moves, Owned
    <3>6. CASE PreflightFails(w) BY <3>6, FailureShape DEF PreflightFails, Moves, Owned
    <3> QED BY <1>7, <3>1, <3>2, <3>3, <3>4, <3>5, <3>6
  <2> QED BY <1>1, <2>2, MovesAreFinal
<1>8. ASSUME \/ \E r \in Runs : ServerAnswers(r) \/ RelayDeadline(r) \/ CountdownEnds(r)
             \/ \E r \in Runs : LocksWeek(r) \/ LooksForRun(r) \/ AcceptanceFails(r)
             \/ \E b \in Relays : Publish(b) \/ RelayLost(b)
             \/ \E w \in Workers : \/ PublishRetry(w) \/ PipelineAdvances(w)
                                   \/ PipelineReturns(w) \/ PipelineRaises(w)
                                   \/ WorkerLost(w) \/ WorkerGivesUp(w)
      PROVE  \A r \in Runs : Final(r)
  BY <1>1, <1>8 DEF LocksWeek, LooksForRun, AcceptanceFails, ServerAnswers, RelayDeadline,
     CountdownEnds, Publish, RelayLost, PublishRetry, PipelineAdvances, PipelineReturns,
     PipelineRaises, WorkerLost, WorkerGivesUp, taskVars
<1>9. CASE UNCHANGED vars BY <1>1, <1>9 DEF vars, taskVars
<1>10. CASE Next
  BY <1>2, <1>3, <1>4, <1>5, <1>6, <1>7, <1>8, <1>10, NextCases DEF RelayClaims, RelaySweeps
<1> QED BY <1>9, <1>10

\* GET /tasks/{task_id} never takes back a success, a failure or what it said of
\* the publication, whoever closes the task late: worker, reconciler or relay.
THEOREM AnswersAreFinal == Spec => AnswerIsFinal
<1>1. IInv /\ [Next]_vars =>
        [\A r \in Runs :
           LET told == PublicStatus(task[r].state) IN
           told \in {"success", "failure"} =>
             /\ PublicStatus(task'[r].state) = told
             /\ task'[r].published = task[r].published]_vars
  <2> SUFFICES ASSUME IInv, [Next]_vars, NEW r \in Runs,
                      PublicStatus(task[r].state) \in {"success", "failure"}
               PROVE  /\ PublicStatus(task'[r].state) = PublicStatus(task[r].state)
                      /\ task'[r].published = task[r].published
    OBVIOUS
  <2>1. task[r].state \in Closed
    BY DEF IInv, TypeOK, TaskTypeOK, TaskRow, PublicStatus, Waiting, Owned, Closed
  <2>2. Final(r) BY FinalStep
  <2> QED BY <2>1, <2>2 DEF Final, PublicStatus, Waiting, Owned
<1> QED BY <1>1, InductiveInvariant, PTL DEF AnswerIsFinal, Spec
=============================================================================
