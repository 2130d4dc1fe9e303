----------------------------- MODULE TaskStore ------------------------------
(***************************************************************************)
(* The durable task of a run: the statements of services/task_queue/       *)
(* store.py on reporting.async_tasks and reporting.task_dead_letters.      *)
(*                                                                         *)
(* A task and its run are created together and name each other one to one, *)
(* so the run stands for both.  attempt_count and execution_epoch are both *)
(* incremented by the claim and by nothing else, and each claim stores a   *)
(* fresh token: a claim is identified by its attempt, and token holds the  *)
(* attempt that stored it, 0 for NULL.  execution_phase is always written  *)
(* together with execution_state and adds nothing to it.  The deadline of  *)
(* a row is claim_expires_at, or next_attempt_at while it waits to retry;  *)
(* only its comparison with clock_timestamp() is kept.                     *)
(***************************************************************************)
EXTENDS RunHistory, Naturals

CONSTANT MaxFailedExecutions  \* MAX_FAILED_EXECUTIONS

ASSUME AttemptsAssumption == MaxFailedExecutions \in Nat \ {0}

VARIABLES task,        \* row of async_tasks of each run
          deadLetters  \* runs that have a row in task_dead_letters

taskVars == <<task, deadLetters>>

Waiting == {"accepted", "queued", "retry_wait"}
Owned   == {"claimed", "running"}
Closed  == {"succeeded", "failed", "dead_lettered", "failure_pending_dlq",
            "reconciliation_required"}

DispatchStatus == {"pending", "publishing", "retry_wait", "published",
                   "publication_uncertain", "reconciliation_required"}

TaskRow == [state : {"absent"} \cup Waiting \cup Owned \cup Closed,
            dispatch : DispatchStatus,
            attempt : 0 .. MaxFailedExecutions,
            token : 0 .. MaxFailedExecutions,
            deadline : {"null", "ahead", "past"},
            published : {"null", "yes", "no"}]

NewTask(state) == [state |-> state, dispatch |-> "pending", attempt |-> 0,
                   token |-> 0, deadline |-> "null", published |-> "null"]

TaskInit == /\ task = [r \in Runs |-> NewTask("absent")]
            /\ deadLetters = {}

InsertTask(r) == task' = [task EXCEPT ![r] = NewTask("accepted")]

\* public_task_status: what GET /tasks/{task_id} answers.
PublicStatus(state) == CASE state = "absent"       -> "not_found"
                         [] state \in Waiting     -> "pending"
                         [] state \in Owned       -> "started"
                         [] state = "succeeded"   -> "success"
                         [] OTHER                 -> "failure"

\* Mutant: any expired claim is recovered, also after the pipeline started.
Claimable_AlsoRunning(r) ==
  /\ task[r].attempt < MaxFailedExecutions
  /\ \/ task[r].state \in {"accepted", "queued"}
     \/ task[r].state = "retry_wait" /\ task[r].deadline = "past"
     \/ task[r].state \in Owned /\ task[r].deadline = "past"

\* Mutant: the attempts are not bounded.
Claimable_Unbounded(r) ==
  \/ task[r].state \in {"accepted", "queued"}
  \/ task[r].state = "retry_wait" /\ task[r].deadline = "past"
  \/ task[r].state = "claimed" /\ task[r].deadline = "past"

\* The WHERE clause of the claim.
Claimable(r) ==
  /\ task[r].attempt < MaxFailedExecutions
  /\ \/ task[r].state \in {"accepted", "queued"}
     \/ task[r].state = "retry_wait" /\ task[r].deadline = "past"
     \/ task[r].state = "claimed" /\ task[r].deadline = "past"

ClaimExecution(r) ==
  /\ Claimable(r)
  /\ task' = [task EXCEPT ![r].state = "claimed",
                          ![r].attempt = @ + 1,
                          ![r].token = task[r].attempt + 1,
                          ![r].deadline = "ahead"]
  /\ UNCHANGED deadLetters

\* The predicate every later statement of a claim repeats.
HoldsClaim(r, attempt, state) ==
  /\ task[r].state = state
  /\ task[r].token = attempt
  /\ task[r].attempt = attempt

CanStart(r, attempt) ==
  HoldsClaim(r, attempt, "claimed") /\ task[r].deadline = "ahead"

StartPrefect(r) == task' = [task EXCEPT ![r].state = "running", ![r].deadline = "ahead"]

\* A fenced statement changes nothing, and its caller does not look.
IfHeld(r, attempt, state, row) ==
  task' = IF HoldsClaim(r, attempt, state) THEN [task EXCEPT ![r] = row] ELSE task

\* A heartbeat never looks at the deadline it moves.
HeartbeatExecution(r, attempt) ==
  IfHeld(r, attempt, "running", [task[r] EXCEPT !.deadline = "ahead"])

ScheduleRetry(r, attempt) ==
  IfHeld(r, attempt, "claimed",
         [task[r] EXCEPT !.state = "retry_wait", !.token = 0, !.deadline = "ahead"])

CloseClaim(r, attempt, from, state, published) ==
  IfHeld(r, attempt, from,
         [task[r] EXCEPT !.state = state, !.deadline = "null", !.published = published])

\* insert_dead_letter inside a savepoint: it lands, or its failure is swallowed.
DeadLetterInserted(r, inserted) ==
  deadLetters' = IF inserted THEN deadLetters \cup {r} ELSE deadLetters

\* Dead letter and closure in one transaction, the closure fenced, the dead
\* letter not.
CloseAsFailure(r, attempt, from) ==
  \E inserted \in BOOLEAN :
    /\ DeadLetterInserted(r, inserted)
    /\ CloseClaim(r, attempt, from,
                  IF inserted THEN "dead_lettered" ELSE "failure_pending_dlq", "no")

\* The deadline of an owned or waiting row passes.
DeadlinePasses(r) ==
  /\ task[r].deadline = "ahead"
  /\ task' = [task EXCEPT ![r].deadline = "past"]
  /\ UNCHANGED deadLetters

TaskTypeOK == /\ task \in [Runs -> TaskRow]
              /\ deadLetters \subseteq Runs
=============================================================================
