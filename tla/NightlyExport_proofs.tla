----------------------- MODULE NightlyExport_proofs ------------------------
(***************************************************************************)
(* Proofs about NightlyExport for any invocations and dates.  SignalsMeet  *)
(* is needed for the ownership of writers alone.                           *)
(***************************************************************************)
EXTENDS NightlyExport, TLAPS

-----------------------------------------------------------------------------
(* The inductive invariant. *)

\* What the place of an invocation says of its row.  An invocation that is over, or
\* that goes on to fail its row, knows nothing of it.
RowFollowsPlace(i) ==
  /\ pc[i] \in {"idle", "acquire", "read_completed", "read_processing", "read_latest"} =>
       jobStatus[i] = "absent" /\ sent[i] = "none"
  /\ pc[i] = "acquiring" => sent[i] \in {"none", "processing"}
  /\ pc[i] \in {"export", "wait", "stop", "complete"} =>
       jobStatus[i] = "processing" /\ sent[i] = "none"

\* An open transaction inserts a row or ends one that is processing.
OpensAsItMay(i) ==
  /\ sent[i] = "processing" => jobStatus[i] = "absent"
  /\ sent[i] \in {"completed", "failed"} => jobStatus[i] = "processing"

\* While a claim is open its indexes have no other entry.
ClaimsAlone(i) ==
  sent[i] = "processing" =>
    \A j \in Invocations \ {i} :
      /\ sent[j] = "none"
      /\ jobStatus[j] # "processing"
      /\ TargetDate[j] = TargetDate[i] => jobStatus[j] # "completed"

Rows == \A i \in Invocations : RowFollowsPlace(i) /\ OpensAsItMay(i) /\ ClaimsAlone(i)

JobInv == TypeOK /\ Rows /\ CompletedOnce

\* A pipeline runs only where nothing has ended its row, or can.
Owned == \A i \in Invocations :
           Running(i) => /\ jobStatus[i] = "processing" /\ sent[i] = "none"
                         /\ pc[i] \in {"wait", "stop", "over"}

-----------------------------------------------------------------------------

\* The steps that leave the rows and open transactions as they are.
Local(i) ==
  \/ Start(i) \/ AcquireConfirmed(i) \/ AcquireUnconfirmed(i)
  \/ ReadCompleted(i) \/ ReadProcessing(i) \/ ReadLatest(i)
  \/ Export(i) \/ WaitReturns(i) \/ StopChild(i)
  \/ CompleteConfirmed(i) \/ FailRefused(i) \/ FailConfirmed(i)
  \/ Disturbed(i) \/ LeaderExits(i) \/ DescendantsExit(i)

LEMMA NextCases ==
  ASSUME Next
  PROVE  \E i \in Invocations :
           Local(i) \/ Acquire(i) \/ Complete(i) \/ Fail(i) \/ Database(i) \/ OperatorReconciles(i)
BY DEF Next, Proceeds, Local

Moves(i) ==
  \/ pc'[i] = pc[i]
  \/ pc'[i] \in {"over", "fail"}
  \/ /\ pc[i] \in {"idle", "read_completed", "read_processing"}
     /\ pc'[i] \in {"acquire", "read_processing", "read_latest"}
  \/ pc[i] = "acquiring" /\ jobStatus[i] = "processing" /\ pc'[i] = "export"
  \/ pc[i] \in {"export", "wait"} /\ pc'[i] \in {"wait", "stop", "complete"}

\* A local step keeps the rows, and moves the invocation to a place of which no less
\* was known.
LEMMA LocalShape ==
  ASSUME TypeOK, NEW i \in Invocations, Local(i)
  PROVE  /\ UNCHANGED jobVars
         /\ TypeOK'
         /\ \A k \in Invocations \ {i} : pc'[k] = pc[k]
         /\ Moves(i)
  <1> USE DEF TypeOK, Goto, End, Acquiring, Working, Watching, Failing, Answers, jobVars, Moves
  <1>1. CASE Start(i)  BY <1>1 DEF Start
  <1>2. CASE AcquireConfirmed(i) BY <1>2 DEF AcquireConfirmed
  <1>3. CASE AcquireUnconfirmed(i) BY <1>3 DEF AcquireUnconfirmed
  <1>4. CASE ReadCompleted(i) BY <1>4 DEF ReadCompleted
  <1>5. CASE ReadProcessing(i) BY <1>5 DEF ReadProcessing
  <1>6. CASE ReadLatest(i) BY <1>6 DEF ReadLatest
  <1>7. CASE Export(i) BY <1>7 DEF Export
  <1>8. CASE WaitReturns(i) BY <1>8 DEF WaitReturns, ToVerdict
  <1>9. CASE StopChild(i) BY <1>9 DEF StopChild
  <1>10. CASE CompleteConfirmed(i) BY <1>10 DEF CompleteConfirmed
  <1>11. CASE FailRefused(i) BY <1>11 DEF FailRefused
  <1>12. CASE FailConfirmed(i) BY <1>12 DEF FailConfirmed
  <1>13. CASE AcquisitionFails(i) BY <1>13 DEF AcquisitionFails
  <1>14. CASE Interrupt(i) BY <1>14 DEF Interrupt
  <1>15. CASE WorkFails(i) BY <1>15 DEF WorkFails
  <1>16. CASE FailUnconfirmed(i) BY <1>16 DEF FailUnconfirmed
  <1>17. CASE Killed(i) BY <1>17 DEF Killed
  <1>18. CASE LeaderExits(i) BY <1>18 DEF LeaderExits
  <1>19. CASE DescendantsExit(i) BY <1>19 DEF DescendantsExit
  <1> QED BY <1>1, <1>2, <1>3, <1>4, <1>5, <1>6, <1>7, <1>8, <1>9, <1>10, <1>11, <1>12, <1>13,
             <1>14, <1>15, <1>16, <1>17, <1>18, <1>19 DEF Local, Disturbed

LEMMA JobInit0 == ASSUME Init PROVE JobInv /\ Owned
BY DEF Init, JobInit, JobInv, TypeOK, JobStatus, Acquiring, Working, Watching, Failing, Answers,
       Rows, RowFollowsPlace, OpensAsItMay, ClaimsAlone, CompletedOnce, Owned, Running

LEMMA LocalKeepsJobInv ==
  ASSUME JobInv, NEW i \in Invocations, Local(i)
  PROVE  JobInv'
<1>1. /\ UNCHANGED jobVars
      /\ TypeOK'
      /\ \A k \in Invocations \ {i} : pc'[k] = pc[k]
      /\ Moves(i)
  BY LocalShape DEF JobInv
<1>2. CompletedOnce'
  BY <1>1 DEF JobInv, CompletedOnce, jobVars
<1>3. ASSUME NEW k \in Invocations
      PROVE  OpensAsItMay(k)' /\ ClaimsAlone(k)'
  BY <1>1 DEF JobInv, Rows, OpensAsItMay, ClaimsAlone, jobVars
<1>4. RowFollowsPlace(i)'
  BY <1>1 DEF JobInv, Rows, RowFollowsPlace, OpensAsItMay, jobVars, Moves
<1>5. ASSUME NEW k \in Invocations \ {i} PROVE RowFollowsPlace(k)'
  BY <1>1 DEF JobInv, Rows, RowFollowsPlace, jobVars
<1> QED BY <1>1, <1>2, <1>3, <1>4, <1>5 DEF JobInv, Rows

LEMMA AcquireKeepsJobInv ==
  ASSUME JobInv, NEW i \in Invocations, Acquire(i)
  PROVE  JobInv'
<1> USE DEF JobInv, TypeOK, JobStatus, Acquiring, Working, Watching, Failing, Answers, Goto, jobVars
<1>1. CASE /\ SendAcquisition(i)
           /\ Goto(i, "acquire", "acquiring")
           /\ UNCHANGED <<group, answer>>
  <2>1. TypeOK' BY <1>1 DEF SendAcquisition
  <2>2. Rows'
    BY <1>1 DEF SendAcquisition, IndexIsFree, Claimed, SameDate, Rows, RowFollowsPlace,
                OpensAsItMay, ClaimsAlone
  <2>3. CompletedOnce' BY <1>1 DEF SendAcquisition, CompletedOnce
  <2> QED BY <2>1, <2>2, <2>3
<1>2. CASE /\ Goto(i, "acquire", "read_completed")
           /\ UNCHANGED <<jobVars, group, answer>>
  <2>1. TypeOK' BY <1>2
  <2>2. Rows' BY <1>2 DEF Rows, RowFollowsPlace, OpensAsItMay, ClaimsAlone
  <2>3. CompletedOnce' BY <1>2 DEF CompletedOnce
  <2> QED BY <2>1, <2>2, <2>3
<1> QED BY <1>1, <1>2 DEF Acquire

LEMMA TransitionKeepsJobInv ==
  ASSUME JobInv, NEW i \in Invocations, Complete(i) \/ Fail(i)
  PROVE  JobInv'
<1> USE DEF JobInv, TypeOK, JobStatus, Acquiring, Working, Watching, Failing, Answers, Goto, jobVars
<1>1. ASSUME NEW terminal \in {"completed", "failed"}, SendTransition(i, terminal),
             pc[i] \in {"complete", "fail"}, UNCHANGED <<group, answer>>,
             NEW to \in {"completing", "failing"}, pc' = [pc EXCEPT ![i] = to]
      PROVE  JobInv'
  <2>1. TypeOK' BY <1>1 DEF SendTransition
  <2>2. Rows'
    BY <1>1 DEF SendTransition, Finishable, Rows, RowFollowsPlace, OpensAsItMay, ClaimsAlone
  <2>3. CompletedOnce' BY <1>1 DEF SendTransition, CompletedOnce
  <2> QED BY <2>1, <2>2, <2>3
<1>2. CASE Complete(i) /\ UNCHANGED jobVars
  <2>1. pc' = [pc EXCEPT ![i] = "fail"] /\ pc[i] = "complete" /\ UNCHANGED <<jobVars, group, answer>>
    BY <1>2 DEF Complete, SendTransition, Finishable
  <2>2. TypeOK' BY <2>1
  <2>3. Rows' BY <2>1 DEF Rows, RowFollowsPlace, OpensAsItMay, ClaimsAlone
  <2>4. CompletedOnce' BY <2>1 DEF CompletedOnce
  <2> QED BY <2>2, <2>3, <2>4
<1>3. CASE Complete(i) /\ SendTransition(i, "completed") /\ Goto(i, "complete", "completing")
  BY <1>1, <1>3 DEF Complete
<1>4. CASE Fail(i) BY <1>1, <1>4 DEF Fail
<1> QED BY <1>2, <1>3, <1>4 DEF Complete

LEMMA DatabaseKeepsJobInv ==
  ASSUME JobInv, NEW i \in Invocations, Database(i)
  PROVE  JobInv'
<1> USE DEF JobInv, TypeOK, JobStatus, Acquiring, Working, Watching, Failing, Answers, Database, ServerEnds
<1>1. /\ UNCHANGED <<group, pc, answer>>
      /\ sent[i] \in {"processing", "completed", "failed"}
      /\ sent' = [sent EXCEPT ![i] = "none"]
      /\ jobStatus' = jobStatus \/ jobStatus' = [jobStatus EXCEPT ![i] = sent[i]]
  OBVIOUS
<1>2. TypeOK' BY <1>1
<1>3. Rows' BY <1>1 DEF Rows, RowFollowsPlace, OpensAsItMay, ClaimsAlone
<1>4. CompletedOnce' BY <1>1 DEF Rows, OpensAsItMay, ClaimsAlone, CompletedOnce
<1> QED BY <1>2, <1>3, <1>4

LEMMA OperatorKeepsJobInv ==
  ASSUME JobInv, NEW i \in Invocations, OperatorReconciles(i)
  PROVE  JobInv'
<1> USE DEF JobInv, TypeOK, JobStatus, Acquiring, Working, Watching, Failing, Answers,
            OperatorReconciles, Reconcilable, Finishable
<1>1. TypeOK' OBVIOUS
<1>2. Rows' BY DEF Rows, RowFollowsPlace, OpensAsItMay, ClaimsAlone
<1>3. CompletedOnce' BY DEF CompletedOnce
<1> QED BY <1>1, <1>2, <1>3

LEMMA JobInvStep ==
  ASSUME JobInv, [Next]_vars
  PROVE  JobInv'
<1>1. CASE Next
  <2>1. PICK i \in Invocations :
          Local(i) \/ Acquire(i) \/ Complete(i) \/ Fail(i) \/ Database(i) \/ OperatorReconciles(i)
    BY <1>1, NextCases
  <2> QED BY <2>1, LocalKeepsJobInv, AcquireKeepsJobInv, TransitionKeepsJobInv,
             DatabaseKeepsJobInv, OperatorKeepsJobInv
<1>2. CASE UNCHANGED vars
  BY <1>2 DEF vars, jobVars, JobInv, TypeOK, Rows, RowFollowsPlace, OpensAsItMay, ClaimsAlone,
              CompletedOnce
<1> QED BY <1>1, <1>2

THEOREM JobInvariant == Spec => []JobInv
<1>1. Init => JobInv BY JobInit0
<1>2. JobInv /\ [Next]_vars => JobInv' BY JobInvStep
<1> QED BY <1>1, <1>2, PTL DEF Spec

\* The rows, the transactions and the places of invocations stay in their domains.
THEOREM TypeInvariant == Spec => []TypeOK
BY JobInvariant, PTL DEF JobInv

\* Whatever replies are lost and whoever is killed, the two partial unique indexes and the
\* compare-and-set of terminal transitions let no two invocations of the job process at
\* once, and no date be completed twice.
THEOREM NoDateTwice == Spec => []CompletedOnce
BY JobInvariant, PTL DEF JobInv

-----------------------------------------------------------------------------
(* Ends are final. *)

LEMMA FinishedIsFinalStep ==
  ASSUME JobInv, [Next]_vars, NEW k \in Invocations, jobStatus[k] \in {"completed", "failed"}
  PROVE  jobStatus'[k] = jobStatus[k]
<1> USE DEF JobInv, TypeOK, JobStatus
<1>1. CASE Next
  <2>1. PICK i \in Invocations :
          Local(i) \/ Acquire(i) \/ Complete(i) \/ Fail(i) \/ Database(i) \/ OperatorReconciles(i)
    BY <1>1, NextCases
  <2>2. CASE Local(i) BY <2>2, LocalShape DEF jobVars
  <2>3. CASE Acquire(i) \/ Complete(i) \/ Fail(i)
    BY <2>3 DEF Acquire, Complete, Fail, SendAcquisition, SendTransition, jobVars
  <2>4. CASE Database(i) BY <2>4 DEF Database, ServerEnds, Rows, OpensAsItMay
  <2>5. CASE OperatorReconciles(i)
    BY <2>5 DEF OperatorReconciles, Reconcilable, Finishable
  <2> QED BY <2>1, <2>2, <2>3, <2>4, <2>5
<1>2. CASE UNCHANGED vars BY <1>2 DEF vars, jobVars
<1> QED BY <1>1, <1>2

\* A terminal row never changes, also when the reply to its COMMIT was lost and its
\* invocation, or the operator, goes on to fail it.
THEOREM EndsAreFinal == Spec => FinishedIsFinal
<1>1. JobInv /\ [Next]_vars => [\A i \in Invocations : jobStatus[i] \in {"completed", "failed"} =>
                                  jobStatus'[i] = jobStatus[i]]_vars
  BY FinishedIsFinalStep
<1> QED BY <1>1, JobInvariant, PTL DEF Spec, FinishedIsFinal

-----------------------------------------------------------------------------
(* Answers. *)

LEMMA AnswersStep ==
  ASSUME JobInv, AnswerMatchesRow, [Next]_vars
  PROVE  AnswerMatchesRow'
<1>1. \A k \in Invocations : jobStatus[k] \in {"completed", "failed"} => jobStatus'[k] = jobStatus[k]
  BY FinishedIsFinalStep
<1>2. ASSUME NEW k \in Invocations, answer'[k] = answer[k]
      PROVE  /\ answer'[k] \in {"completed", "failed"} => jobStatus'[k] = answer'[k]
             /\ answer'[k] = "skipped_completed" => \E j \in SameDate(k) : jobStatus'[j] = "completed"
  BY <1>1, <1>2 DEF AnswerMatchesRow, SameDate
<1>3. ASSUME NEW i \in Invocations, NEW how \in {"error", "killed", "reconciliation_required",
                                                "skipped_processing", "skipped_conflict"},
             answer' = [answer EXCEPT ![i] = how]
      PROVE  AnswerMatchesRow'
  BY <1>2, <1>3 DEF AnswerMatchesRow, SameDate, JobInv, TypeOK
<1>4. CASE UNCHANGED answer
  BY <1>2, <1>4 DEF AnswerMatchesRow, SameDate
<1>5. CASE Next
  <2>1. PICK i \in Invocations :
          Local(i) \/ Acquire(i) \/ Complete(i) \/ Fail(i) \/ Database(i) \/ OperatorReconciles(i)
    BY <1>5, NextCases
  <2>2. CASE Acquire(i) \/ Complete(i) \/ Fail(i) \/ Database(i) \/ OperatorReconciles(i)
    BY <1>4, <2>2 DEF Acquire, Complete, Fail, Database, OperatorReconciles
  <2>3. CASE Local(i)
    <3> USE DEF End
    <3>1. CASE ReadCompleted(i)
      <4>1. CASE UNCHANGED answer BY <1>4, <4>1
      <4>2. CASE /\ \E j \in SameDate(i) : jobStatus[j] = "completed"
                 /\ answer' = [answer EXCEPT ![i] = "skipped_completed"]
        BY <1>1, <1>2, <4>2 DEF AnswerMatchesRow, SameDate, JobInv, TypeOK
      <4> QED BY <3>1, <4>1, <4>2 DEF ReadCompleted
    <3>2. CASE CompleteConfirmed(i)
      <4>1. jobStatus[i] = "completed" /\ answer' = [answer EXCEPT ![i] = "completed"]
        BY <3>2 DEF CompleteConfirmed
      <4> QED BY <1>1, <1>2, <4>1 DEF AnswerMatchesRow, SameDate, JobInv, TypeOK
    <3>3. CASE FailConfirmed(i)
      <4>1. jobStatus[i] = "failed" /\ answer' = [answer EXCEPT ![i] = "failed"]
        BY <3>3 DEF FailConfirmed
      <4> QED BY <1>1, <1>2, <4>1 DEF AnswerMatchesRow, SameDate, JobInv, TypeOK
    <3>4. CASE \/ Start(i) \/ AcquireConfirmed(i) \/ Export(i) \/ Interrupt(i) \/ WorkFails(i)
               \/ LeaderExits(i) \/ DescendantsExit(i)
      BY <1>4, <3>4 DEF Start, AcquireConfirmed, Export, Interrupt, WorkFails, LeaderExits,
                        DescendantsExit
    <3>5. CASE ReadProcessing(i)
      BY <1>3, <1>4, <3>5 DEF ReadProcessing
    <3>6. CASE ReadLatest(i)
      BY <1>3, <3>6 DEF ReadLatest
    <3>7. CASE WaitReturns(i) \/ StopChild(i)
      BY <1>3, <1>4, <3>7 DEF WaitReturns, StopChild
    <3>8. CASE \/ AcquireUnconfirmed(i) \/ FailRefused(i) \/ AcquisitionFails(i)
               \/ FailUnconfirmed(i) \/ Killed(i)
      BY <1>3, <3>8 DEF AcquireUnconfirmed, FailRefused, AcquisitionFails, FailUnconfirmed, Killed
    <3> QED BY <2>3, <3>1, <3>2, <3>3, <3>4, <3>5, <3>6, <3>7, <3>8 DEF Local, Disturbed
  <2> QED BY <2>1, <2>2, <2>3
<1>6. CASE UNCHANGED vars BY <1>4, <1>6 DEF vars
<1> QED BY <1>5, <1>6

\* An invocation never tells an end that is not that of its row, and skips a date as
\* completed only if it is.
THEOREM AnswersAreTrue == Spec => []AnswerMatchesRow
<1>1. Init => AnswerMatchesRow BY DEF Init, AnswerMatchesRow
<1>2. JobInv /\ AnswerMatchesRow /\ [Next]_vars => AnswerMatchesRow' BY AnswersStep
<1> QED BY <1>1, <1>2, JobInvariant, PTL DEF Spec

-----------------------------------------------------------------------------
(* Writers. *)

LEMMA OwnedStep ==
  ASSUME ~SignalsMeet, JobInv, Owned, [Next]_vars
  PROVE  Owned'
<1> USE DEF Owned, Running, JobInv, TypeOK, JobStatus, Goto, End
<1>1. CASE Next
  <2>1. PICK i \in Invocations :
          Local(i) \/ Acquire(i) \/ Complete(i) \/ Fail(i) \/ Database(i) \/ OperatorReconciles(i)
    BY <1>1, NextCases
  <2>2. CASE Acquire(i)
    BY <2>2 DEF Acquire, SendAcquisition, Rows, RowFollowsPlace, jobVars
  <2>3. CASE Complete(i)
    BY <2>3 DEF Complete, SendTransition, jobVars
  <2>4. CASE Fail(i)
    BY <2>4 DEF Fail, SendTransition
  <2>5. CASE Database(i)
    BY <2>5 DEF Database, ServerEnds
  <2>6. CASE OperatorReconciles(i)
    BY <2>6 DEF OperatorReconciles, Reconcilable
  <2>7. CASE Local(i)
    <3>1. UNCHANGED <<jobStatus, sent>> /\ \A k \in Invocations \ {i} : pc'[k] = pc[k]
      BY <2>7, LocalShape DEF jobVars
    <3>2. CASE Export(i)
      BY <3>1, <3>2 DEF Export, Rows, RowFollowsPlace
    <3>3. CASE WaitReturns(i)
      BY <3>1, <3>3 DEF WaitReturns, ToVerdict
    <3>4. CASE StopChild(i)
      BY <3>1, <3>4 DEF StopChild
    <3>5. CASE Interrupt(i)
      BY <3>1, <3>5 DEF Interrupt
    <3>6. CASE LeaderExits(i)
      BY <3>1, <3>6 DEF LeaderExits
    <3>7. CASE DescendantsExit(i)
      BY <3>1, <3>7 DEF DescendantsExit
    <3>8. CASE WorkFails(i)
      BY <3>1, <3>8 DEF WorkFails, Working
    <3>9. CASE Killed(i)
      BY <3>1, <3>9 DEF Killed
    <3>10. CASE \/ Start(i) \/ AcquireConfirmed(i) \/ AcquireUnconfirmed(i) \/ ReadCompleted(i)
                \/ ReadProcessing(i) \/ ReadLatest(i) \/ CompleteConfirmed(i) \/ FailRefused(i)
                \/ FailConfirmed(i) \/ AcquisitionFails(i) \/ FailUnconfirmed(i)
      <4>1. UNCHANGED group /\ pc[i] \notin {"wait", "stop", "over"}
        BY <3>10 DEF Start, AcquireConfirmed, AcquireUnconfirmed, ReadCompleted, ReadProcessing,
             ReadLatest, CompleteConfirmed, FailRefused, FailConfirmed, AcquisitionFails,
             FailUnconfirmed, Acquiring, Failing
      <4> QED BY <3>1, <4>1
    <3> QED BY <2>7, <3>2, <3>3, <3>4, <3>5, <3>6, <3>7, <3>8, <3>9, <3>10 DEF Local, Disturbed
  <2> QED BY <2>1, <2>2, <2>3, <2>4, <2>5, <2>6, <2>7
<1>2. CASE UNCHANGED vars BY <1>2 DEF vars, jobVars
<1> QED BY <1>1, <1>2

\* If no second signal meets the clean-up of a first, the row of a pipeline that still
\* has a process is processing: _stop_child comes before every transition that ends it.
THEOREM PipelinesOwnTheirRow ==
  ASSUME ~SignalsMeet
  PROVE  Spec => []WritersAreOwned
<1>1. Init => Owned BY JobInit0
<1>2. JobInv /\ Owned /\ [Next]_vars => Owned' BY OwnedStep
<1>3. Owned => WritersAreOwned BY DEF Owned, WritersAreOwned
<1> QED BY <1>1, <1>2, <1>3, JobInvariant, PTL DEF Spec
=============================================================================
