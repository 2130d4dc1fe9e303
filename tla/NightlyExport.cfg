SPECIFICATION FairSpec
CONSTANTS
  n1 = n1  n2 = n2  n3 = n3  monday = monday  tuesday = tuesday
  Invocations <- MCInvocations
  TargetDate <- MCTargetDate
  SignalsMeet = FALSE
CHECK_DEADLOCK FALSE
INVARIANTS
  TypeOK
  WritersAreOwned
  CompletedOnce
  AnswerMatchesRow
PROPERTIES
  EveryInvocationEnds
  EveryClaimIsFreed
