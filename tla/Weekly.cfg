SPECIFICATION FairSpec
CONSTANTS
  Runs = {r1, r2}
  NoRun = NoRun
  Keys = {k1, k2}
  Kpis = {v1, v2}
  NoRow = NoRow
  MaxVersion = 1
CHECK_DEADLOCK FALSE
INVARIANTS
  TypeOK
  PublicationIsAtomic
  VerdictMatchesCommit
PROPERTIES
  CountsDescribeCommit
  PublishInTokenOrder
  ImplementsReport
  ImplementsHistory
  EveryFlowEnds
  WeekIsNeverStuck
