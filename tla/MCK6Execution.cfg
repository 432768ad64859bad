SPECIFICATION SpecExecution
CONSTANTS
  MaxDifferences = 1
  MaxStrays = 1
  Histories <- MCHistories
  Resources <- MCResources
INVARIANTS
  EvidenceValid
  FirstCauseNamed
  ReportedAsRun
  OneLineage
  SuccessIsClean
PROPERTIES
  SettledOnce
  ExecutionAnswers
CHECK_DEADLOCK FALSE
