SPECIFICATION FairSpec
CONSTANTS
  None = None
  Modes = {"rule_based", "hybrid", "unadvised"}
  Tasks = {{"tests", "heavy"}, {"refactor"}}
  MaxAttempts = 1
  MaxRepairs = 1
INVARIANTS
  OnlyDriftIsRepaired
  AnswerIsTheValidReply
  RecordIsComplete
  FailureMeansRepair
  RefusedAdviceChangesNothing
PROPERTIES
  CheckpointIsDecided
