SPECIFICATION Spec
CONSTANTS
  GlobalLimit = 4
  PerTriggerLimit = 2
  PerSourceLimit = 2
  PerTargetLimit = 2
  Sources <- MCSources
  Triggers <- MCTriggers
  PolicyUp <- Answering
  MaxDecisions = 5
INVARIANTS
  ReentriesBounded
  DenialIsFinal
CHECK_DEADLOCK FALSE
