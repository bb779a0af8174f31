SPECIFICATION Spec
CONSTANTS
  None = None
  Routes <- OtherRoutes
  Gathered <- AllGathered
  Impacts <- NoImpacts
  Plans <- AllPlans
  PacketChains <- TwoPackets
  PolicyVerdicts <- AllPolicy
  Approvals <- Answers
  Outcomes <- MCOutcomes
  DeliverablesMissing <- Answers
  QaReports <- RanOrBlocked
  Verdicts <- MCVerdicts
  PublishOutcomes <- MCPublish
  PolicyEngines <- Fallback
  MaxRepairAttempts = 1
  RetryBudget = 1
  GlobalLimit = 2
  PerTriggerLimit = 1
  PerSourceLimit = 2
  PerTargetLimit = 2
  MaxCrashes = 0
INVARIANTS
  TypeOK
  GatesNeverRaise
  CompletedIsEarned
PROPERTIES
  PublishIsVouched
  ExecutePermitted
  FollowsLoopBudget
  PublishAsPlanned
CHECK_DEADLOCK FALSE
