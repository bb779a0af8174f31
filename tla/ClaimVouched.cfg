SPECIFICATION Spec
CONSTANTS
  None = None
  Routes <- ObserveRoute
  Gathered <- OneGathered
  Impacts <- NoImpacts
  Plans <- OnePlan
  PacketChains <- TwoPackets
  PolicyVerdicts <- OnlyAllowed
  Approvals <- TrueOnly
  Outcomes <- CoreOutcomes
  DeliverablesMissing <- FalseOnly
  QaReports <- RanOnly
  Verdicts <- CoreVerdicts
  PublishOutcomes <- CorePublish
  PolicyEngines <- Fallback
  MaxRepairAttempts = 2
  RetryBudget = 2
  GlobalLimit = 2
  PerTriggerLimit = 1
  PerSourceLimit = 2
  PerTargetLimit = 2
  MaxCrashes = 1
PROPERTIES
  RepublishAfterReview
CHECK_DEADLOCK FALSE
