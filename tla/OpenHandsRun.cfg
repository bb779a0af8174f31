SPECIFICATION FairSpec
CONSTANTS
  FirstTurns <- Works
  FollowupTurns <- Answers
  Bases = 2
  MaxAttempts = 2
  Faults <- FaultKinds
  MaxDrops = 1
INVARIANTS
  EndIsOwn
  NoWorkAfterReturn
  NewestTextTaken
  FailureIsReported
PROPERTIES
  CallReturns
  ImplementsCall
CHECK_DEADLOCK FALSE
