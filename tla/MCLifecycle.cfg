SPECIFICATION Spec
CONSTANTS
  FactSpace <- MCFactSpace
INVARIANTS
  EnginesAgree
  PublishIsGated
  RepairIsGated
  FailsClosed
CHECK_DEADLOCK FALSE
