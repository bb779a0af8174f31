CONSTANT MaxEdits = 1
SPECIFICATION GateSpec
INVARIANT RetrievalIsAccepted
CHECK_DEADLOCK FALSE
