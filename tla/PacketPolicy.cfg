CONSTANT MaxEdits = 2
SPECIFICATION GateSpec
INVARIANTS NothingForbiddenIsAllowed TablesNest BuiltPacketsStart
CHECK_DEADLOCK FALSE
