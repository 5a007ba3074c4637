CONSTANT
    Cases <- AllCases
SPECIFICATION Spec
INVARIANTS
    PassesExactlyTheWanted
CHECK_DEADLOCK FALSE
