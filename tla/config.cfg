CONSTANTS
    Inputs <- AllInputs
    Files <- AllFiles
SPECIFICATION Spec
INVARIANTS
    Precedence
    FileReadIsFileNamed
    LoadedIsUsable
    RejectedForCause
CHECK_DEADLOCK FALSE
