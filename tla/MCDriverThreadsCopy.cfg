CONSTANTS
    Host <- MCHost
    Context <- MCOneContext
    Program <- MCDrains
    Runner = {"r1", "r2"}
SPECIFICATION Spec
CHECK_DEADLOCK FALSE
INVARIANT CopyFresh
