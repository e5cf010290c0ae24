CONSTANTS
    Host <- MCOneHost
    Context <- MCOneHostContext
    Program <- MCOneThread
    Runner = {"r1", "r2"}
SPECIFICATION Spec
CHECK_DEADLOCK FALSE
PROPERTY DrainReturns
