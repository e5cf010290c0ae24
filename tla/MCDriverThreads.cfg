CONSTANTS
    Host <- MCHost
    Context <- MCContexts
    Program <- MCProgram
    Runner = {"r1", "r2"}
SPECIFICATION Spec
CHECK_DEADLOCK FALSE
INVARIANTS
    TypeOK
    OneAtATime
    OneEngine
PROPERTIES
    DrainedDone
    SignalTaken
