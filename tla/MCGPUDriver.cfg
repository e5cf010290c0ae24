CONSTANTS
    GPU <- MCGPU
    Page <- MCPage
    Home <- MCHome
    Program <- MCProgram
    NumChunks = 1
    WireCap = 1
    CU = {"cu"}
    AT = {"at"}
    L1 = {"l1"}
    TLB = {"tlb"}
    UnregisteredTLB = {"l2tlb"}
    FoundByFlush = {"p1"}
    LinkCap = 2
    MaxWrites = 1
    MaxMigrations = 1
SPECIFICATION Spec
CHECK_DEADLOCK FALSE
INVARIANTS
    AcksCounted
    StoppedInOrder
PROPERTY
    MigrationEnds
