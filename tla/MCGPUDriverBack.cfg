CONSTANTS
    GPU <- MCGPU
    Page <- MCOnePage
    Home <- MCHomeOne
    Program <- MCProgram
    NumChunks = 2
    WireCap = 1
    CU = {"cu"}
    AT = {"at"}
    L1 = {"l1"}
    TLB = {"tlb"}
    UnregisteredTLB = {"l2tlb"}
    FoundByFlush = {"p1"}
    LinkCap = 2
    MaxWrites = 2
    MaxMigrations = 2
SPECIFICATION Spec
INVARIANTS
    TypeOK
    PullsAnswered
    MigrationQuiesced
    PageIntact
    CopyFresh
    RestartedAtEnd
