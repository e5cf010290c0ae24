CONSTANTS
    Req <- MCReq
    Page <- MCPage
    PageOf <- MCPageOf
    PidOf <- MCPidOf
    Masked <- MCMasked
    Block = {1}
    PortCap = 1
    PipeCap = 1
    BankCap = 1
    Set = {1, 2}
    Way = {1}
    SetOf <- MCSetOf
    FlushSetOf <- MCFlushSetOf
    TopCap = 1
    LookupCap = 1
    MSHRCap = 2
    BottomCap = 1
    WriteLevel = {0, 1}
    MaxWrites = 2
    MaxFlushes = 1
SPECIFICATION Spec
INVARIANTS
    TypeOK
    EachRequestOnce
    MissesFetched
    AnswersRight
PROPERTY EventuallyAnswered
