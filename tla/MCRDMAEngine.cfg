CONSTANTS
    Engine <- MCEngine
    Id <- MCId
    From <- MCFrom
    To <- MCTo
    PortCap = 2
    LinkCap = 1
    Rounds = 2
SPECIFICATION Spec
INVARIANTS
    TypeOK
    TransactionsMatch
    NothingUnderWay
    RestartNotLost
PROPERTIES
    DrainEnds
    Refines
