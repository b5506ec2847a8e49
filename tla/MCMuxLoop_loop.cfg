SPECIFICATION FairSpec
CONSTANTS
    NumTickets = 2
    SkipK = 1
    SuppressionCap = 1
    FalseEpics = 1
    EscapeCap = 1
    RelaunchCap = 2
    TicketCap = 3
    BreakerBudget = 1
    Bounds <- Sessions
INVARIANT TypeOK
PROPERTIES DoneStays SpawnsWorkable SuccessIsHonest RunEnds
CHECK_DEADLOCK FALSE
