SPECIFICATION Spec
CONSTANTS
    NumTickets = 2
    SkipK = 2
    SuppressionCap = 1
    FalseEpics = 1
    EscapeCap = 1
    RelaunchCap = 2
    TicketCap = 3
    BreakerBudget = 3
    Bounds <- Short
PROPERTY NoProgressFailedStays
CHECK_DEADLOCK FALSE
