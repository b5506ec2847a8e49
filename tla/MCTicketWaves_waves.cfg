SPECIFICATION FairSpec
CONSTANTS
    NumTickets = 3
    MaxParallel = 2
    Sessions <- Several
INVARIANTS TypeOK DoneHasItsEvidence NoWorkIsLost RelatedNeverTogether BuiltOnDependencies
PROPERTIES ConvergedIsHonest WavesEnd
CHECK_DEADLOCK FALSE
