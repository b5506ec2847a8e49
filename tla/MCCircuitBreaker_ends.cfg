SPECIFICATION FairSpec
CONSTANTS
    t1 = t1
    t2 = t2
    Tickets = {t1, t2}
    NoTicket = NoTicket
    TierBudget <- TierBudgets
    Pickable = {t1}
    Steps = {research}
    NoStep = NoStep
    Trees = {tree1, tree2}
    Shas = {sha1, sha2, sha3}
    NoHead = NoHead
    Edits = {edit}
    Clean = Clean
    Errors = {e1}
    NoError = NoError
    MaxFaults = 1
    Answers = {"all"}
    PatientOperator = TRUE
    MediumBudget = 5
    NoProgressSetting = 5
    SameErrorSetting = 3
    HalfOpenSetting = 2
    RelaunchCap = 1
    HistoryCap = 1
    CountBound = 4
PROPERTY StuckSessionEnds
