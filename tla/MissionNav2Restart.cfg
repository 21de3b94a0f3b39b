SPECIFICATION FairSpec
CONSTANTS
    Periods = 1
    StaleAfter <- MCStaleAfter
    RetryDelay = 1
    Slots = {s1, s2}
    None = None
    Nav2MayDie = TRUE
    ManagerMayDie = FALSE
PROPERTY WantedIsPursued
