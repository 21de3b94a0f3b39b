SPECIFICATION Spec
CONSTANTS
    Periods = 2
    StaleAfter <- MCStaleAfter
    RetryDelay = 2
    Slots = {s1, s2}
    None = None
    Nav2MayDie = FALSE
    ManagerMayDie = FALSE
INVARIANT NewModeDoesNotWait
