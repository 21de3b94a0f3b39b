SPECIFICATION FairSpec
CONSTANTS
    Periods = 2
    StaleAfter <- MCStaleAfter
    RetryDelay = 2
    Slots = {s1, s2}
    None = None
    Nav2MayDie = TRUE
    ManagerMayDie = TRUE
INVARIANTS OneGoal CancelIsSent DrivesToItsOwnTarget
PROPERTIES ImplementsPursuit UnwantedGoalEnds PursuedUnlessStranded
