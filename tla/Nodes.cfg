SPECIFICATION MCSpec
CONSTANTS
    MaxAge = 5
    RequestTimeout = 1
    Slots = {s1, s2}
    EStopTimeout = 2
    CmdVelTimeout = 2
INVARIANTS
    OneConversion TargetIsNewest FixIsUsed
    FirstLifeStopsIdle ArmedMeansConsistent WatchdogStops
