SPECIFICATION FairSpec
CONSTANTS
    JoyTimeout = 1
    EStopTimeout = 1
    CmdVelTimeout = 1
    CommandTimeout = 2
    StopTimeout = 1
    EStopMayDie = TRUE
    MuxTimeout <- MCMuxTimeout
INVARIANTS ArmedOnlyUnlatched OperatorGoneIdles JoystickLossIdles ObstacleStands
PROPERTY JoystickResumes
