SPECIFICATION FairSpec
CONSTANTS
    JoyTimeout = 1
    EStopTimeout = 1
    CmdVelTimeout = 1
    CommandTimeout = 1
    StopTimeout = 1
    EStopMayDie = FALSE
    MuxTimeout <- MCMuxTimeout
PROPERTY NavigationResumes
