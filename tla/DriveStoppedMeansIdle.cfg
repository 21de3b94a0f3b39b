SPECIFICATION DriveSpec
CONSTANTS
    EStopTimeout = 2
    CmdVelTimeout = 2
INVARIANT StoppedMeansIdle
