SPECIFICATION FairSpec
CONSTANTS
    Echoes <- MCEchoes
    VTIME = 1
    MaxAge = 3
    RequiredReadings = 2
    CheckPeriod = 2
    MaxDisturbances = 1
PROPERTY ReadsTimeOut
