SPECIFICATION Spec
CONSTANTS
    Full = 12
    Bins = 6
    Multiple = 1
    MaxClock = 3
    MaxDisturbances = 0
    Configs <- MCConfigs
    Scans <- MCScans
INVARIANT WidthIsScanSize
CHECK_DEADLOCK FALSE
