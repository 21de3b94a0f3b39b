SPECIFICATION Spec
CONSTANTS
    Full = 12
    Bins = 6
    Multiple = 2
    MaxClock = 4
    MaxDisturbances = 2
    Configs <- MCConfigs
    Scans <- MCScans
INVARIANTS
    OneScanAfterStop
    ScanShowsMeasurements
    RangesAtTheirBearing
    PoseFollowsScans
    SpeedIsOfThePair
CHECK_DEADLOCK FALSE
