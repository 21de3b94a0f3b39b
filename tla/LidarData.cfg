SPECIFICATION Spec
CONSTANTS
    Kinds = {"normal", "hq", "capsule", "ultra", "dense", "ultradense"}
    Turn = 6
    Scale = 4
    MaxDiff = 3
    Steps = {1, 2}
    MaxFrames <- MCMaxFrames
    MaxFaults = 1
INVARIANTS
    NoFrameSkipped
    EarlierScanIsForgotten
    OneSyncPerTurn
    DistancesJoin
CHECK_DEADLOCK FALSE
