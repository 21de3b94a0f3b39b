SPECIFICATION FairSpec
CONSTANTS
    Links <- MCLinks
    SizeLen = 2
    MaxPipe = 3
    MaxOpens = 2
    MaxResets = 1
INVARIANT HeardIsSent
PROPERTIES IsByteStream CloseReturns
CHECK_DEADLOCK FALSE
