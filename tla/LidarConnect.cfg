SPECIFICATION Spec
CONSTANTS
    Links <- MCLinks
    SizeLen = 2
    MaxPipe = 3
    MaxOpens = 2
    MaxResets = 1
INVARIANT ConnectedMeansOpen
CHECK_DEADLOCK FALSE
