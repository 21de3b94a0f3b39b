SPECIFICATION Spec
CONSTANTS
    Devices <- MCDevices
    Queries = {"ip"}
    RevLen = 3
    Cap = 2
    MaxLine = 1
    MaxFaults = 1
INVARIANTS GrabbedIsOneScan AnswerIsOwn AnswerWakes AnswerHeard
