SPECIFICATION Spec
CONSTANTS
    MaxHomeAge = 2
    StatusInterval = 2
    ConnectPeriod = 2
    Interfaces = {i1, i2}
    NoInterface = NoInterface
INVARIANTS HomeAtOneHertz
