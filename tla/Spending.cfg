\* The script returns or raises: the machine stops.
CHECK_DEADLOCK FALSE
SPECIFICATION Spec
CONSTANTS
    Dust = 2
    AnchorSat = 1
    SwapMinerFee = 1
    EltooBase = 100
    Expiry = 5
    Delay = 16
    Amount = 10
    MaxItems = 3
INVARIANTS
    TypeOK
    OnlyEntitled
    BuiltAccepted
