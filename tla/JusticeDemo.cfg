\* Every commitment may be spent and the last block mined.
CHECK_DEADLOCK FALSE
SPECIFICATION FairSpec
CONSTANTS
    Dust = 2
    AnchorSat = 1
    SwapMinerFee = 1
    EltooBase = 100
    Capacity = 10
    AliceSat <- DemoAliceSat
    RemedySat = {10}
    TxidText = "internal"
    Delay = 3
    MaxHeight = 5
PROPERTIES
    BreachPunished
