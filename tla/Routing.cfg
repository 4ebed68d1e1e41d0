SPECIFICATION RoutingSpec
CONSTANTS
    Nodes = {1, 2, 3, 4, 5}
    Topologies <- MCTopologies
    Capacity = 4
    Source = 1
    Target = 5
    Amount = 1
    BaseFee = 1
    FeeRatePpm = 500000
    BaseLocktime = 100
    CltvDelta = 40
INVARIANTS RoutingTypeOK RouteSound CompleteWithHeadroom
PROPERTY Terminates
CHECK_DEADLOCK FALSE
