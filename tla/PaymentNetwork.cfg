SPECIFICATION Spec
CONSTANTS
    Alice = Alice
    Bob = Bob
    Dave = Dave
    p1 = p1
    p2 = p2
    p3 = p3
    Nodes = {Alice, Bob, Dave}
    Links <- MCLinks
    Capacity = 3
    Payments = {p1, p2, p3}
    Route <- MCRoute
    Amount <- MCAmount
    Delta <- MCDelta
    Grace = 1
    MaxHeight = 7
INVARIANTS TypeOK ChannelsConserved RelaySafe WealthExplained SecretPerOffer
PROPERTY PaymentsAtomic
CHECK_DEADLOCK FALSE
