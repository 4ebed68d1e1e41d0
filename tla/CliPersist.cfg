SPECIFICATION Spec
CONSTANTS
    Sessions = {s1, s2}
    Coins <- MCCoins
    Commands <- MCCommands
    SimLinks <- MCSimLinks
    Capacity = 4
    Fee = 1
    Dust = 2
INVARIANT FundedChannelsPersist
SYMMETRY MCSymmetry
