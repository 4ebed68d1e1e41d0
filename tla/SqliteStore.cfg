SPECIFICATION Spec
CONSTANTS
    Processes = {p1, p2}
    Channels = {"c1"}
    ActiveHtlcs <- MCActiveHtlcs
    Redeemed = 2
INVARIANTS
    TypeOK
    RowsMirror
    SavedLoadsBack
