SPECIFICATION MCSpec
CONSTANTS
    Sender = Sender
    Receiver = Receiver
    CapacitySat = 3
    HtlcIds = {h1, h2}
    Preimages = {r1, r2}
    Amounts <- MCAmounts
    Locktimes <- MCLocktimes
    LastBlock = 1
    MaxSeq = 5
    Bits = 3
    Seed = Seed
    FakeRoots = {fake}
INVARIANTS
    ChannelTypeOK
    BalancesExplained
    QuiescentCloseFinal
    ShachainTypeOK
    AllRetrievable
    StoreIsMinimal
    AnswerUnique
    SlotBound
PROPERTY
    SettledOnlyPaysOut
