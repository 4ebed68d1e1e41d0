\* Every swap may be over and the last block mined.
CHECK_DEADLOCK FALSE
SPECIFICATION FairSpec
CONSTANTS
    Dust = 2
    AnchorSat = 1
    SwapMinerFee = 1
    EltooBase = 100
    Offers <- MCOffers
    Locktime <- MCLocktime
    LnExpiry <- MCLnExpiry
    WalletSat = 6
    MaxHeight = 3
INVARIANTS
    TypeOK
PROPERTIES
    SwapIsAtomic
    FundsReturn
