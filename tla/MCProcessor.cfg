SPECIFICATION Spec
CONSTANTS
    Gen = Gen
    Ann = Ann
    Bob = Bob
    Account <- MCAccount
    NumBlocks = 6
    Content <- MCTransfer
    Genesis = 1
    GenesisAccount = Gen
    GenesisAmount = 3
    Owner <- MCOwner
    BalanceAt <- MCBalanceAt
    AmountAt <- MCAmountAt
    RepBlockAt <- MCRepBlockAt
    BlockInfoMax = 2
    BatchMax = 2
    GapMax = 1
    ArrivalMin = 1
    Budget <- MCMany
CHECK_DEADLOCK FALSE
INVARIANTS
    TypeOK
    OrderDoesNotMatter
    GapCacheIsGaps
    NoValidBlockWaits
    ForcedHasNoRival
