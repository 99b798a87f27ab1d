SPECIFICATION Spec
CONSTANTS
    Gen = Gen
    Ann = Ann
    Bob = Bob
    Account <- MCAccount
    NumBlocks = 56
    Content <- MCMixed
    Genesis = 1
    GenesisAccount = Gen
    GenesisAmount = 3
    Owner <- MCOwner
    BalanceAt <- MCBalanceAt
    AmountAt <- MCAmountAt
    RepBlockAt <- MCRepBlockAt
    BlockInfoMax = 2
INVARIANTS
    LedgerInv
    PendingIsUnreceived
    WeightsAreBalances
    Conservation
    ChecksumIsHeads
    IndexIsComplete
    AcceptsTheValid
    CallsNest
PROPERTIES
    ImplementsLattice
    OnlyDependentsRemoved
    RollbackReturns
