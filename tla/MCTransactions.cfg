SPECIFICATION SuiteSpec
CONSTANTS
    Focuses = {"ledger", "mempool", "flow", "raw", "relay", "emission"}
    Faults = {}
    alice = alice
    bob = bob
    carol = carol
    fund = fund
    m1 = m1
    m2 = m2
    a = a
    b = b
    Signer = Signer
    Stranger = Stranger
    Error = Error
    None = None
    NoWork = NoWork
    Accounts = {alice, bob, fund}
    Foundation = fund
    InitialBalances <- SmallBalances
    Transactions <- SmallTransactions
    Events <- SmallEvents
    Timestamps = {1, 2}
    FeeBps = 1
    FeeDenominator = 5
    U128Max = 15
    MaxBlocks = 2
    MaxItems = 2
INVARIANTS
    Conserved
    HistoryIsSound
    DrainedIsRestored
    DecodesExactly
    RewardsAreBacked
    WithinBudgets

    
CHECK_DEADLOCK FALSE
