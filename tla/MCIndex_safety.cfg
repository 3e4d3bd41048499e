SPECIFICATION Spec
CONSTANTS
    Issuer = Issuer
    Alice = Alice
    Bob = Bob
    DEX = DEX
    DEX2 = DEX2
    NoExchange = NoExchange
    Zero = Zero
    t1 = t1
    t2 = t2
    e1 = e1
    r1 = r1
    r2 = r2
    Fin = Fin
    Data = Data
    NoTemplate = NoTemplate
    add = add
    burn = burn
    NoOp = NoOp
    None = None
    Scenarios = {"balances", "locks", "trades", "spending", "changes", "ledgers", "approvals", "indexing", "collecting", "bridge", "books", "gaps", "former", "overflow"}
    Lot = 2
    Requests = {r1, r2}
    MaxBlocks = 3
    MaxAborts = 1
    MaxLists = 2
    MaxLedgers = 2
    MaxEdits = 1
    MaxFaults = 1
    MaxLocks = 2
    MaxLate = 1
CHECK_DEADLOCK FALSE
INVARIANT TypeOK
INVARIANT PositionsAreCurrent
INVARIANT LockEventsOnce
INVARIANT UnspentAddsUp
INVARIANT LedgersAreTrue
INVARIANT ApprovalsAreTrue
INVARIANT ApprovalsNotifiedOnce
INVARIANT HolderListsAreTrue
INVARIANT BridgeRowsOnce
INVARIANT BridgeIsBacked
PROPERTY BridgeResultsStay
