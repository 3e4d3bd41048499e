SPECIFICATION FairSpec
CONSTANTS
    Issuer = Issuer
    Alice = Alice
    Bob = Bob
    DEX = DEX
    DEX2 = DEX2
    NoExchange = NoExchange
    Zero = Zero
    t1 = t1
    t2 = t2
    e1 = e1
    r1 = r1
    r2 = r2
    Fin = Fin
    Data = Data
    NoTemplate = NoTemplate
    add = add
    burn = burn
    NoOp = NoOp
    None = None
    Scenarios = {"overflow"}
    Lot = 1
    Requests = {r1}
    MaxBlocks = 2
    MaxAborts = 1
    MaxLists = 1
    MaxLedgers = 1
    MaxEdits = 0
    MaxFaults = 1
    MaxLocks = 1
    MaxLate = 0
CHECK_DEADLOCK FALSE
PROPERTY OverflowIsSuppressed
