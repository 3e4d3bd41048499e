SPECIFICATION Spec
CONSTANTS
    deploy = deploy
    delete = delete
    old = old
    Alice = Alice
    Bob = Bob
    NoOp = NoOp
    Accounts <- Everyone
    Listed <- OnlyBob
    Ops <- TableOps
    Kind <- TableKind
    Target <- TableTarget
    Orphans <- Former
    MaxTx = 3
    MaxStale = 1
    MaxLost = 1
    MaxReorg = 2
INVARIANT TypeOK
INVARIANT FinalizedIsFinal
INVARIANT FailedNeverExecuted
INVARIANT DeployedIsFinal
INVARIANT WhitelistShows
PROPERTY FinalizedForGood
