SPECIFICATION Spec
CONSTANTS
    w1 = w1
    w2 = w2
    r1 = r1
    r2 = r2
    r3 = r3
    r4 = r4
    A = A
    B = B
    NoWorker = NoWorker
    Workers <- TwoWorkers
    Issuers <- Both
    Uploads <- ThreeUploads
    Rows <- FourRows
    UploadOf <- FourOf
    IssuerOf <- ThreeIssuers
    NoKey <- OnlyB
    WorkerLotSize = 2
    TxLotSize = 1
    MaxFault = 1
    MaxDeath = 1
    MaxLost = 1
INVARIANTS
    TypeOK
    OneWorkerPerUpload
    RepeatsNeedLoss
    ResultMatchesRows
PROPERTIES
    SettledForGood
    ImplementsBatch
