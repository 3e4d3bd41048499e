SPECIFICATION Spec
CONSTANTS
    d1 = d1
    d2 = d2
    seller = seller
    buyer = buyer
    Seller = seller
    Buyer = buyer
    Requests <- TwoRequests
    Amount <- AmountOf
    Rejected <- OneRequest
    Managed <- Everyone
    MaxTx = 5
    MaxApiCrash = 1
    MaxSendCrash = 1
    MaxAbandon = 1
    MaxLost = 1
INVARIANTS
    TypeOK
    SuccessMeansExecuted
PROPERTIES
    StepTxKeptUntilReverted
