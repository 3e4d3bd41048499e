SPECIFICATION Spec
CONSTANTS
    d1 = d1
    d2 = d2
    seller = seller
    buyer = buyer
    Seller = seller
    Buyer = buyer
    Requests <- TwoRequests
    Amount <- AmountOf
    Rejected <- NoRequest
    Managed <- Everyone
    MaxTx = 4
    MaxApiCrash = 1
    MaxSendCrash = 0
    MaxAbandon = 1
    MaxLost = 1
INVARIANTS
    StepExecutedOnce
    DepositsCoverRows
