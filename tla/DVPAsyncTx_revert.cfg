SPECIFICATION Spec
CONSTANTS
    d1 = d1
    d2 = d2
    seller = seller
    buyer = buyer
    Seller = seller
    Buyer = buyer
    Requests <- OneRequest
    Amount <- AmountOfOne
    Rejected <- OneRequest
    Managed <- SellerOnly
    MaxTx = 4
    MaxApiCrash = 0
    MaxSendCrash = 0
    MaxAbandon = 0
    MaxLost = 0
PROPERTIES
    RevertResentOnlyIfReverted
