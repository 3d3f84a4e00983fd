\* Every client, configuration and route, any answers, anything lost.
SPECIFICATION PaidSpec
CONSTANTS
    Usdc = "usdc"
    Router = "router"
    Address <- MCAddress
    Change <- MCChange
    Requests <- MCRequests
    ConfigMax = 2
    Authorization <- MCAuthorization
    MaxTime = 2
INVARIANTS SafetyTypeOK LiveOnlySimulated NoDrainBeyondMax StatedAmountWithinMax DrainForCause PaidTypeOK UnpaidMeansUnpaid
PROPERTIES PurchaseImplemented CallEnds
