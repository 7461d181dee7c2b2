SPECIFICATION Spec
CONSTANTS
    MaxId = 6
    Suppliers = {"CHEESECO", "DOUGHCO", "SAUCECO"}
    Prices = {1}
    Requests = {1, 2, 3, 4}
    Route <- PurchasingWorkload
    MaxInFlight = 3
    MaxFaults = 1
    Bodies <- OddOrders
    TransferParties <- ScanParties
    PaymentParties <- PayOne
    Supply = 9
INVARIANT RowsReferToChain
 
