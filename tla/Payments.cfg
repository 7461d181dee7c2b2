SPECIFICATION InvoicedSpec
CONSTANTS
    MaxId = 4
    Suppliers = {"CHEESECO", "DOUGHCO", "SAUCECO"}
    Prices = {1, 2}
    Requests = {1, 2}
    Route <- PaymentWorkload
    MaxInFlight = 2
    MaxFaults = 1
    Bodies <- TwoOrders
    TransferParties <- ScanParties
    PaymentParties <- PayTwo
    Supply = 9
INVARIANTS TypeOK PaidMeansMoved
