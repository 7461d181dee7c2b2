SPECIFICATION InvoicedSpec
CONSTANTS
    MaxId = 4
    Suppliers = {"CHEESECO", "DOUGHCO", "SAUCECO"}
    Prices = {1, 2}
    Requests = {1, 2, 3}
    Route <- SerialWorkload
    MaxInFlight = 1
    MaxFaults = 0
    Bodies <- TwoOrders
    TransferParties <- ScanParties
    PaymentParties <- PayTwo
    Supply = 9
INVARIANTS PaymentReachesSupplier PaymentAnswerIsTrue NoRemainder
