SPECIFICATION InvoicedSpec
CONSTANTS
    MaxId = 4
    Suppliers = {"CHEESECO", "DOUGHCO", "SAUCECO"}
    Prices = {1, 2}
    Requests = {1, 2, 3, 4}
    Route <- ScanWorkload
    MaxInFlight = 4
    MaxFaults = 1
    Bodies <- OneOrder
    TransferParties <- ScanParties
    PaymentParties <- PayOne
    Supply = 9
INVARIANTS StatusBackedByToken DeliveredOnce
PROPERTY StatusMovesForward
